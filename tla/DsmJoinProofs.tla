---------------------------- MODULE DsmJoinProofs ----------------------------
(***************************************************************************)
(* Theorems about DsmMembership: types, ids and node tables, and the       *)
(* abstract list of members.                                               *)
(***************************************************************************)
EXTENDS DsmMembershipProofs, FiniteSetTheorems, WellFoundedInduction, SequenceTheorems

\* Every non-empty set of numbers has a least element.
LEMMA LeastIndex ==
  ASSUME NEW S \in SUBSET Nat, S # {}
  PROVE  \E m \in S : \A k \in S : m <= k
<1> DEFINE T == {0..n : n \in S}
<1>1. T \subseteq FiniteSubsetsOf(Nat) /\ T # {}
  <2>1. \A n \in S : IsFiniteSet(0..n) /\ 0..n \in SUBSET Nat
    BY FS_Interval
  <2> QED
    BY <2>1 DEF FiniteSubsetsOf
<1>2. IsWellFoundedOn(StrictSubsetOrdering(Nat), FiniteSubsetsOf(Nat))
  BY FS_StrictSubsetOrderingWellFounded
<1> HIDE DEF T
<1>3. PICK x \in T : \A y \in T : ~(<<y, x>> \in StrictSubsetOrdering(Nat))
  BY <1>1, <1>2, WFMin
<1>4. PICK m \in S : x = 0..m
  BY DEF T
<1>5. ASSUME NEW k \in S, ~(m <= k) PROVE FALSE
  <2>1. 0..k \in T
    BY DEF T
  <2>2. 0..k \subseteq 0..m /\ 0..k # 0..m
    <3>1. m \in 0..m /\ m \notin 0..k
      BY <1>5
    <3>2. 0..k \subseteq 0..m
      BY <1>5
    <3> QED
      BY <3>1, <3>2
  <2>3. <<0..k, 0..m>> \in StrictSubsetOrdering(Nat)
    BY <2>2 DEF StrictSubsetOrdering
  <2> QED
    BY <1>3, <1>4, <2>1, <2>3
<1> QED
  BY <1>5

\* A search from the front finds the first index.
LEMMA FirstFacts ==
  ASSUME NEW S \in SUBSET Nat, S # {}
  PROVE  First(S) \in S
<1>1. \E m \in S : \A k \in S : m <= k
  BY LeastIndex
<1> QED
  BY <1>1 DEF First

-----------------------------------------------------------------------------
(* The loop of dsm_node_table_deserialize *)

\* merged is the sequence of tables that the loop goes through up to entry n.
Loop(merged, t, infos, n) ==
  merged = [k \in 0..n |-> IF k = 0 THEN t ELSE Merge(merged[k - 1], infos[k])]

LEMMA LoopExtends ==
  ASSUME NEW t, NEW infos, NEW n \in Nat, n # 0, NEW h, Loop(h, t, infos, n - 1)
  PROVE  \E g : Loop(g, t, infos, n)
<1> DEFINE g == [k \in 0..n |-> IF k = n THEN Merge(h[n - 1], infos[n]) ELSE h[k]]
<1>1. \A k \in 0..n - 1 : h[k] = IF k = 0 THEN t ELSE Merge(h[k - 1], infos[k])
  BY DEF Loop
<1>2. \A k \in 0..n : g[k] = IF k = n THEN Merge(h[n - 1], infos[n]) ELSE h[k]
  OBVIOUS
<1>3. \A k \in 0..n : k # n => k \in 0..n - 1
  OBVIOUS
<1>4. \A k \in 0..n : k # 0 => k - 1 \in 0..n /\ k - 1 # n
  OBVIOUS
<1>5. n \in 0..n
  OBVIOUS
<1>6. DOMAIN g = 0..n /\ g = [k \in 0..n |-> g[k]]
  OBVIOUS
<1> HIDE DEF g
<1>7. \A k \in 0..n : k # 0 => g[k - 1] = h[k - 1]
  BY <1>2, <1>4
<1>8. ASSUME NEW k \in 0..n PROVE g[k] = IF k = 0 THEN t ELSE Merge(g[k - 1], infos[k])
  <2>1. CASE k = n
    BY <2>1, <1>2, <1>7, <1>5
  <2>2. CASE k # n
    <3>1. g[k] = IF k = 0 THEN t ELSE Merge(h[k - 1], infos[k])
      BY <2>2, <1>1, <1>2, <1>3
    <3> QED
      BY <3>1, <1>7
  <2> QED
    BY <2>1, <2>2
<1>9. g = [k \in 0..n |-> IF k = 0 THEN t ELSE Merge(g[k - 1], infos[k])]
  BY <1>6, <1>8
<1> QED
  BY <1>9 DEF Loop

LEMMA LoopExists ==
  ASSUME NEW t, NEW infos, NEW n \in Nat
  PROVE  \E g : Loop(g, t, infos, n)
<1> DEFINE Stuck == {k \in Nat : ~\E g : Loop(g, t, infos, k)}
<1> SUFFICES ASSUME n \in Stuck PROVE FALSE
  OBVIOUS
<1>1. PICK m \in Stuck : \A k \in Stuck : m <= k
  BY LeastIndex
<1>2. m # 0
  <2>1. Loop([k \in 0..0 |-> t], t, infos, 0)
    BY DEF Loop
  <2> QED
    BY <2>1
<1>3. m - 1 \in Nat /\ m \in Nat /\ ~(m <= m - 1)
  BY <1>2
<1>4. m - 1 \notin Stuck
  BY <1>1, <1>3
<1>5. PICK h : Loop(h, t, infos, m - 1)
  BY <1>3, <1>4
<1>6. \E g : Loop(g, t, infos, m)
  BY <1>2, <1>3, <1>5, LoopExtends
<1> QED
  BY <1>6

LEMMA DeserializeLoop ==
  ASSUME NEW t, NEW infos, Len(infos) \in Nat
  PROVE  \E g : Loop(g, t, infos, Len(infos)) /\ Deserialize(t, infos) = g[Len(infos)]
<1>1. PICK g : Loop(g, t, infos, Len(infos))
  BY LoopExists
<1>2. g = [k \in 0..Len(infos) |-> IF k = 0 THEN t ELSE Merge(g[k - 1], infos[k])]
  BY <1>1 DEF Loop
<1> QED
  BY <1>2 DEF Deserialize, Loop

\* Induction over the loop: I[k] are the tables that may be there after k entries.
LEMMA DeserializeInduction ==
  ASSUME NEW t, NEW infos, Len(infos) \in Nat, NEW I, t \in I[0],
         \A k \in 1..Len(infos) : \A u \in I[k - 1] : Merge(u, infos[k]) \in I[k]
  PROVE  Deserialize(t, infos) \in I[Len(infos)]
<1>1. PICK g : Loop(g, t, infos, Len(infos)) /\ Deserialize(t, infos) = g[Len(infos)]
  BY DeserializeLoop
<1>2. \A k \in 0..Len(infos) : g[k] = IF k = 0 THEN t ELSE Merge(g[k - 1], infos[k])
  BY <1>1 DEF Loop
<1> DEFINE Bad == {k \in 0..Len(infos) : g[k] \notin I[k]}
<1> SUFFICES ASSUME Len(infos) \in Bad PROVE FALSE
  BY <1>1
<1>3. Bad \in SUBSET Nat /\ Bad # {}
  OBVIOUS
<1>4. PICK m \in Bad : \A k \in Bad : m <= k
  <2> HIDE DEF Bad
  <2> QED
    BY <1>3, LeastIndex
<1>5. m # 0
  BY <1>2
<1>6. m \in 1..Len(infos) /\ m - 1 \in 0..Len(infos) /\ ~(m <= m - 1)
  BY <1>5
<1>7. g[m - 1] \in I[m - 1]
  BY <1>4, <1>6
<1>8. g[m] = Merge(g[m - 1], infos[m])
  BY <1>2, <1>5
<1> QED
  BY <1>6, <1>7, <1>8

-----------------------------------------------------------------------------
(* What the operations do to a node table *)

LEMMA TableFacts ==
  ASSUME NEW t \in Seq(Entry)
  PROVE  /\ Len(t) \in Nat /\ DOMAIN t = 1..Len(t) /\ DOMAIN t \subseteq Nat
         /\ \A i \in DOMAIN t : /\ t[i] \in Entry /\ t[i].id \in Nat /\ t[i].node \in Nodes
                                /\ t[i].role \in Role /\ t[i].fd \in BOOLEAN
<1>1. Len(t) \in Nat /\ DOMAIN t = 1..Len(t)
  BY LenProperties
<1>2. \A i \in DOMAIN t : t[i] \in Entry
  BY <1>1, ElementOfSeq
<1> QED
  BY <1>1, <1>2 DEF Entry

\* The entries of u are those of t, sockets apart.
SameEntries(u, t) ==
  /\ u \in Seq(Entry) /\ Len(u) = Len(t) /\ DOMAIN u = DOMAIN t
  /\ \A j \in DOMAIN t : u[j].id = t[j].id /\ u[j].node = t[j].node /\ u[j].role = t[j].role

\* The entry e was added to t.
Added(u, t, e) ==
  /\ u \in Seq(Entry) /\ Len(u) = Len(t) + 1 /\ DOMAIN u = 1..Len(t) + 1
  /\ \A j \in DOMAIN t : u[j] = t[j]
  /\ u[Len(t) + 1] = e

LEMMA AppendEntry ==
  ASSUME NEW t \in Seq(Entry), NEW e \in Entry
  PROVE  Added(Append(t, e), t, e)
<1>1. PICK n \in Nat : n = Len(t)
  BY TableFacts
<1>2. /\ Append(t, e) \in Seq(Entry) /\ Len(Append(t, e)) = n + 1
      /\ \A i \in 1..n : Append(t, e)[i] = t[i]
      /\ Append(t, e)[n + 1] = e
  BY <1>1, AppendProperties
<1>3. DOMAIN Append(t, e) = 1..n + 1 /\ DOMAIN t = 1..n
  BY <1>1, <1>2, LenProperties
<1> QED
  BY <1>1, <1>2, <1>3 DEF Added

LEMMA ReplaceEntry ==
  ASSUME NEW t \in Seq(Entry), NEW i \in DOMAIN t, NEW e \in Entry,
         e.id = t[i].id, e.node = t[i].node, e.role = t[i].role
  PROVE  SameEntries([t EXCEPT ![i] = e], t)
<1>1. i \in 1..Len(t) /\ DOMAIN t = 1..Len(t)
  BY TableFacts
<1>2. /\ [t EXCEPT ![i] = e] \in Seq(Entry) /\ Len([t EXCEPT ![i] = e]) = Len(t)
      /\ \A j \in 1..Len(t) : [t EXCEPT ![i] = e][j] = IF j = i THEN e ELSE t[j]
  BY <1>1, ExceptSeq
<1> QED
  BY <1>1, <1>2 DEF SameEntries

LEMMA NodeTableAddFacts ==
  ASSUME NEW t \in Seq(Entry), NEW n \in Nodes, NEW r \in Role, NEW fd \in BOOLEAN
  PROVE  LET u == NodeTableAdd(t, n, r, fd)
             known == \E i \in DOMAIN t : t[i].node = n
             e == [id |-> IF r = "MASTER" THEN 1 ELSE Len(t) + 1,
                   node |-> n, role |-> r, fd |-> fd]
         IN  /\ known => SameEntries(u, t)
             /\ ~known /\ Len(t) >= MaxNodes => u = t
             /\ ~known /\ ~(Len(t) >= MaxNodes) => Added(u, t, e)
<1> DEFINE u == NodeTableAdd(t, n, r, fd)
<1> DEFINE S == {i \in DOMAIN t : t[i].node = n}
<1> DEFINE e == [id |-> IF r = "MASTER" THEN 1 ELSE Len(t) + 1, node |-> n, role |-> r, fd |-> fd]
<1>1. /\ S # {} => u = [t EXCEPT ![First(S)].fd = fd]
      /\ S = {} /\ Len(t) >= MaxNodes => u = t
      /\ S = {} /\ ~(Len(t) >= MaxNodes) => u = Append(t, e)
  BY DEF NodeTableAdd, Indices
<1>2. S \subseteq Nat
  BY TableFacts
<1> HIDE DEF u
<1>3. ASSUME S # {} PROVE SameEntries(u, t)
  <2>1. PICK i : i = First(S) /\ i \in DOMAIN t
    BY <1>2, <1>3, FirstFacts
  <2>2. u = [t EXCEPT ![i] = [t[i] EXCEPT !.fd = fd]]
    BY <1>1, <1>3, <2>1
  <2>3. t[i] \in Entry
    BY <2>1, TableFacts
  <2>4. PICK x : x = [t[i] EXCEPT !.fd = fd]
    OBVIOUS
  <2>5. x \in Entry /\ x.id = t[i].id /\ x.node = t[i].node /\ x.role = t[i].role
    BY <2>3, <2>4 DEF Entry
  <2> QED
    BY <2>1, <2>2, <2>4, <2>5, ReplaceEntry
<1>4. e \in Entry
  BY TableFacts DEF Entry
<1> HIDE DEF e
<1>5. ASSUME S = {}, ~(Len(t) >= MaxNodes) PROVE Added(u, t, e)
  BY <1>1, <1>4, <1>5, AppendEntry
<1> QED
  BY <1>1, <1>3, <1>5 DEF u, e

LEMMA AddedIdFacts ==
  ASSUME NEW t \in Seq(Entry), NEW n \in Nodes
  PROVE  \/ AddedId(t, n) = -1
         \/ \E i \in DOMAIN t : t[i].node = n /\ AddedId(t, n) = t[i].id
<1> DEFINE S == {i \in DOMAIN t : t[i].node = n}
<1>1. AddedId(t, n) = IF S = {} THEN -1 ELSE t[First(S)].id
  BY DEF AddedId, Indices
<1>2. S \subseteq Nat
  BY TableFacts
<1>3. S # {} => First(S) \in S
  BY <1>2, FirstFacts
<1> QED
  BY <1>1, <1>3

\* An entry of t with info's id was overwritten with info.
Overwritten(u, t, info) ==
  \E i \in DOMAIN t, x \in Entry :
    /\ t[i].id = info.id /\ u = [t EXCEPT ![i] = x]
    /\ x.id = info.id /\ x.node = info.node /\ x.role = info.role
NewEntry(info) == [id |-> info.id, node |-> info.node, role |-> info.role, fd |-> FALSE]

LEMMA MergeFacts ==
  ASSUME NEW t \in Seq(Entry), NEW info \in Info
  PROVE  \/ Overwritten(Merge(t, info), t, info)
         \/ /\ \A i \in DOMAIN t : t[i].id # info.id
            /\ Len(t) < MaxNodes /\ Added(Merge(t, info), t, NewEntry(info))
         \/ /\ \A i \in DOMAIN t : t[i].id # info.id
            /\ ~(Len(t) < MaxNodes) /\ Merge(t, info) = t
<1> DEFINE u == Merge(t, info)
<1> DEFINE S == {i \in DOMAIN t : t[i].id = info.id}
<1> DEFINE e == NewEntry(info)
<1> DEFINE X(i) == [id |-> info.id, node |-> info.node, role |-> info.role, fd |-> t[i].fd]
<1>1. S # {} => First(S) \in S
  BY TableFacts, FirstFacts
<1>2. First(S) \in DOMAIN t => [t EXCEPT ![First(S)] = [id |-> info.id, node |-> info.node,
                                       role |-> info.role, fd |-> @.fd]]
      = [t EXCEPT ![First(S)] = X(First(S))]
  OBVIOUS
<1>3. /\ S # {} => u = [t EXCEPT ![First(S)] = X(First(S))]
      /\ S = {} /\ Len(t) < MaxNodes => u = Append(t, e)
      /\ S = {} /\ ~(Len(t) < MaxNodes) => u = t
  BY <1>1, <1>2 DEF Merge, Indices, NewEntry
<1>4. e \in Entry
  BY DEF Entry, Info, NewEntry
<1> HIDE DEF u, e
<1>5. CASE S = {} /\ Len(t) < MaxNodes
  BY <1>3, <1>4, <1>5, AppendEntry DEF u, e
<1>6. CASE S = {} /\ ~(Len(t) < MaxNodes)
  BY <1>3, <1>6 DEF u
<1>7. CASE S # {}
  <2>1. PICK i : i = First(S) /\ i \in DOMAIN t /\ t[i].id = info.id
    BY <1>1, <1>7
  <2>2. PICK x : x = X(i)
    OBVIOUS
  <2>3. u = [t EXCEPT ![i] = x]
    BY <1>3, <1>7, <2>1, <2>2
  <2>4. t[i].fd \in BOOLEAN
    BY <2>1, TableFacts
  <2>5. x \in Entry /\ x.id = info.id /\ x.node = info.node /\ x.role = info.role
    BY <2>2, <2>4 DEF Entry, Info
  <2> QED
    BY <2>1, <2>3, <2>5 DEF u, Overwritten
<1> QED
  BY <1>5, <1>6, <1>7

-----------------------------------------------------------------------------
(* Types: no table overflows *)

Tables == {t \in Seq(Entry) : Len(t) <= MaxNodes}

LEMMA NodeTableAddTyped ==
  ASSUME NEW t \in Tables, NEW n \in Nodes, NEW r \in Role, NEW fd \in BOOLEAN
  PROVE  NodeTableAdd(t, n, r, fd) \in Tables
<1>1. t \in Seq(Entry) /\ Len(t) \in Nat /\ Len(t) <= MaxNodes /\ MaxNodes \in Nat
  BY TableFacts, MembershipAssumptions DEF Tables
<1>2. /\ SameEntries(NodeTableAdd(t, n, r, fd), t) => NodeTableAdd(t, n, r, fd) \in Tables
      /\ \A e : ~(Len(t) >= MaxNodes) /\ Added(NodeTableAdd(t, n, r, fd), t, e)
            => NodeTableAdd(t, n, r, fd) \in Tables
  BY <1>1 DEF SameEntries, Added, Tables
<1> QED
  BY <1>1, <1>2, NodeTableAddFacts

LEMMA MergeTyped ==
  ASSUME NEW t \in Tables, NEW info \in Info
  PROVE  Merge(t, info) \in Tables
<1>1. /\ t \in Seq(Entry) /\ Len(t) \in Nat /\ Len(t) <= MaxNodes /\ MaxNodes \in Nat
      /\ DOMAIN t = 1..Len(t)
  BY TableFacts, MembershipAssumptions DEF Tables
<1>2. ASSUME NEW i \in DOMAIN t, NEW x \in Entry PROVE [t EXCEPT ![i] = x] \in Tables
  BY <1>1, <1>2, ExceptSeq DEF Tables
<1>3. \A e : Len(t) < MaxNodes /\ Added(Merge(t, info), t, e) => Merge(t, info) \in Tables
  BY <1>1 DEF Added, Tables
<1>4. Overwritten(Merge(t, info), t, info) => Merge(t, info) \in Tables
  BY <1>2 DEF Overwritten
<1> QED
  BY <1>1, <1>3, <1>4, MergeFacts

LEMMA DeserializeTyped ==
  ASSUME NEW t \in Tables, NEW infos \in Seq(Info)
  PROVE  Deserialize(t, infos) \in Tables
<1>1. Len(infos) \in Nat
  BY LenProperties
<1>2. \A k \in 1..Len(infos) : infos[k] \in Info
  BY ElementOfSeq
<1> DEFINE I == [k \in 0..Len(infos) |-> Tables]
<1>3. \A k \in 0..Len(infos) : I[k] = Tables
  OBVIOUS
<1>4. \A k \in 1..Len(infos) : k - 1 \in 0..Len(infos) /\ k \in 0..Len(infos)
  BY <1>1
<1>5. 0 \in 0..Len(infos) /\ Len(infos) \in 0..Len(infos)
  BY <1>1
<1> HIDE DEF I
<1>6. ASSUME NEW k \in 1..Len(infos), NEW u \in I[k - 1] PROVE Merge(u, infos[k]) \in I[k]
  BY <1>2, <1>3, <1>4, MergeTyped
<1>7. t \in I[0]
  BY <1>3, <1>5
<1>8. Deserialize(t, infos) \in I[Len(infos)]
  BY <1>1, <1>6, <1>7, DeserializeInduction
<1> QED
  BY <1>3, <1>5, <1>8

LEMMA NodeTableRemoveTyped ==
  ASSUME NEW t \in Tables, NEW x
  PROVE  NodeTableRemove(t, x) \in Tables
<1> DEFINE S == {i \in DOMAIN t : t[i].id = x}
<1>1. NodeTableRemove(t, x) = IF S = {} THEN t ELSE RemoveAt(t, First(S))
  BY DEF NodeTableRemove, Indices
<1>2. t \in Seq(Entry) /\ Len(t) <= MaxNodes
  BY DEF Tables
<1>3. S # {} => First(S) \in S
  BY <1>2, TableFacts, FirstFacts
<1>4. ASSUME NEW i \in DOMAIN t PROVE RemoveAt(t, i) \in Tables
  <2> DEFINE a == SubSeq(t, 1, i - 1)
  <2> DEFINE b == SubSeq(t, i + 1, Len(t))
  <2>1. PICK n \in Nat : n = Len(t) /\ i \in 1..n
    BY <1>2, TableFacts
  <2>2. /\ \A k \in 1..i - 1 : t[k] \in Entry
        /\ \A k \in i + 1..n : t[k] \in Entry
    BY <1>2, <2>1, ElementOfSeq
  <2>3. 1 \in Int /\ i - 1 \in Int /\ i + 1 \in Int /\ n \in Int /\ i \in Int
    BY <2>1
  <2>4. /\ a \in Seq(Entry) /\ Len(a) = IF 1 <= i - 1 THEN (i - 1) - 1 + 1 ELSE 0
    BY <2>2, <2>3, SubSeqProperties
  <2>5. /\ b \in Seq(Entry) /\ Len(b) = IF i + 1 <= n THEN n - (i + 1) + 1 ELSE 0
    BY <2>1, <2>2, <2>3, SubSeqProperties
  <2> HIDE DEF a, b
  <2>6. PICK p \in Nat, q \in Nat : p = Len(a) /\ q = Len(b) /\ p + q <= n
    BY <2>1, <2>4, <2>5
  <2>7. a \o b \in Seq(Entry) /\ Len(a \o b) = p + q
    BY <2>4, <2>5, <2>6, ConcatProperties
  <2>8. RemoveAt(t, i) = a \o b
    BY DEF RemoveAt, a, b
  <2> QED
    BY <1>2, <2>1, <2>6, <2>7, <2>8, MembershipAssumptions DEF Tables
<1> QED
  BY <1>1, <1>3, <1>4

LEMMA SerializeTyped ==
  ASSUME NEW t \in Seq(Entry)
  PROVE  Serialize(t) \in Seq(Info) /\ Len(Serialize(t)) = Len(t)
<1>1. Len(t) \in Nat /\ DOMAIN t = 1..Len(t)
  BY TableFacts
<1>2. \A i \in DOMAIN t : [id |-> t[i].id, node |-> t[i].node, role |-> t[i].role] \in Info
  BY TableFacts DEF Info
<1>3. Serialize(t) \in [1..Len(t) -> Info]
  BY <1>1, <1>2 DEF Serialize
<1>4. Serialize(t) \in Seq(Info)
  BY <1>1, <1>3, SeqDef
<1> QED
  BY <1>1, <1>3, <1>4, LenProperties

LEMMA MessagesTyped ==
  /\ \A i \in Nat : JoinResponse(i) \in Message /\ Shutdown(i) \in Message
  /\ \A t \in Seq(Info) : NodeTable(t) \in Message
  BY DEF JoinResponse, Shutdown, NodeTable, Message

LEMMA BroadcastTyped ==
  ASSUME NEW n \in Nodes, NEW msg \in Message, NEW c \in [Nodes -> Seq(Message)]
  PROVE  Broadcast(n, msg, c) \in [Nodes -> Seq(Message)]
<1>1. \A k \in Nodes : Append(c[k], msg) \in Seq(Message)
  BY AppendProperties
<1> QED
  BY <1>1 DEF Broadcast

LEMMA HeadTyped ==
  ASSUME NEW c \in Seq(Message), c # <<>>
  PROVE  /\ Tail(c) \in Seq(Message)
         /\ Head(c).type = "NODE_TABLE" => Head(c).nodes \in Seq(Info)
         /\ Head(c).type \in {"JOIN_RESPONSE", "SHUTDOWN"} => Head(c).id \in Nat
<1>1. Head(c) \in Message /\ Tail(c) \in Seq(Message)
  BY HeadTailProperties
<1>2. ASSUME NEW m \in Message
      PROVE  /\ m.type = "NODE_TABLE" => m.nodes \in Seq(Info)
             /\ m.type \in {"JOIN_RESPONSE", "SHUTDOWN"} => m.id \in Nat
  BY <1>2 DEF Message
<1> QED
  BY <1>1, <1>2

LEMMA TypeInit == Init => TypeOK
<1> SUFFICES ASSUME Init PROVE TypeOK
  OBVIOUS
<1>1. <<>> \in Seq(Entry) /\ Len(<<>>) = 0 /\ <<>> \in Seq(Message)
  BY EmptySeq
<1>2. Len(<<>>) <= MaxNodes
  BY <1>1, MembershipAssumptions
<1> QED
  BY <1>1, <1>2 DEF Init, TypeOK

LEMMA TablesTyped ==
  TypeOK <=> /\ phase \in [Nodes -> {"off", "waiting", "addself", "up"}]
             /\ role \in [Nodes -> {"UNKNOWN", "MASTER", "WORKER"}]
             /\ id \in [Nodes -> Nat]
             /\ found \in [Nodes -> BOOLEAN]
             /\ table \in [Nodes -> Tables]
             /\ master_fd \in [Nodes -> Nodes \cup {NoNode}]
             /\ listener \in [Nodes -> Newcomer \cup {Idle}]
             /\ udp \subseteq Datagram
             /\ conn \in [Nodes -> [Nodes -> {"none", "backlog", "open"}]]
             /\ chan \in [Nodes -> [Nodes -> Seq(Message)]]
             /\ starts \in [Nodes -> Nat]
  BY DEF TypeOK, Tables

LEMMA DatagramsTyped ==
  ASSUME NEW m \in Nodes, NEW n \in Nodes
  PROVE  Discover(m, n) \in Datagram /\ Reply(m, n) \in Datagram
  BY DEF Discover, Reply, Datagram

\* Who is being admitted.
LEMMA ListenerTyped ==
  ASSUME TypeOK, NEW n \in Nodes, listener[n].step # "idle"
  PROVE  /\ listener[n] \in Newcomer /\ listener[n].node \in Nodes /\ listener[n].id \in Nat
         /\ listener[n].step \in {"add", "announce", "broadcast"}
<1>1. Idle.step = "idle"
  BY DEF Idle
<1>2. listener[n] \in Newcomer
  BY <1>1 DEF TypeOK
<1> QED
  BY <1>2 DEF Newcomer

LEMMA FinalizeTyped ==
  ASSUME TypeOK, NEW n \in Nodes, Finalize(n)
  PROVE  TypeOK'
<1>1. <<>> \in Tables /\ <<>> \in Seq(Message)
  <2>1. <<>> \in Seq(Entry) /\ Len(<<>>) = 0 /\ <<>> \in Seq(Message)
    BY EmptySeq
  <2> QED
    BY <2>1, MembershipAssumptions DEF Tables
<1>2. Shutdown(id[n]) \in Message
  BY MessagesTyped DEF TypeOK
<1>3. Broadcast(n, Shutdown(id[n]), chan[n]) \in [Nodes -> Seq(Message)]
  BY <1>2, BroadcastTyped DEF TypeOK
<1>4. chan' \in [Nodes -> [Nodes -> Seq(Message)]]
  <2>1. \A m \in Nodes : chan[m] \in [Nodes -> Seq(Message)]
    BY DEF TypeOK
  <2> QED
    BY <1>1, <1>3, <2>1 DEF Finalize
<1>5. conn' \in [Nodes -> [Nodes -> {"none", "backlog", "open"}]]
  BY DEF Finalize, Reset, TypeOK
<1>6. udp' \subseteq Datagram
  BY DEF Finalize, Reset, TypeOK
<1>7. /\ phase' \in [Nodes -> {"off", "waiting", "addself", "up"}]
      /\ role' \in [Nodes -> {"UNKNOWN", "MASTER", "WORKER"}]
      /\ id' \in [Nodes -> Nat]
      /\ found' \in [Nodes -> BOOLEAN]
      /\ master_fd' \in [Nodes -> Nodes \cup {NoNode}]
      /\ listener' \in [Nodes -> Newcomer \cup {Idle}]
      /\ starts' \in [Nodes -> Nat]
  BY DEF Finalize, Reset, TypeOK
<1>8. table' \in [Nodes -> Tables]
  BY <1>1, TablesTyped DEF Finalize, Reset
<1>9. table' \in [Nodes -> Seq(Entry)] /\ \A k \in Nodes : Len(table'[k]) <= MaxNodes
  BY <1>8 DEF Tables
<1> QED
  BY <1>4, <1>5, <1>6, <1>7, <1>9 DEF TypeOK

LEMMA TypeStep == TypeOK /\ [Next]_vars => TypeOK'
<1> SUFFICES ASSUME TypeOK, [Next]_vars PROVE TypeOK'
  OBVIOUS
<1>0. ASSUME NEW n \in Nodes, NEW t \in Tables, table' = [table EXCEPT ![n] = t]
      PROVE  table' \in [Nodes -> Seq(Entry)] /\ \A k \in Nodes : Len(table'[k]) <= MaxNodes
  <2>1. table' \in [Nodes -> Tables]
    BY <1>0, TablesTyped
  <2> QED
    BY <2>1 DEF Tables
<1>t. \A n \in Nodes : table[n] \in Tables
  BY TablesTyped
<1>1. CASE UNCHANGED vars
  BY <1>1 DEF vars, TypeOK
<1>2. ASSUME NEW n \in Nodes, Start(n) PROVE TypeOK'
  <2>1. udp' \subseteq Datagram
    BY <1>2, DatagramsTyped DEF Start, TypeOK
  <2> QED
    BY <1>2, <2>1 DEF Start, TypeOK
<1>3. ASSUME NEW n \in Nodes, BecomeWorker(n) PROVE TypeOK'
  BY <1>3 DEF BecomeWorker, TypeOK
<1>4. ASSUME NEW n \in Nodes, BecomeMaster(n) PROVE TypeOK'
  BY <1>4 DEF BecomeMaster, TypeOK
<1>5. ASSUME NEW n \in Nodes, AddSelf(n) PROVE TypeOK'
  <2>1. NodeTableAdd(table[n], n, "MASTER", FALSE) \in Tables
    BY <1>t, NodeTableAddTyped DEF Role
  <2>2. table' \in [Nodes -> Seq(Entry)] /\ \A k \in Nodes : Len(table'[k]) <= MaxNodes
    BY <1>0, <1>5, <2>1 DEF AddSelf
  <2> QED
    BY <1>5, <2>2 DEF AddSelf, TypeOK
<1>6. ASSUME NEW n \in Nodes, Finalize(n) PROVE TypeOK'
  BY <1>6, FinalizeTyped
<1>7. ASSUME NEW n \in Nodes, NEW k \in Nodes, IgnoreDiscover(n, k) PROVE TypeOK'
  BY <1>7 DEF IgnoreDiscover, nodeVars, TypeOK
<1>8. ASSUME NEW n \in Nodes, NEW k \in Nodes, AnswerDiscover(n, k) PROVE TypeOK'
  <2>1. udp' \subseteq Datagram
    BY <1>8, DatagramsTyped DEF AnswerDiscover, TypeOK
  <2>2. [step |-> "add", node |-> k, id |-> 0] \in Newcomer
    BY DEF Newcomer
  <2>3. listener' \in [Nodes -> Newcomer \cup {Idle}]
    BY <1>8, <2>2 DEF AnswerDiscover, TypeOK
  <2>4. conn' \in [Nodes -> [Nodes -> {"none", "backlog", "open"}]]
    BY <1>8 DEF AnswerDiscover, Connect, TypeOK
  <2> QED
    BY <1>8, <2>1, <2>3, <2>4 DEF AnswerDiscover, TypeOK
<1>9. ASSUME NEW n \in Nodes, NEW m \in Nodes, RecvReply(n, m) PROVE TypeOK'
  BY <1>9 DEF RecvReply, TypeOK
<1>10. ASSUME NEW n \in Nodes, AdmitNode(n) PROVE TypeOK'
  <2>1. listener[n].node \in Nodes
    BY <1>10, ListenerTyped DEF AdmitNode
  <2> DEFINE t == NodeTableAdd(table[n], listener[n].node, "WORKER", TRUE)
  <2> DEFINE i == AddedId(t, listener[n].node)
  <2>2. t \in Tables
    BY <1>t, <2>1, NodeTableAddTyped DEF Role
  <2>3. /\ table' = [table EXCEPT ![n] = t]
        /\ listener' = [listener EXCEPT ![n] =
             IF i > 0 THEN [step |-> "announce", node |-> listener[n].node, id |-> i] ELSE Idle]
    BY <1>10 DEF AdmitNode
  <2> HIDE DEF t
  <2>4. table' \in [Nodes -> Seq(Entry)] /\ \A k \in Nodes : Len(table'[k]) <= MaxNodes
    BY <1>0, <2>2, <2>3
  <2>5. t \in Seq(Entry)
    BY <2>2 DEF Tables
  <2>6. i = -1 \/ i \in Nat
    BY <2>1, <2>5, AddedIdFacts, TableFacts
  <2> HIDE DEF i
  <2>7. i > 0 => [step |-> "announce", node |-> listener[n].node, id |-> i] \in Newcomer
    BY <2>1, <2>6 DEF Newcomer
  <2>8. listener' \in [Nodes -> Newcomer \cup {Idle}]
    BY <2>3, <2>7 DEF TypeOK
  <2> QED
    BY <1>10, <2>4, <2>8 DEF AdmitNode, TypeOK
<1>11. ASSUME NEW n \in Nodes, SendJoinResponse(n) \/ NodeTableBroadcast(n) PROVE TypeOK'
  <2>1. CASE SendJoinResponse(n)
    <3>1. listener[n] \in Newcomer /\ listener[n].node \in Nodes /\ listener[n].id \in Nat
      BY <2>1, ListenerTyped DEF SendJoinResponse, Announcing
    <3>2. [listener[n] EXCEPT !.step = "broadcast"] \in Newcomer
      BY <3>1 DEF Newcomer
    <3>3. listener' \in [Nodes -> Newcomer \cup {Idle}]
      BY <2>1, <3>2 DEF SendJoinResponse, Announcing, TypeOK
    <3>4. Append(chan[n][listener[n].node], JoinResponse(listener[n].id)) \in Seq(Message)
      BY <3>1, MessagesTyped, AppendProperties DEF TypeOK
    <3>5. chan' \in [Nodes -> [Nodes -> Seq(Message)]]
      BY <2>1, <3>1, <3>4 DEF SendJoinResponse, TypeOK
    <3> QED
      BY <2>1, <3>3, <3>5 DEF SendJoinResponse, Announcing, TypeOK
  <2>2. CASE NodeTableBroadcast(n)
    <3>1. NodeTable(Serialize(table[n])) \in Message
      BY <1>t, SerializeTyped, MessagesTyped DEF Tables
    <3>2. Broadcast(n, NodeTable(Serialize(table[n])), chan[n]) \in [Nodes -> Seq(Message)]
      BY <3>1, BroadcastTyped DEF TypeOK
    <3>3. chan' \in [Nodes -> [Nodes -> Seq(Message)]]
      BY <2>2, <3>2 DEF NodeTableBroadcast, TypeOK
    <3> QED
      BY <2>2, <3>3 DEF NodeTableBroadcast, Announcing, TypeOK
  <2> QED
    BY <1>11, <2>1, <2>2
<1>12. ASSUME NEW n \in Nodes, NEW m \in Nodes, AcceptConnection(n, m) PROVE TypeOK'
  <2>1. conn' \in [Nodes -> [Nodes -> {"none", "backlog", "open"}]]
    BY <1>12 DEF AcceptConnection, TypeOK
  <2> QED
    BY <1>12, <2>1 DEF AcceptConnection, TypeOK
<1>13. ASSUME NEW n \in Nodes, NEW m \in Nodes, NEW type, Received(n, m, type)
       PROVE  /\ chan' \in [Nodes -> [Nodes -> Seq(Message)]]
              /\ type = "NODE_TABLE" => Head(chan[m][n]).nodes \in Seq(Info)
              /\ type \in {"JOIN_RESPONSE", "SHUTDOWN"} => Head(chan[m][n]).id \in Nat
  <2>1. chan[m][n] \in Seq(Message) /\ chan[m][n] # <<>> /\ Head(chan[m][n]).type = type
    BY <1>13 DEF Received, TypeOK
  <2>2. Tail(chan[m][n]) \in Seq(Message)
    BY <2>1, HeadTyped
  <2>3. chan' \in [Nodes -> [Nodes -> Seq(Message)]]
    BY <1>13, <2>2 DEF Received, TypeOK
  <2> QED
    BY <2>1, <2>3, HeadTyped
<1>14. ASSUME NEW n \in Nodes, NEW m \in Nodes, RecvJoinResponse(n, m) PROVE TypeOK'
  <2>1. Received(n, m, "JOIN_RESPONSE")
    BY <1>14 DEF RecvJoinResponse
  <2>2. chan' \in [Nodes -> [Nodes -> Seq(Message)]] /\ Head(chan[m][n]).id \in Nat
    BY <1>13, <2>1
  <2> QED
    BY <1>14, <2>1, <2>2 DEF RecvJoinResponse, Received, TypeOK
<1>15. ASSUME NEW n \in Nodes, NEW m \in Nodes, RecvNodeTable(n, m) PROVE TypeOK'
  <2>1. Received(n, m, "NODE_TABLE")
    BY <1>15 DEF RecvNodeTable
  <2>2. chan' \in [Nodes -> [Nodes -> Seq(Message)]] /\ Head(chan[m][n]).nodes \in Seq(Info)
    BY <1>13, <2>1
  <2>3. Deserialize(table[n], Head(chan[m][n]).nodes) \in Tables
    BY <1>t, <2>2, DeserializeTyped
  <2>4. table' \in [Nodes -> Seq(Entry)] /\ \A k \in Nodes : Len(table'[k]) <= MaxNodes
    BY <1>0, <1>15, <2>3 DEF RecvNodeTable
  <2> QED
    BY <1>15, <2>1, <2>2, <2>4 DEF RecvNodeTable, Received, TypeOK
<1>16. ASSUME NEW n \in Nodes, NEW m \in Nodes, RecvShutdown(n, m) PROVE TypeOK'
  <2>1. Received(n, m, "SHUTDOWN")
    BY <1>16 DEF RecvShutdown
  <2>2. chan' \in [Nodes -> [Nodes -> Seq(Message)]]
    BY <1>13, <2>1
  <2>3. NodeTableRemove(table[n], Head(chan[m][n]).id) \in Tables
    BY <1>t, NodeTableRemoveTyped
  <2>4. table' \in [Nodes -> Seq(Entry)] /\ \A k \in Nodes : Len(table'[k]) <= MaxNodes
    BY <1>0, <1>16, <2>3 DEF RecvShutdown
  <2> QED
    BY <1>16, <2>1, <2>2, <2>4 DEF RecvShutdown, Received, TypeOK
<1> QED
  BY <1>1, <1>2, <1>3, <1>4, <1>5, <1>6, <1>7, <1>8, <1>9, <1>10, <1>11, <1>12, <1>14, <1>15, <1>16
     DEF Next, InitStep, UdpStep, TcpStep

\* Whoever starts, leaves, or fails to find a master: no node table grows beyond
\* DSM_MAX_NODES entries (dsm_node_table_add, dsm_node_table_deserialize), and
\* messages, ids and the listener's newcomer are what the handlers expect.
THEOREM MembershipTypeCorrect == Spec => []TypeOK
  BY TypeInit, TypeStep, PTL DEF Spec

-----------------------------------------------------------------------------
(* What the others know is the front of the master's table *)

LEMMA FrontEmpty ==
  ASSUME NEW t \in Seq(Entry)
  PROVE  FrontOf(<<>>, t)
<1>1. Len(<<>>) = 0 /\ DOMAIN <<>> = {} /\ Len(t) \in Nat
  BY TableFacts, EmptySeq
<1> QED
  BY <1>1 DEF FrontOf

LEMMA FrontTransitive ==
  ASSUME NEW A, NEW s \in Seq(A), NEW t \in Seq(Entry), NEW u \in Seq(Entry),
         FrontOf(s, t), FrontOf(t, u)
  PROVE  FrontOf(s, u)
<1>1. /\ Len(s) \in Nat /\ DOMAIN s = 1..Len(s)
      /\ Len(t) \in Nat /\ DOMAIN t = 1..Len(t) /\ Len(u) \in Nat
  BY LenProperties
<1>2. \A i \in DOMAIN s : i \in DOMAIN t
  BY <1>1 DEF FrontOf
<1> QED
  BY <1>1, <1>2 DEF FrontOf

LEMMA IdOfGrows ==
  ASSUME NEW t \in Seq(Entry), NEW u \in Seq(Entry), FrontOf(t, u), NEW i, NEW n, IdOf(i, n, t)
  PROVE  IdOf(i, n, u)
<1>1. /\ Len(t) \in Nat /\ DOMAIN t = 1..Len(t) /\ Len(u) \in Nat /\ DOMAIN u = 1..Len(u)
  BY LenProperties
<1>2. i \in DOMAIN t /\ t[i].node = n
  BY DEF IdOf
<1>3. i \in DOMAIN u
  BY <1>1, <1>2 DEF FrontOf
<1> QED
  BY <1>2, <1>3 DEF IdOf, FrontOf

LEMMA TrueOfGrows ==
  ASSUME NEW t \in Seq(Entry), NEW u \in Seq(Entry), FrontOf(t, u),
         NEW msg \in Message, NEW n, TrueOf(msg, n, t)
  PROVE  TrueOf(msg, n, u)
<1>1. CASE msg.type = "JOIN_RESPONSE" /\ IdOf(msg.id, n, t)
  BY <1>1, IdOfGrows DEF TrueOf
<1>2. CASE msg.type = "NODE_TABLE" /\ FrontOf(msg.nodes, t)
  <2>1. msg.nodes \in Seq(Info)
    BY <1>2 DEF Message
  <2> QED
    BY <1>2, <2>1, FrontTransitive DEF TrueOf
<1> QED
  BY <1>1, <1>2 DEF TrueOf

LEMMA SameEntriesFront ==
  ASSUME NEW t \in Seq(Entry), NEW u, SameEntries(u, t)
  PROVE  FrontOf(t, u)
<1>1. Len(t) \in Nat
  BY TableFacts
<1> QED
  BY <1>1 DEF SameEntries, FrontOf

LEMMA AddedFront ==
  ASSUME NEW t \in Seq(Entry), NEW u, NEW e, Added(u, t, e)
  PROVE  FrontOf(t, u)
<1>1. Len(t) \in Nat
  BY TableFacts
<1> QED
  BY <1>1 DEF Added, FrontOf

\* One entry of a received front of the master's table t is merged into one.
LEMMA MergeFront ==
  ASSUME NEW t \in Tables, \A i \in DOMAIN t : t[i].id = i,
         NEW infos \in Seq(Info), FrontOf(infos, t), NEW k \in 1..Len(infos),
         NEW s \in Seq(Entry), FrontOf(s, t), Len(s) >= k - 1
  PROVE  LET u == Merge(s, infos[k])
         IN  u \in Seq(Entry) /\ FrontOf(u, t) /\ Len(u) >= Len(s) /\ Len(u) >= k
<1> DEFINE u == Merge(s, infos[k])
<1>1. PICK a \in Nat, b \in Nat, c \in Nat :
        /\ a = Len(s) /\ b = Len(t) /\ c = Len(infos)
        /\ DOMAIN s = 1..a /\ DOMAIN t = 1..b /\ DOMAIN infos = 1..c
        /\ a <= b /\ c <= b /\ b <= MaxNodes
  BY LenProperties DEF Tables, FrontOf
<1>2. k \in Nat /\ k \in 1..b /\ k \in 1..c /\ a >= k - 1
  BY <1>1
<1>3. /\ infos[k] \in Info /\ infos[k].id = k
      /\ infos[k].node = t[k].node /\ infos[k].role = t[k].role
  BY <1>1, <1>2, ElementOfSeq DEF FrontOf
<1>4. \A i \in 1..a : s[i].id = i /\ s[i].node = t[i].node /\ s[i].role = t[i].role
  BY <1>1 DEF FrontOf
<1>5. MaxNodes \in Nat
  BY MembershipAssumptions
<1>6. CASE k <= a
  <2>1. k \in 1..a /\ k \in DOMAIN s /\ s[k].id = infos[k].id
    BY <1>1, <1>2, <1>3, <1>4, <1>6
  <2>2. Overwritten(u, s, infos[k])
    BY <1>3, <2>1, MergeFacts
  <2>3. PICK i \in DOMAIN s, x \in Entry :
          /\ s[i].id = infos[k].id /\ u = [s EXCEPT ![i] = x]
          /\ x.id = infos[k].id /\ x.node = infos[k].node /\ x.role = infos[k].role
    BY <2>2 DEF Overwritten
  <2>4. i = k
    BY <1>1, <1>3, <1>4, <2>3
  <2>5. SameEntries(u, s)
    <3>1. x.id = s[k].id /\ x.node = s[k].node /\ x.role = s[k].role
      BY <1>3, <1>4, <2>1, <2>3
    <3>2. u = [s EXCEPT ![k] = x]
      BY <2>3, <2>4
    <3> HIDE DEF u
    <3> QED
      BY <2>1, <3>1, <3>2, ReplaceEntry
  <2> HIDE DEF u
  <2>6. u \in Seq(Entry) /\ Len(u) = a /\ DOMAIN u = 1..a
    BY <1>1, <2>5 DEF SameEntries
  <2>7. FrontOf(u, t)
    BY <1>1, <2>5, <2>6 DEF SameEntries, FrontOf
  <2> QED
    BY <1>1, <1>6, <2>6, <2>7 DEF u
<1>7. CASE ~(k <= a)
  <2>1. k = a + 1 /\ a < MaxNodes
    BY <1>1, <1>2, <1>5, <1>7
  <2>2. \A i \in DOMAIN s : s[i].id # infos[k].id
    BY <1>1, <1>3, <1>4, <2>1
  <2>3. ~Overwritten(u, s, infos[k])
    BY <2>2 DEF Overwritten
  <2>4. Added(u, s, NewEntry(infos[k]))
    BY <1>1, <1>3, <2>1, <2>3, MergeFacts
  <2> HIDE DEF u
  <2>5. /\ u \in Seq(Entry) /\ Len(u) = k /\ DOMAIN u = 1..k
        /\ \A j \in 1..a : u[j] = s[j]
        /\ u[k] = NewEntry(infos[k])
    BY <1>1, <2>1, <2>4 DEF Added
  <2>6. \A j \in 1..k : u[j].id = t[j].id /\ u[j].node = t[j].node /\ u[j].role = t[j].role
    <3>1. \A j \in 1..k : j \in 1..a \/ j = k
      BY <1>2, <2>1
    <3>2. u[k].id = t[k].id /\ u[k].node = t[k].node /\ u[k].role = t[k].role
      BY <1>1, <1>2, <1>3, <2>5 DEF NewEntry
    <3>3. \A j \in 1..a : j \in DOMAIN t /\ t[j].id = j
      BY <1>1
    <3>4. \A j \in 1..a : u[j].id = t[j].id /\ u[j].node = t[j].node /\ u[j].role = t[j].role
      BY <1>4, <2>5, <3>3
    <3> QED
      BY <3>1, <3>2, <3>4
  <2>7. FrontOf(u, t)
    BY <1>1, <1>2, <2>5, <2>6 DEF FrontOf
  <2> QED
    BY <1>1, <1>2, <2>1, <2>5, <2>7 DEF u
<1> QED
  BY <1>6, <1>7

\* A worker's table that receives a front of the master's stays one, and does
\* not get shorter.
LEMMA DeserializeFront ==
  ASSUME NEW t \in Tables, \A i \in DOMAIN t : t[i].id = i,
         NEW infos \in Seq(Info), FrontOf(infos, t),
         NEW s \in Seq(Entry), FrontOf(s, t)
  PROVE  LET u == Deserialize(s, infos)
         IN  u \in Seq(Entry) /\ FrontOf(u, t) /\ Len(u) >= Len(s)
<1>1. Len(infos) \in Nat /\ Len(s) \in Nat
  BY LenProperties
<1> DEFINE J(k) == {u \in Seq(Entry) : FrontOf(u, t) /\ Len(u) >= Len(s) /\ Len(u) >= k}
<1> DEFINE I == [k \in 0..Len(infos) |-> J(k)]
<1>2. \A k \in 0..Len(infos) : I[k] = J(k)
  OBVIOUS
<1>3. \A k \in 1..Len(infos) : k - 1 \in 0..Len(infos) /\ k \in 0..Len(infos)
  BY <1>1
<1>4. 0 \in 0..Len(infos) /\ Len(infos) \in 0..Len(infos)
  BY <1>1
<1> HIDE DEF I
<1>5. ASSUME NEW k \in 1..Len(infos), NEW u \in I[k - 1] PROVE Merge(u, infos[k]) \in I[k]
  <2>1. u \in Seq(Entry) /\ FrontOf(u, t) /\ Len(u) >= Len(s) /\ Len(u) >= k - 1
    BY <1>2, <1>3
  <2>2. PICK v : v = Merge(u, infos[k])
    OBVIOUS
  <2>3. v \in Seq(Entry) /\ FrontOf(v, t) /\ Len(v) >= Len(u) /\ Len(v) >= k
    BY <2>1, <2>2, MergeFront
  <2>4. Len(v) \in Nat /\ Len(u) \in Nat
    BY <2>1, <2>3, LenProperties
  <2>5. Len(v) >= Len(s)
    BY <1>1, <2>1, <2>3, <2>4
  <2> QED
    BY <1>2, <1>3, <2>2, <2>3, <2>5
<1>6. s \in I[0]
  BY <1>1, <1>2, <1>4
<1>7. Deserialize(s, infos) \in I[Len(infos)]
  BY <1>1, <1>5, <1>6, DeserializeInduction
<1> QED
  BY <1>2, <1>4, <1>7

-----------------------------------------------------------------------------
(* The invariant: the actions that change a table *)

LEMMA MasterTable ==
  ASSUME TypeOK, NEW n \in Nodes
  PROVE  table[n] \in Tables /\ table[n] \in Seq(Entry)
  BY DEF TypeOK, Tables

LEMMA KnowsGrows ==
  ASSUME TypeOK, TypeOK', NEW f \in Nodes, NEW n \in Nodes, Knows(f, n),
         FrontOf(table[f], table'[f]), table'[n] = table[n], id'[n] = id[n],
         chan'[f][n] = chan[f][n]
  PROVE  Knows(f, n)'
<1>1. /\ table[f] \in Seq(Entry) /\ table'[f] \in Seq(Entry) /\ table[n] \in Seq(Entry)
      /\ chan[f][n] \in Seq(Message)
  BY DEF TypeOK
<1>2. \A i \in DOMAIN chan[f][n] : chan[f][n][i] \in Message
  BY <1>1, LenProperties, ElementOfSeq
<1>3. FrontOf(table[n], table'[f])
  BY <1>1, FrontTransitive DEF Knows
<1>4. id[n] # 0 => IdOf(id[n], n, table'[f])
  BY <1>1, IdOfGrows DEF Knows
<1>5. \A i \in DOMAIN chan[f][n] : TrueOf(chan[f][n][i], n, table'[f])
  BY <1>1, <1>2, TrueOfGrows DEF Knows
<1> QED
  BY <1>3, <1>4, <1>5 DEF Knows

LEMMA FrontSame ==
  ASSUME NEW t \in Seq(Entry)
  PROVE  FrontOf(t, t)
<1>1. Len(t) \in Nat
  BY TableFacts
<1> QED
  BY <1>1 DEF FrontOf

\* Steps that leave the tables, ids and channels of the others alone.
LEMMA KnownFrame ==
  ASSUME TypeOK, TypeOK', NEW f \in Nodes, KnownInv(f),
         FrontOf(table[f], table'[f]),
         \A n \in Nodes \ {f} : table'[n] = table[n] /\ id'[n] = id[n]
                                /\ chan'[f][n] = chan[f][n]
  PROVE  KnownInv(f)'
  BY KnowsGrows DEF KnownInv

LEMMA AddSelfJoin ==
  ASSUME NEW f \in Nodes, JoinInv(f), TypeOK', NEW n \in Nodes, AddSelf(n)
  PROVE  RegisterInv(f)' /\ LinkInv(f)' /\ KnownInv(f)' /\ AdmissionInv(f)'
<1> USE DEF JoinInv
<1>1. n = f /\ table[f] = <<>> /\ role[f] = "MASTER"
  BY DEF AddSelf, MasterInv, RegisterInv
<1> DEFINE u == NodeTableAdd(<<>>, f, "MASTER", FALSE)
<1> DEFINE e == [id |-> 1, node |-> f, role |-> "MASTER", fd |-> FALSE]
<1>2. <<>> \in Seq(Entry) /\ Len(<<>>) = 0 /\ DOMAIN <<>> = {} /\ ~(Len(<<>>) >= MaxNodes)
  BY EmptySeq, MembershipAssumptions
<1>3. Added(u, <<>>, e)
  BY <1>2, NodeTableAddFacts DEF Role
<1> HIDE DEF u
<1>4. u \in Seq(Entry) /\ Len(u) = 1 /\ DOMAIN u = 1..1 /\ u[1] = e
  BY <1>2, <1>3 DEF Added
<1>5. u # <<>>
  BY <1>2, <1>4
<1>6. table' = [table EXCEPT ![f] = u] /\ table \in [Nodes -> Seq(Entry)]
  BY <1>1 DEF AddSelf, TypeOK, u
<1>7. table'[f] = u /\ \A k \in Nodes \ {f} : table'[k] = table[k]
  BY <1>6
<1>8. phase'[f] = "up" /\ \A k \in Nodes \ {f} : phase'[k] = phase[k]
  BY <1>1 DEF AddSelf, TypeOK
<1>9. RegisterInv(f)'
  <2>1. \A i \in DOMAIN u : u[i].id = i
    BY <1>4
  <2>2. \A i, j \in DOMAIN u : u[i].node = u[j].node => i = j
    BY <1>4
  <2>3. u[1].node = f
    BY <1>4
  <2>4. ~found'[f] /\ role'[f] = "MASTER" /\ id'[f] = 1
    BY <1>1 DEF AddSelf, RegisterInv
  <2>5. /\ table'[f] # <<>> /\ table'[f][1].node = f
        /\ \A i \in DOMAIN table'[f] : table'[f][i].id = i
        /\ \A i, j \in DOMAIN table'[f] : table'[f][i].node = table'[f][j].node => i = j
    BY <1>5, <1>7, <2>1, <2>2, <2>3
  <2> QED
    BY <1>8, <2>4, <2>5 DEF RegisterInv
<1>10. LinkInv(f)'
  <2>1. \A d \in udp : d.from \in Nodes
    BY DEF TypeOK, Datagram
  <2>2. \A k \in Nodes : phase[k] # "off" => phase'[k] # "off"
    BY <1>8
  <2>3. \A d \in udp : IF d.type = "DISCOVER" THEN d.from # f /\ phase'[d.from] # "off"
                       ELSE d.to # f
    BY <2>1, <2>2 DEF LinkInv, Running
  <2> QED
    BY <2>3 DEF AddSelf, LinkInv, Running
<1>11. KnownInv(f)'
  <2>1. FrontOf(table[f], table'[f])
    BY <1>1, <1>4, <1>7, FrontEmpty
  <2> QED
    BY <1>7, <2>1, KnownFrame DEF AddSelf
<1>12. AdmissionInv(f)'
  <2>1. listener[f] = Idle
    BY <1>1 DEF AddSelf, AdmissionInv
  <2>2. Idle.step # "announce"
    BY DEF Idle
  <2> QED
    BY <2>1, <2>2 DEF AddSelf, AdmissionInv
<1> QED
  BY <1>9, <1>10, <1>11, <1>12

\* The entry of a node k that joins.
WorkerEntry(t, k) == [id |-> Len(t) + 1, node |-> k, role |-> "WORKER", fd |-> TRUE]

\* ... and the table u with it.
Entered(u, t, k) ==
  /\ \A i \in DOMAIN t : t[i].node # k
  /\ Len(t) < MaxNodes /\ Added(u, t, WorkerEntry(t, k))

\* The master enters a newcomer k: it is known already, or does not fit, or comes last.
LEMMA AdmitCases ==
  ASSUME NEW f \in Nodes, JoinInv(f), NEW n \in Nodes, AdmitNode(n)
  PROVE  /\ n = f /\ listener[f].node \in Nodes \ {f} /\ phase[f] = "up"
         /\ \A m \in Nodes \ {f} : table'[m] = table[m]
         /\ table'[f] = NodeTableAdd(table[f], listener[f].node, "WORKER", TRUE)
         /\ \/ table'[f] = table[f]
            \/ SameEntries(table'[f], table[f])
            \/ Entered(table'[f], table[f], listener[f].node)
<1> USE DEF JoinInv
<1>1. n = f /\ listener[f].step = "add" /\ listener[f].node \in Nodes
  BY ListenerTyped DEF AdmitNode, AdmissionInv, Idle
<1>2. listener[f] # Idle /\ listener[f].node # f /\ phase[f] = "up"
  BY <1>1 DEF AdmissionInv, Idle
<1>3. PICK k \in Nodes : k = listener[f].node
  BY <1>1
<1>4. PICK t \in Seq(Entry) : t = table[f]
  BY MasterTable
<1>5. PICK u : u = NodeTableAdd(t, k, "WORKER", TRUE)
  OBVIOUS
<1>6. table' = [table EXCEPT ![f] = u] /\ table \in [Nodes -> Seq(Entry)]
  BY <1>1, <1>3, <1>4, <1>5 DEF AdmitNode, TypeOK
<1>7. table'[f] = u /\ \A m \in Nodes \ {f} : table'[m] = table[m]
  BY <1>6
<1>8. Len(t) \in Nat /\ MaxNodes \in Nat
  BY TableFacts, MembershipAssumptions
<1>9. ~(Len(t) >= MaxNodes) => Len(t) < MaxNodes
  BY <1>8
<1>10. u = t \/ SameEntries(u, t) \/ Entered(u, t, k)
  <2>1. "WORKER" \in Role /\ TRUE \in BOOLEAN /\ "WORKER" # "MASTER"
    BY DEF Role
  <2>2. CASE \E i \in DOMAIN t : t[i].node = k
    BY <1>5, <2>1, <2>2, NodeTableAddFacts
  <2>3. CASE Len(t) >= MaxNodes /\ \A i \in DOMAIN t : t[i].node # k
    BY <1>5, <2>1, <2>3, NodeTableAddFacts
  <2>4. CASE ~(Len(t) >= MaxNodes) /\ \A i \in DOMAIN t : t[i].node # k
    <3>1. Added(u, t, WorkerEntry(t, k))
      BY <1>5, <2>1, <2>4, NodeTableAddFacts DEF WorkerEntry
    <3> QED
      BY <1>9, <2>4, <3>1 DEF Entered
  <2> QED
    BY <2>2, <2>3, <2>4
<1>11. \/ table'[f] = table[f]
       \/ SameEntries(table'[f], table[f])
       \/ Entered(table'[f], table[f], listener[f].node)
  BY <1>3, <1>4, <1>7, <1>10
<1>12. table'[f] = NodeTableAdd(table[f], listener[f].node, "WORKER", TRUE)
  BY <1>3, <1>4, <1>5, <1>7
<1> QED
  BY <1>1, <1>2, <1>7, <1>11, <1>12

LEMMA AdmitNodeJoin ==
  ASSUME NEW f \in Nodes, JoinInv(f), TypeOK', NEW n \in Nodes, AdmitNode(n)
  PROVE  RegisterInv(f)' /\ LinkInv(f)' /\ KnownInv(f)' /\ AdmissionInv(f)'
<1>1. n = f /\ phase[f] = "up" /\ listener[f].node \in Nodes \ {f}
  BY AdmitCases
<1>2. PICK k \in Nodes : k = listener[f].node /\ k # f
  BY <1>1
<1>3. PICK t \in Seq(Entry) : t = table[f] /\ t # <<>> /\ t[1].node = f
  BY <1>1 DEF JoinInv, RegisterInv, TypeOK
<1>4. /\ \A i \in DOMAIN t : t[i].id = i
      /\ \A i, j \in DOMAIN t : t[i].node = t[j].node => i = j
  BY <1>3 DEF JoinInv, RegisterInv
<1>5. Len(t) \in Nat \ {0} /\ DOMAIN t = 1..Len(t)
  BY <1>3, EmptySeq, LenProperties
<1>6. PICK u : u = table'[f]
  OBVIOUS
<1> DEFINE e == WorkerEntry(t, k)
<1>7. u = t \/ SameEntries(u, t) \/ Entered(u, t, k)
  BY <1>2, <1>3, <1>6, AdmitCases
<1>8. u = NodeTableAdd(t, k, "WORKER", TRUE) /\ \A m \in Nodes \ {f} : table'[m] = table[m]
  BY <1>2, <1>3, <1>6, AdmitCases
<1>9. u \in Seq(Entry) /\ FrontOf(t, u)
  BY <1>3, <1>7, SameEntriesFront, AddedFront, FrontSame DEF SameEntries, Added, Entered
<1>10. /\ u # <<>> /\ u[1].node = f
       /\ \A i \in DOMAIN u : u[i].id = i
       /\ \A i, j \in DOMAIN u : u[i].node = u[j].node => i = j
  <2>1. CASE u = t
    BY <1>3, <1>4, <2>1
  <2>2. CASE SameEntries(u, t)
    <3>1. 1 \in DOMAIN t /\ Len(u) = Len(t)
      BY <1>5, <2>2 DEF SameEntries
    <3>2. u # <<>>
      BY <1>5, <3>1, EmptySeq
    <3> QED
      BY <1>3, <1>4, <2>2, <3>1, <3>2 DEF SameEntries
  <2>3. CASE Entered(u, t, k)
    <3>0. Added(u, t, e) /\ \A i \in DOMAIN t : t[i].node # k
      BY <2>3 DEF Entered
    <3>1. PICK l \in Nat \ {0} : l = Len(t) /\ DOMAIN t = 1..l
      BY <1>5
    <3>2. /\ DOMAIN u = 1..l + 1 /\ Len(u) = l + 1
          /\ \A j \in 1..l : u[j] = t[j]
          /\ u[l + 1] = e
      BY <3>0, <3>1 DEF Added
    <3>3. \A j \in 1..l + 1 : j \in 1..l \/ j = l + 1
      BY <3>1
    <3>4. e.id = l + 1 /\ e.node = k
      BY <3>1 DEF WorkerEntry
    <3>5. u # <<>>
      BY <3>1, <3>2, EmptySeq
    <3>6. u[1].node = f
      BY <1>3, <3>1, <3>2
    <3> HIDE DEF e
    <3>7. \A i \in 1..l + 1 : u[i].id = i
      BY <1>4, <3>1, <3>2, <3>3, <3>4
    <3>8. ASSUME NEW i \in 1..l + 1, NEW j \in 1..l + 1, u[i].node = u[j].node PROVE i = j
      <4>1. CASE i \in 1..l /\ j \in 1..l
        BY <1>4, <3>1, <3>2, <3>8, <4>1
      <4>2. CASE i = l + 1 /\ j \in 1..l
        BY <3>0, <3>1, <3>2, <3>4, <3>8, <4>2
      <4>3. CASE j = l + 1 /\ i \in 1..l
        BY <3>0, <3>1, <3>2, <3>4, <3>8, <4>3
      <4> QED
        BY <3>3, <4>1, <4>2, <4>3
    <3> QED
      BY <3>2, <3>5, <3>6, <3>7, <3>8
  <2> QED
    BY <1>7, <2>1, <2>2, <2>3
<1>11. RegisterInv(f)'
  <2>1. ~found'[f] /\ role'[f] = "MASTER" /\ id'[f] = 1 /\ phase'[f] = "up"
    BY <1>1 DEF JoinInv, AdmitNode, RegisterInv
  <2>2. /\ table'[f] # <<>> /\ table'[f][1].node = f
        /\ \A i \in DOMAIN table'[f] : table'[f][i].id = i
        /\ \A i, j \in DOMAIN table'[f] : table'[f][i].node = table'[f][j].node => i = j
    BY <1>6, <1>10
  <2> QED
    BY <2>1, <2>2 DEF RegisterInv
<1>12. LinkInv(f)'
  BY DEF JoinInv, AdmitNode, LinkInv, Running
<1>13. KnownInv(f)'
  BY <1>3, <1>6, <1>8, <1>9, KnownFrame DEF JoinInv, AdmitNode
<1>14. AdmissionInv(f)'
  <2> DEFINE a == AddedId(u, k)
  <2>1. listener' = [listener EXCEPT ![f] =
          IF a > 0 THEN [step |-> "announce", node |-> k, id |-> a] ELSE Idle]
    BY <1>1, <1>2, <1>3, <1>8 DEF AdmitNode
  <2>2. a > 0 => IdOf(a, k, u)
    BY <1>9, <1>10, AddedIdFacts DEF IdOf
  <2> HIDE DEF a
  <2>3. /\ listener'[f] = IF a > 0 THEN [step |-> "announce", node |-> k, id |-> a] ELSE Idle
        /\ \A m \in Nodes \ {f} : listener'[m] = listener[m]
    BY <2>1 DEF JoinInv, TypeOK
  <2>4. phase' = phase
    BY DEF AdmitNode
  <2>5. CASE a > 0
    <3>1. listener'[f].step = "announce" /\ listener'[f].node = k /\ listener'[f].id = a
      BY <2>3, <2>5
    <3> QED
      BY <1>1, <1>2, <1>6, <1>8, <2>2, <2>3, <2>4, <2>5, <3>1 DEF JoinInv, AdmissionInv
  <2>6. CASE ~(a > 0)
    <3>1. listener'[f] = Idle /\ Idle.step # "announce"
      BY <2>3, <2>6 DEF Idle
    <3> QED
      BY <2>3, <3>1 DEF JoinInv, AdmissionInv
  <2> QED
    BY <2>5, <2>6
<1> QED
  BY <1>11, <1>12, <1>13, <1>14

-----------------------------------------------------------------------------
(* The invariant: the other actions *)

LEMMA RegisterFrame ==
  ASSUME NEW f \in Nodes, RegisterInv(f),
         UNCHANGED <<phase[f], role[f], id[f], found[f], table[f]>>
  PROVE  RegisterInv(f)'
<1>1. /\ ~found'[f]
      /\ role'[f] = "MASTER" <=> phase'[f] \in {"addself", "up"}
      /\ id'[f] = IF role'[f] = "MASTER" THEN 1 ELSE 0
  BY DEF RegisterInv
<1>2. /\ IF phase'[f] = "up" THEN table'[f] # <<>> /\ table'[f][1].node = f ELSE table'[f] = <<>>
      /\ \A i \in DOMAIN table'[f] : table'[f][i].id = i
      /\ \A i, j \in DOMAIN table'[f] : table'[f][i].node = table'[f][j].node => i = j
  BY DEF RegisterInv
<1> QED
  BY <1>1, <1>2 DEF RegisterInv

LEMMA KnownSame ==
  ASSUME TypeOK, TypeOK', NEW f \in Nodes, KnownInv(f), UNCHANGED <<table, id, chan>>
  PROVE  KnownInv(f)'
<1>1. FrontOf(table[f], table'[f])
  BY MasterTable, FrontSame
<1> QED
  BY <1>1, KnownFrame

LEMMA AdmissionFrame ==
  ASSUME NEW f \in Nodes, AdmissionInv(f), UNCHANGED <<listener, phase[f], table[f]>>
  PROVE  AdmissionInv(f)'
  BY DEF AdmissionInv

\* dsm_init, up to the role.
LEMMA StartJoin ==
  ASSUME NEW f \in Nodes, JoinInv(f), TypeOK', NEW n \in Nodes, Start(n)
  PROVE  RegisterInv(f)' /\ LinkInv(f)' /\ KnownInv(f)' /\ AdmissionInv(f)'
<1> USE DEF JoinInv
<1>1. /\ phase[n] = "off" /\ phase'[n] = "waiting"
      /\ \A k \in Nodes \ {n} : phase'[k] = phase[k]
  BY DEF Start, TypeOK
<1>2. RegisterInv(f)'
  <2>1. CASE n = f
    <3>1. role[f] # "MASTER" /\ table[f] = <<>>
      BY <1>1, <2>1 DEF RegisterInv
    <3>2. ~found'[f] /\ role'[f] # "MASTER" /\ id'[f] = 0 /\ table'[f] = <<>>
      BY <3>1 DEF Start, RegisterInv
    <3> QED
      BY <1>1, <2>1, <3>2 DEF RegisterInv
  <2>2. CASE n # f
    BY <1>1, <2>2, RegisterFrame DEF Start
  <2> QED
    BY <2>1, <2>2
<1>3. LinkInv(f)'
  <2>1. \A k \in Nodes \ {n} : Running(k) => n # f
    BY <1>1 DEF MasterInv, Running
  <2>2. ASSUME NEW d \in udp'
        PROVE  IF d.type = "DISCOVER" THEN d.from # f /\ phase'[d.from] # "off" ELSE d.to # f
    <3>1. CASE d \in udp
      <4>1. d.from \in Nodes
        BY <3>1 DEF TypeOK, Datagram
      <4> QED
        BY <1>1, <3>1, <4>1 DEF LinkInv, Running
    <3>2. CASE d \notin udp
      <4>1. PICK k \in Nodes \ {n} : Running(k) /\ d = Discover(n, k)
        BY <3>2 DEF Start
      <4> QED
        BY <1>1, <2>1, <4>1 DEF Discover
    <3> QED
      BY <3>1, <3>2
  <2> QED
    BY <2>2 DEF Start, LinkInv, Running
<1>4. KnownInv(f)'
  BY KnownSame DEF Start
<1>5. AdmissionInv(f)'
  <2>1. CASE n = f
    <3>1. listener[f] = Idle /\ Idle.step # "announce"
      BY <1>1, <2>1 DEF AdmissionInv, Idle
    <3> QED
      BY <3>1 DEF Start, AdmissionInv
  <2>2. CASE n # f
    BY <1>1, <2>2, AdmissionFrame DEF Start
  <2> QED
    BY <2>1, <2>2
<1> QED
  BY <1>2, <1>3, <1>4, <1>5

LEMMA RoleJoin ==
  ASSUME NEW f \in Nodes, JoinInv(f), TypeOK', MasterInv(f)', NEW n \in Nodes,
         BecomeWorker(n) \/ BecomeMaster(n)
  PROVE  RegisterInv(f)' /\ LinkInv(f)' /\ KnownInv(f)' /\ AdmissionInv(f)'
<1> USE DEF JoinInv
<1>1. /\ phase[n] = "waiting" /\ phase'[n] # "off"
      /\ \A k \in Nodes \ {n} : phase'[k] = phase[k]
      /\ UNCHANGED <<found, table, listener, udp, conn, chan>>
  BY DEF BecomeWorker, BecomeMaster, TypeOK
<1>2. LinkInv(f)'
  <2>1. \A d \in udp : d.from \in Nodes
    BY DEF TypeOK, Datagram
  <2>2. \A k \in Nodes : phase[k] # "off" => phase'[k] # "off"
    BY <1>1
  <2>3. \A d \in udp : IF d.type = "DISCOVER" THEN d.from # f /\ phase'[d.from] # "off"
                       ELSE d.to # f
    BY <2>1, <2>2 DEF LinkInv, Running
  <2> QED
    BY <1>1, <2>3 DEF LinkInv, Running
<1>3. CASE BecomeWorker(n)
  <2>1. n # f
    BY <1>3 DEF BecomeWorker, RegisterInv
  <2>2. RegisterInv(f)'
    BY <1>1, <1>3, <2>1, RegisterFrame DEF BecomeWorker, TypeOK
  <2>3. KnownInv(f)'
    BY <1>3, KnownSame DEF BecomeWorker
  <2> QED
    BY <1>1, <1>2, <2>1, <2>2, <2>3, AdmissionFrame
<1>4. CASE BecomeMaster(n)
  <2>1. n = f
    <3>1. role'[n] = "MASTER"
      BY <1>4 DEF BecomeMaster, TypeOK
    <3> QED
      BY <3>1 DEF MasterInv
  <2>2. /\ role'[f] = "MASTER" /\ phase'[f] = "addself"
        /\ id'[f] = 1 /\ \A k \in Nodes \ {f} : id'[k] = id[k]
    BY <1>4, <2>1 DEF BecomeMaster, TypeOK
  <2>3. ~found'[f] /\ table'[f] = <<>>
    BY <1>1, <2>1 DEF RegisterInv
  <2>4. RegisterInv(f)'
    BY <2>2, <2>3 DEF RegisterInv
  <2>5. KnownInv(f)'
    <3>1. FrontOf(table[f], table'[f])
      BY <1>1, MasterTable, FrontSame
    <3> QED
      BY <1>1, <2>2, <3>1, KnownFrame
  <2>6. AdmissionInv(f)'
    <3>1. listener[f] = Idle /\ Idle.step # "announce"
      BY <1>1, <2>1 DEF AdmissionInv, Idle
    <3> QED
      BY <1>1, <3>1 DEF AdmissionInv
  <2> QED
    BY <1>2, <2>4, <2>5, <2>6
<1> QED
  BY <1>3, <1>4

LEMMA FinalizeJoin ==
  ASSUME NEW f \in Nodes, f \notin MayExit, JoinInv(f), TypeOK', NEW n \in Nodes, Finalize(n)
  PROVE  RegisterInv(f)' /\ LinkInv(f)' /\ KnownInv(f)' /\ AdmissionInv(f)'
<1> USE DEF JoinInv
<1>1. n # f
  BY DEF Finalize
<1>2. /\ phase'[n] = "off" /\ id'[n] = 0 /\ table'[n] = <<>>
      /\ \A k \in Nodes \ {n} : /\ phase'[k] = phase[k] /\ role'[k] = role[k] /\ id'[k] = id[k]
                                /\ found'[k] = found[k] /\ table'[k] = table[k]
      /\ listener' = listener
  BY DEF Finalize, Reset, TypeOK
<1>3. RegisterInv(f)'
  BY <1>1, <1>2, RegisterFrame
<1>4. \A m, k \in Nodes : conn'[m][k] = IF k = n THEN "none" ELSE conn[m][k]
  <2>1. conn' = [m \in Nodes |-> [conn[m] EXCEPT ![n] = "none"]]
    BY DEF Finalize, Reset
  <2>2. \A m \in Nodes : conn[m] \in [Nodes -> {"none", "backlog", "open"}]
    BY DEF TypeOK
  <2> QED
    BY <2>1, <2>2
<1>5. Broadcast(n, Shutdown(id[n]), chan[n]) = chan[n]
  <2>1. \A k \in Nodes : conn[n][k] = "none"
    BY <1>1 DEF LinkInv
  <2>2. chan[n] \in [Nodes -> Seq(Message)]
    BY DEF TypeOK
  <2> QED
    BY <2>1, <2>2 DEF Broadcast
<1>6. \A m, k \in Nodes : chan'[m][k] = IF k = n THEN <<>> ELSE chan[m][k]
  <2>1. chan' = [m \in Nodes |-> [chan[m] EXCEPT ![n] = <<>>]]
    BY <1>5 DEF Finalize
  <2>2. \A m \in Nodes : chan[m] \in [Nodes -> Seq(Message)]
    BY DEF TypeOK
  <2> QED
    BY <2>1, <2>2
<1>7. LinkInv(f)'
  <2>1. ASSUME NEW d \in udp'
        PROVE  IF d.type = "DISCOVER" THEN d.from # f /\ phase'[d.from] # "off" ELSE d.to # f
    <3>1. d \in udp /\ d # Discover(n, d.to) /\ d \in Datagram
      BY DEF Finalize, Reset, TypeOK
    <3>2. d.type = "DISCOVER" => d.from # n
      BY <3>1 DEF Discover, Datagram
    <3> QED
      BY <1>2, <3>1, <3>2 DEF LinkInv, Running, Datagram
  <2>2. \A m, k \in Nodes : m # f \/ k = f => conn'[m][k] = "none" /\ chan'[m][k] = <<>>
    BY <1>4, <1>6 DEF LinkInv
  <2> QED
    BY <2>1, <2>2 DEF LinkInv, Running
<1>8. KnownInv(f)'
  <2>1. ASSUME NEW k \in Nodes \ {f}, k # n PROVE Knows(f, k)'
    <3>1. FrontOf(table[f], table'[f])
      BY <1>1, <1>2, MasterTable, FrontSame
    <3> QED
      BY <1>1, <1>2, <1>6, <2>1, <3>1, KnowsGrows DEF KnownInv
  <2>2. Knows(f, n)'
    <3>1. FrontOf(table'[n], table'[f])
      BY <1>1, <1>2, MasterTable, FrontEmpty
    <3>2. chan'[f][n] = <<>> /\ DOMAIN <<>> = {}
      BY <1>6, EmptySeq
    <3> QED
      BY <1>2, <3>1, <3>2 DEF Knows
  <2> QED
    BY <2>1, <2>2 DEF KnownInv
<1>9. AdmissionInv(f)'
  BY <1>1, <1>2, AdmissionFrame
<1> QED
  BY <1>3, <1>7, <1>8, <1>9

\* The datagrams and connections.
LEMMA DatagramJoin ==
  ASSUME NEW f \in Nodes, JoinInv(f), TypeOK', NEW n \in Nodes, NEW k \in Nodes,
         IgnoreDiscover(n, k) \/ RecvReply(n, k) \/ AcceptConnection(n, k)
  PROVE  RegisterInv(f)' /\ LinkInv(f)' /\ KnownInv(f)' /\ AdmissionInv(f)'
<1> USE DEF JoinInv
<1>1. /\ UNCHANGED <<phase, role, id, table, listener, chan>>
      /\ udp' \subseteq udp
  BY DEF IgnoreDiscover, RecvReply, AcceptConnection, nodeVars
<1>2. found'[f] = found[f]
  <2>1. CASE RecvReply(n, k)
    <3>1. n # f
      BY <2>1, Datagrams DEF RecvReply, LinkInv, Reply
    <3> QED
      BY <2>1, <3>1 DEF RecvReply, TypeOK
  <2>2. CASE IgnoreDiscover(n, k) \/ AcceptConnection(n, k)
    BY <2>2 DEF IgnoreDiscover, AcceptConnection, nodeVars
  <2> QED
    BY <2>1, <2>2
<1>3. \A a, b \in Nodes : a # f \/ b = f => conn'[a][b] = "none"
  <2>1. CASE AcceptConnection(n, k)
    <3>1. k = f /\ n # f
      BY <2>1 DEF AcceptConnection, LinkInv
    <3>2. conn' = [conn EXCEPT ![k][n] = "open"]
      BY <2>1 DEF AcceptConnection
    <3>3. \A a, b \in Nodes : a # k \/ b # n => conn'[a][b] = conn[a][b]
      BY <3>2 DEF TypeOK
    <3> QED
      BY <3>1, <3>3 DEF LinkInv
  <2>2. CASE IgnoreDiscover(n, k) \/ RecvReply(n, k)
    BY <2>2 DEF IgnoreDiscover, RecvReply, LinkInv
  <2> QED
    BY <2>1, <2>2
<1>4. LinkInv(f)'
  BY <1>1, <1>3 DEF LinkInv, Running
<1> QED
  BY <1>1, <1>2, <1>4, RegisterFrame, KnownSame, AdmissionFrame

LEMMA AnswerDiscoverJoin ==
  ASSUME NEW f \in Nodes, JoinInv(f), TypeOK', NEW n \in Nodes, NEW k \in Nodes,
         AnswerDiscover(n, k)
  PROVE  RegisterInv(f)' /\ LinkInv(f)' /\ KnownInv(f)' /\ AdmissionInv(f)'
<1> USE DEF JoinInv
<1>1. n = f
  BY DEF AnswerDiscover, MasterInv
<1>2. k # f /\ phase[f] = "up"
  <2>1. Discover(k, f) \in udp /\ Discover(k, f).type = "DISCOVER" /\ Discover(k, f).from = k
    BY <1>1 DEF AnswerDiscover, Discover
  <2>2. k # f /\ Running(k)
    BY <2>1 DEF LinkInv
  <2> QED
    BY <2>2 DEF MasterInv
<1>3. UNCHANGED <<phase, role, id, found, table, chan>>
  BY DEF AnswerDiscover
<1>4. LinkInv(f)'
  <2>1. ASSUME NEW d \in udp'
        PROVE  IF d.type = "DISCOVER" THEN d.from # f /\ Running(d.from) ELSE d.to # f
    <3>1. d \in udp \/ d = Reply(f, k)
      BY <1>1 DEF AnswerDiscover
    <3> QED
      BY <1>2, <3>1 DEF LinkInv, Reply
  <2>2. conn' = [conn EXCEPT ![f][k] = "backlog"]
    BY <1>1 DEF AnswerDiscover, Connect
  <2>3. \A a, b \in Nodes : a # f \/ b # k => conn'[a][b] = conn[a][b]
    BY <2>2 DEF TypeOK
  <2>4. \A a, b \in Nodes : a # f \/ b = f => conn'[a][b] = "none" /\ chan'[a][b] = <<>>
    BY <1>2, <1>3, <2>3 DEF LinkInv
  <2> QED
    BY <1>3, <2>1, <2>4 DEF LinkInv, Running
<1>5. AdmissionInv(f)'
  <2>1. /\ listener'[f] = [step |-> "add", node |-> k, id |-> 0]
        /\ \A m \in Nodes \ {f} : listener'[m] = listener[m]
    BY <1>1 DEF AnswerDiscover, TypeOK
  <2>2. listener'[f].step = "add" /\ listener'[f].node = k
    BY <2>1
  <2> QED
    BY <1>2, <1>3, <2>1, <2>2 DEF AdmissionInv
<1> QED
  BY <1>3, <1>4, <1>5, RegisterFrame, KnownSame

\* A message more or less in a channel.
AllTrue(c, n, t) == \A i \in DOMAIN c : TrueOf(c[i], n, t)

LEMMA AppendTrue ==
  ASSUME NEW c \in Seq(Message), NEW msg \in Message, NEW n, NEW t,
         AllTrue(c, n, t), TrueOf(msg, n, t)
  PROVE  Append(c, msg) \in Seq(Message) /\ AllTrue(Append(c, msg), n, t)
<1>1. PICK l \in Nat : l = Len(c) /\ DOMAIN c = 1..l
  BY LenProperties
<1>2. /\ Append(c, msg) \in Seq(Message) /\ Len(Append(c, msg)) = l + 1
      /\ \A i \in 1..l : Append(c, msg)[i] = c[i]
      /\ Append(c, msg)[l + 1] = msg
  BY <1>1, AppendProperties
<1>3. DOMAIN Append(c, msg) = 1..l + 1
  BY <1>2, LenProperties
<1>4. \A i \in 1..l + 1 : i \in 1..l \/ i = l + 1
  BY <1>1
<1> QED
  BY <1>1, <1>2, <1>3, <1>4 DEF AllTrue

LEMMA TailTrue ==
  ASSUME NEW c \in Seq(Message), c # <<>>, NEW n, NEW t, AllTrue(c, n, t)
  PROVE  AllTrue(Tail(c), n, t) /\ TrueOf(Head(c), n, t)
<1>1. PICK l \in Nat \ {0} : l = Len(c) /\ DOMAIN c = 1..l
  BY EmptySeq, LenProperties
<1>2. PICK d : d = Tail(c)
  OBVIOUS
<1>3. d \in Seq(Message) /\ Len(d) = l - 1 /\ \A i \in 1..Len(d) : d[i] = c[i + 1]
  BY <1>1, <1>2, HeadTailProperties
<1>4. DOMAIN d = 1..l - 1 /\ \A i \in 1..l - 1 : d[i] = c[i + 1]
  BY <1>3, LenProperties
<1>5. \A i \in 1..l - 1 : i + 1 \in 1..l
  BY <1>1
<1>6. Head(c) = c[1] /\ 1 \in 1..l
  BY <1>1
<1> QED
  BY <1>1, <1>2, <1>4, <1>5, <1>6 DEF AllTrue

LEMMA SendJoinResponseJoin ==
  ASSUME NEW f \in Nodes, JoinInv(f), TypeOK', NEW n \in Nodes, SendJoinResponse(n)
  PROVE  RegisterInv(f)' /\ LinkInv(f)' /\ KnownInv(f)' /\ AdmissionInv(f)'
<1> USE DEF JoinInv
<1>1. n = f /\ listener[f].step = "announce"
  BY DEF SendJoinResponse, Announcing, AdmissionInv, Idle
<1>2. UNCHANGED <<phase, role, id, found, table, udp, conn>>
  BY DEF SendJoinResponse, Announcing
<1>3. PICK k \in Nodes : k = listener[f].node /\ k # f /\ phase[f] = "up"
  BY <1>1, ListenerTyped DEF AdmissionInv, Idle
<1>4. PICK i \in Nat : i = listener[f].id /\ IdOf(i, k, table[f])
  BY <1>1, <1>3, ListenerTyped DEF AdmissionInv
<1>5. PICK t \in Seq(Entry) : t = table[f]
  BY MasterTable
<1> DEFINE ack == JoinResponse(i)
<1>6. ack \in Message /\ TrueOf(ack, k, t)
  BY <1>4, <1>5, MessagesTyped DEF TrueOf, JoinResponse
<1>7. PICK c : c = chan[f] /\ c \in [Nodes -> Seq(Message)]
  BY DEF TypeOK
<1>8. chan' = IF conn[f][k] = "none" THEN chan ELSE [chan EXCEPT ![f][k] = Append(c[k], ack)]
  BY <1>1, <1>3, <1>4, <1>7 DEF SendJoinResponse
<1> HIDE DEF ack
<1>9. /\ \A m \in Nodes \ {f} : chan'[m] = chan[m]
      /\ \A m \in Nodes : chan'[f][m] = c[m] \/ (m = k /\ chan'[f][m] = Append(c[m], ack))
  <2>0. chan \in [Nodes -> [Nodes -> Seq(Message)]]
    BY DEF TypeOK
  <2>1. CASE chan' = chan
    BY <1>7, <2>1
  <2>2. CASE chan' = [chan EXCEPT ![f][k] = Append(c[k], ack)]
    <3>1. PICK x : x = Append(c[k], ack)
      OBVIOUS
    <3>2. chan' = [chan EXCEPT ![f][k] = x]
      BY <2>2, <3>1
    <3>3. /\ \A m \in Nodes \ {f} : chan'[m] = chan[m]
          /\ chan'[f][k] = x /\ \A m \in Nodes \ {k} : chan'[f][m] = chan[f][m]
      BY <2>0, <3>2
    <3> QED
      BY <1>7, <3>1, <3>3
  <2> QED
    BY <1>8, <2>1, <2>2
<1>10. ASSUME NEW m \in Nodes \ {f} PROVE AllTrue(chan'[f][m], m, t)
  <2>1. c[m] \in Seq(Message) /\ AllTrue(c[m], m, t)
    BY <1>5, <1>7 DEF KnownInv, Knows, AllTrue
  <2> QED
    BY <1>6, <1>9, <2>1, AppendTrue
<1>11. KnownInv(f)'
  BY <1>2, <1>5, <1>10 DEF KnownInv, Knows, AllTrue
<1>12. LinkInv(f)'
  <2>1. conn[f][f] = "none" /\ chan[f][f] = <<>>
    BY DEF LinkInv
  <2>2. chan'[f][f] = <<>>
    BY <1>3, <1>7, <1>9, <2>1
  <2>3. \A a, b \in Nodes : a # f \/ b = f => chan'[a][b] = <<>>
    BY <1>9, <2>2 DEF LinkInv
  <2> QED
    BY <1>2, <2>3 DEF LinkInv, Running
<1>13. AdmissionInv(f)'
  <2>1. listener[f] \in Newcomer
    BY <1>1, ListenerTyped
  <2>2. /\ listener'[f] = [listener[f] EXCEPT !.step = "broadcast"]
        /\ \A m \in Nodes \ {f} : listener'[m] = listener[m]
    BY <1>1 DEF SendJoinResponse, Announcing, TypeOK
  <2>3. listener'[f].step = "broadcast" /\ listener'[f].node = k
    BY <1>3, <2>1, <2>2 DEF Newcomer
  <2> QED
    BY <1>2, <1>3, <2>2, <2>3 DEF AdmissionInv
<1> QED
  BY <1>2, <1>11, <1>12, <1>13, RegisterFrame

LEMMA NodeTableBroadcastJoin ==
  ASSUME NEW f \in Nodes, JoinInv(f), TypeOK', NEW n \in Nodes, NodeTableBroadcast(n)
  PROVE  RegisterInv(f)' /\ LinkInv(f)' /\ KnownInv(f)' /\ AdmissionInv(f)'
<1> USE DEF JoinInv
<1>1. n = f /\ listener[f].step = "broadcast"
  BY DEF NodeTableBroadcast, Announcing, AdmissionInv, Idle
<1>2. UNCHANGED <<phase, role, id, found, table, udp, conn>>
  BY DEF NodeTableBroadcast, Announcing
<1>3. PICK t \in Seq(Entry) : t = table[f]
  BY MasterTable
<1> DEFINE msg == NodeTable(Serialize(t))
<1>4. msg \in Message /\ \A m \in Nodes : TrueOf(msg, m, t)
  <2>1. Serialize(t) \in Seq(Info) /\ Len(Serialize(t)) = Len(t) /\ Len(t) \in Nat
    BY SerializeTyped, TableFacts
  <2>2. FrontOf(Serialize(t), t)
    BY <2>1 DEF FrontOf, Serialize
  <2>3. msg.type = "NODE_TABLE" /\ msg.nodes = Serialize(t)
    BY DEF NodeTable
  <2> QED
    BY <2>1, <2>2, <2>3, MessagesTyped DEF TrueOf
<1>5. PICK c : c = chan[f] /\ c \in [Nodes -> Seq(Message)]
  BY DEF TypeOK
<1>6. /\ chan'[f] = Broadcast(f, msg, c)
      /\ \A m \in Nodes \ {f} : chan'[m] = chan[m]
  BY <1>1, <1>3, <1>5 DEF NodeTableBroadcast, TypeOK
<1> HIDE DEF msg
<1>7. \A m \in Nodes : chan'[f][m] = c[m] \/ (conn[f][m] # "none" /\ chan'[f][m] = Append(c[m], msg))
  BY <1>6 DEF Broadcast
<1>8. ASSUME NEW m \in Nodes \ {f} PROVE AllTrue(chan'[f][m], m, t)
  <2>1. c[m] \in Seq(Message) /\ AllTrue(c[m], m, t)
    BY <1>3, <1>5 DEF KnownInv, Knows, AllTrue
  <2> QED
    BY <1>4, <1>7, <2>1, AppendTrue
<1>9. KnownInv(f)'
  BY <1>2, <1>3, <1>8 DEF KnownInv, Knows, AllTrue
<1>10. LinkInv(f)'
  <2>1. conn[f][f] = "none" /\ chan[f][f] = <<>>
    BY DEF LinkInv
  <2>2. chan'[f][f] = <<>>
    BY <1>5, <1>7, <2>1
  <2>3. \A a, b \in Nodes : a # f \/ b = f => chan'[a][b] = <<>>
    BY <1>6, <2>2 DEF LinkInv
  <2> QED
    BY <1>2, <2>3 DEF LinkInv, Running
<1>11. AdmissionInv(f)'
  <2>1. listener'[f] = Idle /\ \A m \in Nodes \ {f} : listener'[m] = listener[m]
    BY <1>1 DEF NodeTableBroadcast, Announcing, TypeOK
  <2>2. Idle.step # "announce"
    BY DEF Idle
  <2> QED
    BY <2>1, <2>2 DEF AdmissionInv
<1> QED
  BY <1>2, <1>9, <1>10, <1>11, RegisterFrame

\* What the TCP thread reads comes from the master and is true.
LEMMA ReceivedFacts ==
  ASSUME NEW f \in Nodes, JoinInv(f), NEW n \in Nodes, NEW m \in Nodes, NEW type,
         Received(n, m, type)
  PROVE  /\ m = f /\ n # f /\ chan[f][n] \in Seq(Message) /\ chan[f][n] # <<>>
         /\ Head(chan[f][n]).type = type /\ TrueOf(Head(chan[f][n]), n, table[f])
         /\ AllTrue(chan'[f][n], n, table[f])
         /\ \A a, b \in Nodes : a # f \/ b # n => chan'[a][b] = chan[a][b]
         /\ LinkInv(f)'
<1> USE DEF JoinInv
<1>1. m = f /\ n # f
  BY DEF Received, LinkInv
<1>2. /\ chan[f][n] \in Seq(Message) /\ chan[f][n] # <<>> /\ Head(chan[f][n]).type = type
      /\ chan' = [chan EXCEPT ![f][n] = Tail(chan[f][n])]
  BY <1>1 DEF Received, TypeOK
<1>3. AllTrue(chan[f][n], n, table[f])
  BY <1>1 DEF KnownInv, Knows, AllTrue
<1>4. chan'[f][n] = Tail(chan[f][n])
  BY <1>2 DEF TypeOK
<1>5. \A a, b \in Nodes : a # f \/ b # n => chan'[a][b] = chan[a][b]
  BY <1>2 DEF TypeOK
<1>6. \A a, b \in Nodes : a # f \/ b = f => chan'[a][b] = <<>>
  BY <1>1, <1>5 DEF LinkInv
<1>7. LinkInv(f)'
  BY <1>6 DEF Received, LinkInv, Running
<1> QED
  BY <1>1, <1>2, <1>3, <1>4, <1>5, <1>7, TailTrue

LEMMA RecvJoinResponseJoin ==
  ASSUME NEW f \in Nodes, JoinInv(f), TypeOK', NEW n \in Nodes, NEW m \in Nodes,
         RecvJoinResponse(n, m)
  PROVE  RegisterInv(f)' /\ LinkInv(f)' /\ KnownInv(f)' /\ AdmissionInv(f)'
<1> USE DEF JoinInv
<1>1. Received(n, m, "JOIN_RESPONSE") /\ table' = table
  BY DEF RecvJoinResponse
<1>2. /\ m = f /\ n # f
      /\ Head(chan[f][n]).type = "JOIN_RESPONSE" /\ TrueOf(Head(chan[f][n]), n, table[f])
      /\ AllTrue(chan'[f][n], n, table[f])
      /\ \A a, b \in Nodes : a # f \/ b # n => chan'[a][b] = chan[a][b]
      /\ LinkInv(f)'
  BY <1>1, ReceivedFacts
<1>3. IdOf(Head(chan[f][n]).id, n, table[f])
  BY <1>2 DEF TrueOf
<1>4. id'[n] = Head(chan[f][n]).id /\ \A k \in Nodes \ {n} : id'[k] = id[k]
  BY <1>2 DEF RecvJoinResponse, TypeOK
<1>5. Knows(f, n)'
  BY <1>1, <1>2, <1>3, <1>4 DEF KnownInv, Knows, AllTrue
<1>6. ASSUME NEW k \in Nodes \ {f}, k # n PROVE Knows(f, k)'
  BY <1>1, <1>2, <1>4, <1>6 DEF KnownInv, Knows
<1>7. UNCHANGED <<phase, role, found, listener>>
  BY <1>1 DEF Received
<1> QED
  BY <1>1, <1>2, <1>4, <1>5, <1>6, <1>7, RegisterFrame, AdmissionFrame DEF KnownInv

LEMMA RecvNodeTableJoin ==
  ASSUME NEW f \in Nodes, JoinInv(f), TypeOK', NEW n \in Nodes, NEW m \in Nodes,
         RecvNodeTable(n, m)
  PROVE  /\ RegisterInv(f)' /\ LinkInv(f)' /\ KnownInv(f)' /\ AdmissionInv(f)'
         /\ n # f /\ Len(table'[n]) >= Len(table[n])
         /\ \A k \in Nodes \ {n} : table'[k] = table[k]
<1> USE DEF JoinInv
<1>1. Received(n, m, "NODE_TABLE") /\ id' = id
  BY DEF RecvNodeTable
<1>2. /\ m = f /\ n # f /\ chan[f][n] \in Seq(Message) /\ chan[f][n] # <<>>
      /\ Head(chan[f][n]).type = "NODE_TABLE" /\ TrueOf(Head(chan[f][n]), n, table[f])
      /\ AllTrue(chan'[f][n], n, table[f])
      /\ \A a, b \in Nodes : a # f \/ b # n => chan'[a][b] = chan[a][b]
      /\ LinkInv(f)'
  BY <1>1, ReceivedFacts
<1>3. PICK infos : /\ infos = Head(chan[f][n]).nodes /\ infos \in Seq(Info)
                   /\ FrontOf(infos, table[f])
  BY <1>2, HeadTyped DEF TrueOf
<1>4. /\ table[f] \in Tables /\ table[n] \in Seq(Entry) /\ FrontOf(table[n], table[f])
      /\ \A i \in DOMAIN table[f] : table[f][i].id = i
  BY <1>2, MasterTable DEF RegisterInv, KnownInv, Knows
<1>5. PICK u : u = Deserialize(table[n], infos)
  OBVIOUS
<1>6. FrontOf(u, table[f]) /\ Len(u) >= Len(table[n])
  BY <1>3, <1>4, <1>5, DeserializeFront
<1>7. table'[n] = u /\ \A k \in Nodes \ {n} : table'[k] = table[k]
  BY <1>2, <1>3, <1>5 DEF RecvNodeTable, TypeOK
<1>8. Knows(f, n)'
  BY <1>1, <1>2, <1>6, <1>7 DEF KnownInv, Knows, AllTrue
<1>9. ASSUME NEW k \in Nodes \ {f}, k # n PROVE Knows(f, k)'
  BY <1>1, <1>2, <1>7, <1>9 DEF KnownInv, Knows
<1>10. UNCHANGED <<phase, role, found, listener>>
  BY <1>1 DEF Received
<1> QED
  BY <1>1, <1>2, <1>6, <1>7, <1>8, <1>9, <1>10, RegisterFrame, AdmissionFrame DEF KnownInv

LEMMA NoShutdown ==
  ASSUME NEW f \in Nodes, JoinInv(f), NEW n \in Nodes, NEW m \in Nodes, RecvShutdown(n, m)
  PROVE  FALSE
<1>1. Received(n, m, "SHUTDOWN")
  BY DEF RecvShutdown
<1>2. Head(chan[f][n]).type = "SHUTDOWN" /\ TrueOf(Head(chan[f][n]), n, table[f])
  BY <1>1, ReceivedFacts
<1> QED
  BY <1>2 DEF TrueOf

-----------------------------------------------------------------------------
(* Ids and tables *)

LEMMA JoinInit ==
  ASSUME NEW f \in Nodes
  PROVE  Init => JoinInv(f)
<1> SUFFICES ASSUME Init PROVE JoinInv(f)
  OBVIOUS
<1>1. TypeOK /\ MasterInv(f)
  BY TypeInit, MasterInit
<1>2. DOMAIN <<>> = {} /\ <<>> \in Seq(Entry)
  BY EmptySeq
<1>3. RegisterInv(f)
  BY <1>2 DEF Init, RegisterInv
<1>4. LinkInv(f)
  BY DEF Init, LinkInv
<1>5. KnownInv(f)
  BY <1>2, FrontEmpty DEF Init, KnownInv, Knows
<1>6. AdmissionInv(f)
  BY DEF Init, AdmissionInv, Idle
<1> QED
  BY <1>1, <1>3, <1>4, <1>5, <1>6 DEF JoinInv

LEMMA JoinStep ==
  ASSUME NEW f \in Nodes, Prompt, Early \subseteq {f}, f \notin MayExit,
         JoinInv(f), [Next]_vars
  PROVE  JoinInv(f)'
<1>1. TypeOK /\ MasterInv(f) /\ TypeOK' /\ MasterInv(f)'
  BY TypeStep, MasterStep DEF JoinInv
<1> SUFFICES RegisterInv(f)' /\ LinkInv(f)' /\ KnownInv(f)' /\ AdmissionInv(f)'
  BY <1>1 DEF JoinInv
<1>2. CASE UNCHANGED vars
  <2>1. UNCHANGED <<phase, role, id, found, table, listener, udp, conn, chan>>
    BY <1>2 DEF vars
  <2>2. LinkInv(f)'
    BY <2>1 DEF JoinInv, LinkInv, Running
  <2> QED
    BY <1>1, <2>1, <2>2, RegisterFrame, KnownSame, AdmissionFrame DEF JoinInv
<1>3. ASSUME NEW n \in Nodes, Start(n) \/ InitStep(n) \/ Finalize(n)
      PROVE  RegisterInv(f)' /\ LinkInv(f)' /\ KnownInv(f)' /\ AdmissionInv(f)'
  BY <1>1, <1>3, StartJoin, RoleJoin, AddSelfJoin, FinalizeJoin DEF InitStep
<1>4. ASSUME NEW n \in Nodes, UdpStep(n)
      PROVE  RegisterInv(f)' /\ LinkInv(f)' /\ KnownInv(f)' /\ AdmissionInv(f)'
  BY <1>1, <1>4, AdmitNodeJoin, SendJoinResponseJoin, NodeTableBroadcastJoin, DatagramJoin,
     AnswerDiscoverJoin DEF UdpStep
<1>5. ASSUME NEW n \in Nodes, TcpStep(n)
      PROVE  RegisterInv(f)' /\ LinkInv(f)' /\ KnownInv(f)' /\ AdmissionInv(f)'
  BY <1>1, <1>5, DatagramJoin, RecvJoinResponseJoin, RecvNodeTableJoin, NoShutdown DEF TcpStep
<1> QED
  BY <1>2, <1>3, <1>4, <1>5 DEF Next

\* The inductive invariant of joining: with one node that starts first and stays,
\* and replies within the five seconds, everything the other nodes know or are
\* being sent is the front of the master's node table.
THEOREM JoinInvariant ==
  ASSUME NEW f \in Nodes, Prompt, Early \subseteq {f}, f \notin MayExit
  PROVE  Spec => []JoinInv(f)
<1>1. Init => JoinInv(f)
  BY JoinInit
<1>2. JoinInv(f) /\ [Next]_vars => JoinInv(f)'
  BY JoinStep
<1> QED
  BY <1>1, <1>2, PTL DEF Spec

LEMMA JoinImpliesIdsAgree ==
  ASSUME NEW f \in Nodes, JoinInv(f)
  PROVE  IdsAgree
<1> USE DEF JoinInv
<1> SUFFICES ASSUME NEW m \in Nodes, NEW n \in Nodes,
                    role[m] = "MASTER", phase[m] = "up", id[n] # 0
             PROVE  \E i \in DOMAIN table[m] :
                      /\ table[m][i].node = n /\ table[m][i].id = id[n]
                      /\ \A j \in DOMAIN table[m] : table[m][j].id = id[n] => i = j
  BY DEF IdsAgree
<1>1. m = f
  BY DEF MasterInv
<1>2. PICK t \in Seq(Entry) : /\ t = table[f] /\ \A i \in DOMAIN t : t[i].id = i
                              /\ t # <<>> /\ t[1].node = f
  BY <1>1, MasterTable DEF RegisterInv
<1>3. IdOf(id[n], n, t)
  <2>1. CASE n = f
    <3>1. id[n] = 1
      BY <1>1, <2>1 DEF RegisterInv
    <3>2. Len(t) \in Nat \ {0} /\ DOMAIN t = 1..Len(t)
      BY <1>2, EmptySeq, LenProperties
    <3> QED
      BY <1>2, <2>1, <3>1, <3>2 DEF IdOf
  <2>2. CASE n # f
    BY <1>2, <2>2 DEF KnownInv, Knows
  <2> QED
    BY <2>1, <2>2
<1>4. id[n] \in DOMAIN t /\ t[id[n]].node = n
  BY <1>3 DEF IdOf
<1> QED
  BY <1>1, <1>2, <1>4

LEMMA FrontIsPrefix ==
  ASSUME NEW s \in Seq(Entry), NEW t \in Seq(Entry), FrontOf(s, t)
  PROVE  IsPrefix(Serialize(s), Serialize(t))
<1>1. PICK a : a = Serialize(s) /\ a \in Seq(Info) /\ Len(a) = Len(s)
  BY SerializeTyped
<1>2. PICK b : b = Serialize(t) /\ b \in Seq(Info) /\ Len(b) = Len(t)
  BY SerializeTyped
<1>3. PICK p \in Nat, q \in Nat : /\ p = Len(s) /\ q = Len(t) /\ p <= q
                                  /\ DOMAIN s = 1..p /\ DOMAIN t = 1..q
  BY LenProperties DEF FrontOf
<1>4. \A i \in 1..p : a[i] = b[i]
  <2>1. \A i \in 1..p : i \in 1..q
    BY <1>3
  <2> QED
    BY <1>1, <1>2, <1>3, <2>1 DEF FrontOf, Serialize
<1>5. SubSeq(a, 1, p) = a
  BY <1>1, <1>3, SubSeqFull
<1>6. SubSeq(b, 1, p) = a
  <2>1. \A i \in 1..p : b[i] \in Info
    BY <1>2, <1>3, ElementOfSeq
  <2>2. PICK c : c = SubSeq(b, 1, p)
    OBVIOUS
  <2>3. /\ c \in Seq(Info) /\ Len(c) = IF 1 <= p THEN p - 1 + 1 ELSE 0
        /\ \A i \in 1..p - 1 + 1 : c[i] = b[1 + i - 1]
    BY <1>3, <2>1, <2>2, SubSeqProperties
  <2>4. Len(c) = p /\ \A i \in 1..p : c[i] = b[i]
    BY <1>3, <2>3
  <2> QED
    BY <1>1, <1>3, <1>4, <2>2, <2>3, <2>4, SeqEqual
<1>7. Len(a) <= Len(b) /\ SubSeq(a, 1, Len(a)) = SubSeq(b, 1, Len(a))
  BY <1>1, <1>2, <1>3, <1>5, <1>6
<1> QED
  BY <1>1, <1>2, <1>7 DEF IsPrefix

LEMMA JoinImpliesTablesConsistent ==
  ASSUME NEW f \in Nodes, JoinInv(f)
  PROVE  TablesConsistent
<1> SUFFICES ASSUME NEW m \in Nodes, NEW n \in Nodes, role[m] = "MASTER"
             PROVE  IsPrefix(Serialize(table[n]), Serialize(table[m]))
  BY DEF TablesConsistent
<1>1. m = f
  BY DEF JoinInv, MasterInv
<1>2. table[n] \in Seq(Entry) /\ table[f] \in Seq(Entry)
  BY MasterTable DEF JoinInv
<1>3. FrontOf(table[n], table[f])
  BY <1>2, FrontSame DEF JoinInv, KnownInv, Knows
<1> QED
  BY <1>1, <1>2, <1>3, FrontIsPrefix

\* Under the same conditions every id in use, the assignment having arrived by
\* JOIN_RESPONSE, is the one dsm_node_table_add gave that node and no other, also
\* for nodes that leave and join again.
THEOREM MembershipIdsAgree ==
  ASSUME NEW f \in Nodes, Prompt, Early \subseteq {f}, f \notin MayExit
  PROVE  Spec => []IdsAgree
<1>1. JoinInv(f) => IdsAgree
  BY JoinImpliesIdsAgree
<1> QED
  BY <1>1, JoinInvariant, PTL

\* ... and every node table that dsm_node_table_deserialize builds from the
\* NODE_TABLE messages is an initial part of the master's.
THEOREM MembershipTablesConsistent ==
  ASSUME NEW f \in Nodes, Prompt, Early \subseteq {f}, f \notin MayExit
  PROVE  Spec => []TablesConsistent
<1>1. JoinInv(f) => TablesConsistent
  BY JoinImpliesTablesConsistent
<1> QED
  BY <1>1, JoinInvariant, PTL

-----------------------------------------------------------------------------
(* The refinement: the list of members is the master's table *)

LEMMA NodesOfFacts ==
  ASSUME NEW t \in Seq(Entry)
  PROVE  /\ NodesOf(t) \in Seq(Nodes) /\ Len(NodesOf(t)) = Len(t) /\ Len(t) \in Nat
         /\ DOMAIN NodesOf(t) = 1..Len(t) /\ DOMAIN t = 1..Len(t)
         /\ \A i \in 1..Len(t) : NodesOf(t)[i] = t[i].node
<1>1. Len(t) \in Nat /\ DOMAIN t = 1..Len(t) /\ \A i \in DOMAIN t : t[i].node \in Nodes
  BY TableFacts
<1>2. NodesOf(t) \in [1..Len(t) -> Nodes] /\ \A i \in 1..Len(t) : NodesOf(t)[i] = t[i].node
  BY <1>1 DEF NodesOf
<1>3. NodesOf(t) \in Seq(Nodes)
  BY <1>1, <1>2, SeqDef
<1> QED
  BY <1>1, <1>2, <1>3, LenProperties

LEMMA NodesOfEmpty ==
  ASSUME NEW t \in Seq(Entry)
  PROVE  NodesOf(t) = <<>> <=> t = <<>>
<1>1. NodesOf(t) \in Seq(Nodes) /\ Len(NodesOf(t)) = Len(t)
  BY NodesOfFacts
<1> QED
  BY <1>1, EmptySeq

LEMMA NodesOfSame ==
  ASSUME NEW t \in Seq(Entry), NEW u \in Seq(Entry), SameEntries(u, t)
  PROVE  NodesOf(u) = NodesOf(t)
<1>1. Len(u) = Len(t) /\ \A i \in 1..Len(t) : u[i].node = t[i].node
  BY TableFacts DEF SameEntries
<1>2. PICK a : a = NodesOf(t) /\ a \in Seq(Nodes) /\ Len(a) = Len(t)
               /\ \A i \in 1..Len(t) : a[i] = t[i].node
  BY NodesOfFacts
<1>3. PICK b : b = NodesOf(u) /\ b \in Seq(Nodes) /\ Len(b) = Len(t)
               /\ \A i \in 1..Len(t) : b[i] = u[i].node
  BY <1>1, NodesOfFacts
<1> QED
  BY <1>1, <1>2, <1>3, SeqEqual

LEMMA NodesOfAdded ==
  ASSUME NEW t \in Seq(Entry), NEW u, NEW e, e.node \in Nodes, Added(u, t, e)
  PROVE  NodesOf(u) = Append(NodesOf(t), e.node)
<1>1. PICK l \in Nat : l = Len(t) /\ DOMAIN t = 1..l
  BY TableFacts
<1>2. /\ u \in Seq(Entry) /\ Len(u) = l + 1
      /\ (\A j \in 1..l : u[j] = t[j]) /\ u[l + 1] = e
  BY <1>1 DEF Added
<1>3. PICK a : a = NodesOf(t) /\ a \in Seq(Nodes) /\ Len(a) = l
               /\ \A i \in 1..l : a[i] = t[i].node
  BY <1>1, NodesOfFacts
<1>4. PICK b : b = NodesOf(u) /\ b \in Seq(Nodes) /\ Len(b) = l + 1
               /\ \A i \in 1..l + 1 : b[i] = u[i].node
  BY <1>2, NodesOfFacts
<1>5. PICK c : c = Append(a, e.node)
  OBVIOUS
<1>6. /\ c \in Seq(Nodes) /\ Len(c) = l + 1
      /\ (\A i \in 1..l : c[i] = a[i]) /\ c[l + 1] = e.node
  BY <1>3, <1>5, AppendProperties
<1>7. \A i \in 1..l + 1 : i \in 1..l \/ i = l + 1
  BY <1>1
<1>8. \A i \in 1..l + 1 : b[i] = c[i]
  BY <1>2, <1>3, <1>4, <1>6, <1>7
<1>9. b = c
  BY <1>4, <1>6, <1>8, SeqEqual
<1> QED
  BY <1>3, <1>4, <1>5, <1>9

\* A front of a table holds the first of its nodes.
LEMMA NodesOfFront ==
  ASSUME NEW s \in Seq(Entry), NEW t \in Seq(Entry), FrontOf(s, t)
  PROVE  NodesOf(s) = SubSeq(NodesOf(t), 1, Len(s)) /\ Len(s) <= Len(NodesOf(t))
<1>1. PICK p \in Nat, q \in Nat : /\ p = Len(s) /\ q = Len(t) /\ p <= q
                                  /\ DOMAIN s = 1..p /\ DOMAIN t = 1..q
  BY LenProperties DEF FrontOf
<1>2. PICK a : a = NodesOf(s) /\ a \in Seq(Nodes) /\ Len(a) = p
               /\ \A i \in 1..p : a[i] = s[i].node
  BY <1>1, NodesOfFacts
<1>3. PICK b : b = NodesOf(t) /\ b \in Seq(Nodes) /\ Len(b) = q
               /\ \A i \in 1..q : b[i] = t[i].node
  BY <1>1, NodesOfFacts
<1>4. \A i \in 1..p : i \in 1..q
  BY <1>1
<1>5. \A i \in 1..p : a[i] = b[i] /\ b[i] \in Nodes
  BY <1>1, <1>2, <1>3, <1>4, ElementOfSeq DEF FrontOf
<1>6. PICK c : c = SubSeq(b, 1, p)
  OBVIOUS
<1>7. /\ c \in Seq(Nodes) /\ Len(c) = IF 1 <= p THEN p - 1 + 1 ELSE 0
      /\ \A i \in 1..p - 1 + 1 : c[i] = b[1 + i - 1]
  BY <1>1, <1>5, <1>6, SubSeqProperties
<1>8. Len(c) = p /\ \A i \in 1..p : c[i] = b[i]
  BY <1>1, <1>7
<1>9. a = c
  BY <1>1, <1>2, <1>5, <1>7, <1>8, SeqEqual
<1> QED
  BY <1>1, <1>2, <1>3, <1>6, <1>9

LEMMA MembersAre ==
  ASSUME NEW f \in Nodes
  PROVE  JoinInv(f) => Members = NodesOf(table[f])
<1> SUFFICES ASSUME JoinInv(f) PROVE Members = NodesOf(table[f])
  OBVIOUS
<1>1. \A m \in Nodes : role[m] = "MASTER" => m = f
  BY DEF JoinInv, MasterInv
<1>2. CASE role[f] = "MASTER"
  <2>1. (CHOOSE m \in Nodes : role[m] = "MASTER") = f
    BY <1>1, <1>2
  <2> QED
    BY <1>2, <2>1 DEF Members
<1>3. CASE role[f] # "MASTER"
  <2>1. table[f] = <<>> /\ table[f] \in Seq(Entry)
    BY <1>3, MasterTable DEF JoinInv, RegisterInv
  <2>2. NodesOf(table[f]) = <<>>
    BY <2>1, NodesOfEmpty
  <2> QED
    BY <1>1, <1>3, <2>2 DEF Members
<1> QED
  BY <1>2, <1>3

LEMMA MembersAreNext ==
  ASSUME NEW f \in Nodes
  PROVE  JoinInv(f)' => Members' = NodesOf(table'[f])
<1>1. (JoinInv(f) => Members = NodesOf(table[f]))'
  BY MembersAre, PTL
<1> QED
  BY <1>1 DEF NodesOf

\* Steps that the list of members does not see.
LEMMA Unseen ==
  ASSUME NEW f \in Nodes, JoinInv(f), JoinInv(f)',
         \A n \in Nodes : NodesOf(table'[n]) = NodesOf(table[n]),
         UNCHANGED Names
  PROVE  UNCHANGED Abstract!vars
<1>1. Members' = Members
  BY MembersAre, MembersAreNext
<1>2. Views' = Views
  BY DEF Views, NodesOf
<1> QED
  BY <1>1, <1>2 DEF Abstract!vars

LEMMA AddSelfFounds ==
  ASSUME NEW f \in Nodes, JoinInv(f), JoinInv(f)', NEW n \in Nodes, AddSelf(n)
  PROVE  Abstract!Found(n)
<1>1. n = f /\ table[f] = <<>> /\ phase[f] = "addself" /\ id[f] = 1
  BY DEF JoinInv, AddSelf, MasterInv, RegisterInv
<1>2. PICK u : u = table'[f]
  OBVIOUS
<1>3. u = NodeTableAdd(<<>>, f, "MASTER", FALSE)
  BY <1>1, <1>2 DEF AddSelf, JoinInv, TypeOK
<1>4. <<>> \in Seq(Entry) /\ Len(<<>>) = 0 /\ DOMAIN <<>> = {} /\ ~(Len(<<>>) >= MaxNodes)
  BY EmptySeq, MembershipAssumptions
<1>5. PICK e : e = [id |-> 1, node |-> f, role |-> "MASTER", fd |-> FALSE]
  OBVIOUS
<1>6. Added(u, <<>>, e) /\ e.node = f
  BY <1>3, <1>4, <1>5, NodeTableAddFacts DEF Role
<1>7. u \in Seq(Entry) /\ Len(u) = 1 /\ u[1] = e
  BY <1>4, <1>6 DEF Added
<1>8. NodesOf(<<>>) = <<>>
  BY <1>4, NodesOfEmpty
<1>9. NodesOf(u) = <<f>>
  <2>1. PICK a : a = NodesOf(u) /\ a \in Seq(Nodes) /\ Len(a) = 1 /\ a[1] = f
    BY <1>6, <1>7, NodesOfFacts
  <2>2. <<f>> \in Seq(Nodes) /\ Len(<<f>>) = 1 /\ <<f>>[1] = f
    OBVIOUS
  <2>3. PICK b : b = <<f>>
    OBVIOUS
  <2>4. \A i \in 1..1 : a[i] = b[i]
    BY <2>1, <2>2, <2>3
  <2>5. b \in Seq(Nodes) /\ Len(b) = 1
    BY <2>2, <2>3
  <2> QED
    BY <2>1, <2>3, <2>4, <2>5, SeqEqual
<1>10. Members = <<>> /\ Members' = <<f>>
  BY <1>1, <1>2, <1>8, <1>9, MembersAre, MembersAreNext
<1>11. Views' = [Views EXCEPT ![f] = <<f>>]
  <2>1. \A k \in Nodes \ {f} : table'[k] = table[k]
    BY <1>1 DEF AddSelf, JoinInv, TypeOK
  <2>2. \A k \in Nodes : NodesOf(table'[k]) = IF k = f THEN <<f>> ELSE NodesOf(table[k])
    BY <1>2, <1>9, <2>1
  <2>3. Views' = [k \in Nodes |-> NodesOf(table'[k])]
    BY DEF Views, NodesOf
  <2> QED
    BY <2>2, <2>3 DEF Views
<1>12. Names' = [Names EXCEPT ![f] = 1]
  <2>1. phase'[f] = "up" /\ id' = id /\ \A k \in Nodes \ {f} : phase'[k] = phase[k]
    BY <1>1 DEF AddSelf, JoinInv, TypeOK
  <2> QED
    BY <1>1, <2>1 DEF Names
<1> QED
  BY <1>1, <1>10, <1>11, <1>12 DEF Abstract!Found

LEMMA AdmitNodeAdmits ==
  ASSUME NEW f \in Nodes, JoinInv(f), JoinInv(f)', NEW n \in Nodes, AdmitNode(n)
  PROVE  Abstract!Next \/ UNCHANGED Abstract!vars
<1>0. listener[f].node \in Nodes
  BY AdmitCases
<1>1. PICK k \in Nodes : k = listener[f].node
  BY <1>0
<1>2. PICK t \in Seq(Entry) : t = table[f] /\ t # <<>> /\ t[1].node = f
  BY AdmitCases, MasterTable DEF JoinInv, RegisterInv
<1>3. PICK u \in Seq(Entry) : u = table'[f]
  BY DEF JoinInv, TypeOK
<1>4. \A m \in Nodes \ {f} : table'[m] = table[m]
  BY AdmitCases
<1>5. Names' = Names
  BY DEF AdmitNode, Names
<1>6. CASE u = t \/ SameEntries(u, t)
  <2>1. NodesOf(u) = NodesOf(t)
    BY <1>6, NodesOfSame
  <2> QED
    BY <1>2, <1>3, <1>4, <1>5, <2>1, Unseen
<1>7. PICK e : e = WorkerEntry(t, k)
  OBVIOUS
<1>8. CASE Entered(u, t, k)
  <2>0. /\ \A i \in DOMAIN t : t[i].node # k
        /\ Len(t) < MaxNodes /\ Added(u, t, e)
    BY <1>7, <1>8 DEF Entered
  <2>1. e.node = k
    BY <1>7 DEF WorkerEntry
  <2>2. NodesOf(u) = Append(NodesOf(t), k)
    BY <2>0, <2>1, NodesOfAdded
  <2>3. Members = NodesOf(t) /\ Members' = Append(Members, k)
    BY <1>2, <1>3, <2>2, MembersAre, MembersAreNext
  <2>4. /\ NodesOf(t) # <<>> /\ Len(NodesOf(t)) < MaxNodes
        /\ \A i \in DOMAIN NodesOf(t) : NodesOf(t)[i] # k
    <3>1. NodesOf(t) # <<>>
      BY <1>2, NodesOfEmpty
    <3>2. Len(NodesOf(t)) < MaxNodes
      BY <2>0, NodesOfFacts
    <3>3. \A i \in DOMAIN NodesOf(t) : i \in DOMAIN t /\ NodesOf(t)[i] = t[i].node
      BY NodesOfFacts
    <3> QED
      BY <2>0, <3>1, <3>2, <3>3
  <2>5. NodesOf(t)[1] = f
    <3>1. Len(t) \in Nat \ {0}
      BY <1>2, EmptySeq
    <3> QED
      BY <1>2, <3>1, NodesOfFacts
  <2>6. Views' = [Views EXCEPT ![f] = Append(Members, k)]
    <3>1. \A m \in Nodes : NodesOf(table'[m]) = IF m = f THEN Append(Members, k) ELSE NodesOf(table[m])
      BY <1>3, <1>4, <2>2, <2>3
    <3>2. Views' = [m \in Nodes |-> NodesOf(table'[m])]
      BY DEF Views, NodesOf
    <3> QED
      BY <3>1, <3>2 DEF Views
  <2>7. Abstract!Admit(k)
    BY <1>5, <2>3, <2>4, <2>5, <2>6 DEF Abstract!Admit
  <2> QED
    BY <2>7 DEF Abstract!Next
<1>9. u = t \/ SameEntries(u, t) \/ Entered(u, t, k)
  BY <1>1, <1>2, <1>3, AdmitCases
<1> QED
  BY <1>6, <1>8, <1>9

LEMMA RecvNodeTableLearns ==
  ASSUME NEW f \in Nodes, JoinInv(f), JoinInv(f)', NEW n \in Nodes, NEW m \in Nodes,
         RecvNodeTable(n, m)
  PROVE  Abstract!Learn(n)
<1>1. /\ n # f /\ Len(table'[n]) >= Len(table[n])
      /\ \A k \in Nodes \ {n} : table'[k] = table[k]
  BY RecvNodeTableJoin DEF JoinInv
<1>2. PICK t \in Seq(Entry) : t = table[f] /\ t = table'[f]
  BY <1>1, MasterTable DEF JoinInv
<1>3. PICK u \in Seq(Entry) : u = table'[n] /\ FrontOf(u, t)
  BY <1>1, <1>2 DEF JoinInv, TypeOK, KnownInv, Knows
<1>4. NodesOf(u) = SubSeq(NodesOf(t), 1, Len(u)) /\ Len(u) <= Len(NodesOf(t))
  BY <1>3, NodesOfFront
<1>5. Members = NodesOf(t) /\ Members' = Members
  <2>1. Members = NodesOf(table[f])
    BY MembersAre
  <2>2. Members' = NodesOf(table'[f])
    BY MembersAreNext
  <2> QED
    BY <1>2, <2>1, <2>2
<1>6. Views' = [Views EXCEPT ![n] = SubSeq(Members, 1, Len(u))]
  <2>1. \A k \in Nodes : NodesOf(table'[k])
                           = IF k = n THEN SubSeq(Members, 1, Len(u)) ELSE NodesOf(table[k])
    BY <1>1, <1>3, <1>4, <1>5
  <2>2. Views' = [k \in Nodes |-> NodesOf(table'[k])]
    BY DEF Views, NodesOf
  <2> QED
    BY <2>1, <2>2 DEF Views
<1>7. Len(u) \in Len(Views[n])..Len(Members)
  <2>1. table[n] \in Seq(Entry) /\ Views[n] = NodesOf(table[n])
    BY MasterTable DEF JoinInv, Views
  <2>2. PICK a \in Nat, b \in Nat, c \in Nat : a = Len(Views[n]) /\ b = Len(u) /\ c = Len(Members)
                                              /\ a = Len(table[n])
    BY <1>5, <2>1, NodesOfFacts
  <2> QED
    BY <1>1, <1>3, <1>4, <1>5, <2>2
<1>8. Names' = Names
  BY DEF RecvNodeTable, Received, Names
<1> QED
  BY <1>5, <1>6, <1>7, <1>8 DEF Abstract!Learn

LEMMA RecvJoinResponseTells ==
  ASSUME NEW f \in Nodes, JoinInv(f), JoinInv(f)', NEW n \in Nodes, NEW m \in Nodes,
         RecvJoinResponse(n, m)
  PROVE  Abstract!Told(n)
<1>1. Received(n, m, "JOIN_RESPONSE") /\ table' = table /\ phase' = phase
  BY DEF RecvJoinResponse, Received
<1>2. /\ m = f /\ n # f
      /\ Head(chan[f][n]).type = "JOIN_RESPONSE" /\ TrueOf(Head(chan[f][n]), n, table[f])
  BY <1>1, ReceivedFacts
<1>3. PICK i : i = Head(chan[f][n]).id /\ IdOf(i, n, table[f])
  BY <1>2 DEF TrueOf
<1>4. id'[n] = i /\ \A k \in Nodes \ {n} : id'[k] = id[k]
  BY <1>2, <1>3 DEF RecvJoinResponse, JoinInv, TypeOK
<1>5. phase[n] # "addself"
  BY <1>2 DEF JoinInv, MasterInv
<1>6. Names' = [Names EXCEPT ![n] = i]
  BY <1>1, <1>4, <1>5 DEF Names
<1>7. Members = NodesOf(table[f]) /\ Members' = Members
  BY <1>1, MembersAre, MembersAreNext
<1>8. i \in DOMAIN Members /\ Members[i] = n
  <2>1. table[f] \in Seq(Entry)
    BY MasterTable DEF JoinInv
  <2> QED
    BY <1>3, <1>7, <2>1, NodesOfFacts DEF IdOf
<1>9. Views' = Views
  BY <1>1 DEF Views, NodesOf
<1> QED
  BY <1>6, <1>7, <1>8, <1>9 DEF Abstract!Told

LEMMA FinalizeLeaves ==
  ASSUME NEW f \in Nodes, f \notin MayExit, JoinInv(f), JoinInv(f)', NEW n \in Nodes, Finalize(n)
  PROVE  Abstract!Leave(n)
<1>1. n # f /\ phase[n] = "up" /\ phase[n] # "off"
  BY DEF Finalize
<1>2. PICK t \in Seq(Entry) : t = table[f] /\ t # <<>> /\ t[1].node = f
  <2>1. phase[f] = "up"
    BY <1>1 DEF JoinInv, MasterInv, Running
  <2> QED
    BY <2>1, MasterTable DEF JoinInv, RegisterInv
<1>3. /\ phase'[n] = "off" /\ id'[n] = 0 /\ table'[n] = <<>>
      /\ \A k \in Nodes \ {n} : phase'[k] = phase[k] /\ id'[k] = id[k] /\ table'[k] = table[k]
  BY DEF Finalize, Reset, JoinInv, TypeOK
<1>4. Members = NodesOf(t) /\ Members' = Members
  <2>1. table'[f] = t
    BY <1>1, <1>2, <1>3
  <2> QED
    BY <1>2, <2>1, MembersAre, MembersAreNext
<1>5. Members # <<>> /\ Members[1] = f
  <2>1. Len(t) \in Nat \ {0}
    BY <1>2, EmptySeq
  <2> QED
    BY <1>2, <1>4, <2>1, NodesOfFacts, NodesOfEmpty
<1>6. Names' = [Names EXCEPT ![n] = 0]
  BY <1>3 DEF Names
<1>7. Views' = [Views EXCEPT ![n] = <<>>]
  <2>1. NodesOf(<<>>) = <<>>
    BY NodesOfEmpty, EmptySeq
  <2>2. \A k \in Nodes : NodesOf(table'[k]) = IF k = n THEN <<>> ELSE NodesOf(table[k])
    BY <1>3, <2>1
  <2>3. Views' = [k \in Nodes |-> NodesOf(table'[k])]
    BY DEF Views, NodesOf
  <2> QED
    BY <2>2, <2>3 DEF Views
<1> QED
  BY <1>1, <1>4, <1>5, <1>6, <1>7 DEF Abstract!Leave

LEMMA OthersUnseen ==
  ASSUME NEW f \in Nodes, JoinInv(f), JoinInv(f)', NEW n \in Nodes,
         \/ Start(n) \/ BecomeWorker(n) \/ BecomeMaster(n)
         \/ SendJoinResponse(n) \/ NodeTableBroadcast(n)
         \/ \E k \in Nodes : \/ IgnoreDiscover(n, k) \/ AnswerDiscover(n, k) \/ RecvReply(n, k)
                             \/ AcceptConnection(n, k)
  PROVE  UNCHANGED Abstract!vars
<1>1. table' = table
  BY DEF Start, BecomeWorker, BecomeMaster, SendJoinResponse, NodeTableBroadcast, Announcing,
         IgnoreDiscover, AnswerDiscover, RecvReply, AcceptConnection, nodeVars
<1>2. Names' = Names
  <2>1. CASE Start(n) \/ BecomeWorker(n)
    <3>1. /\ id' = id /\ phase[n] # "addself" /\ phase'[n] # "addself"
          /\ \A k \in Nodes \ {n} : phase'[k] = phase[k]
      BY <2>1 DEF Start, BecomeWorker, JoinInv, TypeOK
    <3> QED
      BY <3>1 DEF Names
  <2>2. CASE BecomeMaster(n)
    <3>1. /\ phase[n] = "waiting" /\ phase'[n] = "addself"
          /\ \A k \in Nodes \ {n} : phase'[k] = phase[k] /\ id'[k] = id[k]
      BY <2>2 DEF BecomeMaster, JoinInv, TypeOK
    <3>2. n = f
      <4>1. role'[n] = "MASTER"
        BY <2>2 DEF BecomeMaster, JoinInv, TypeOK
      <4> QED
        BY <4>1 DEF JoinInv, MasterInv
    <3>3. id[n] = 0
      BY <3>1, <3>2 DEF JoinInv, RegisterInv
    <3> QED
      BY <3>1, <3>3 DEF Names
  <2>3. CASE ~(Start(n) \/ BecomeWorker(n) \/ BecomeMaster(n))
    <3>1. phase' = phase /\ id' = id
      BY <2>3 DEF SendJoinResponse, NodeTableBroadcast, Announcing, IgnoreDiscover,
                  AnswerDiscover, RecvReply, AcceptConnection, nodeVars
    <3> QED
      BY <3>1 DEF Names
  <2> QED
    BY <2>1, <2>2, <2>3
<1> QED
  BY <1>1, <1>2, Unseen

\* Discovery and joining implement the abstract list of members: nodes are entered
\* by dsm_node_table_add one after the other, none twice and none beyond
\* DSM_MAX_NODES, a node's id is its place also after it has left and returned,
\* and what a node knows of the list is its front and only grows while it runs.
THEOREM MembershipRefinement ==
  ASSUME NEW f \in Nodes, Prompt, Early \subseteq {f}, f \notin MayExit
  PROVE  Spec => ImplementsAbstractMembership
<1>1. Init => Abstract!Init
  <2> SUFFICES ASSUME Init PROVE Abstract!Init
    OBVIOUS
  <2>1. NodesOf(<<>>) = <<>>
    BY NodesOfEmpty, EmptySeq
  <2>2. Members = <<>>
    BY DEF Init, Members
  <2>3. Views = [n \in Nodes |-> <<>>]
    BY <2>1 DEF Init, Views
  <2>4. Names = [n \in Nodes |-> 0]
    BY DEF Init, Names
  <2> QED
    BY <2>2, <2>3, <2>4 DEF Abstract!Init
<1>2. JoinInv(f) /\ JoinInv(f)' /\ [Next]_vars => [Abstract!Next]_(Abstract!vars)
  <2> SUFFICES ASSUME JoinInv(f), JoinInv(f)', [Next]_vars
               PROVE  Abstract!Next \/ UNCHANGED Abstract!vars
    OBVIOUS
  <2>1. CASE UNCHANGED vars
    <3>1. table' = table /\ Names' = Names
      BY <2>1 DEF vars, Names
    <3> QED
      BY <3>1, Unseen
  <2>2. ASSUME NEW n \in Nodes, Start(n) \/ InitStep(n) \/ Finalize(n)
        PROVE  Abstract!Next \/ UNCHANGED Abstract!vars
    BY <2>2, AddSelfFounds, FinalizeLeaves, OthersUnseen DEF InitStep, Abstract!Next
  <2>3. ASSUME NEW n \in Nodes, UdpStep(n)
        PROVE  Abstract!Next \/ UNCHANGED Abstract!vars
    BY <2>3, AdmitNodeAdmits, OthersUnseen DEF UdpStep
  <2>4. ASSUME NEW n \in Nodes, TcpStep(n)
        PROVE  Abstract!Next \/ UNCHANGED Abstract!vars
    BY <2>4, OthersUnseen, RecvJoinResponseTells, RecvNodeTableLearns, NoShutdown
       DEF TcpStep, Abstract!Next
  <2> QED
    BY <2>1, <2>2, <2>3, <2>4 DEF Next
<1> QED
  BY <1>1, <1>2, JoinInvariant, PTL DEF Spec, ImplementsAbstractMembership, Abstract!Spec
=============================================================================
