---------------------------- MODULE DsmLockProofs ----------------------------
(***************************************************************************)
(* Proofs about the lock service, for any number of workers and locks.     *)
(***************************************************************************)
EXTENDS DsmLock, FiniteSetTheorems, TLAPS

-----------------------------------------------------------------------------
(* Queues and channels *)

\* Appending to a sequence.
LEMMA AppendFacts ==
  ASSUME NEW S, NEW q \in Seq(S), NEW e \in S
  PROVE  /\ Append(q, e) \in Seq(S)
         /\ Append(q, e) # <<>>
         /\ \A x : Has(Append(q, e), x) <=> Has(q, x) \/ x = e
         /\ Distinct(q) /\ ~Has(q, e) => Distinct(Append(q, e))
         /\ ~Has(q, e) => OnlyLast(Append(q, e), e)
         /\ q = <<>> => Append(q, e) = <<e>>
<1> DEFINE a == Append(q, e)
<1>1. a \in Seq(S) /\ Len(a) = Len(q) + 1
  OBVIOUS
<1>2. (\A i \in 1..Len(q) : a[i] = q[i]) /\ a[Len(q) + 1] = e
  OBVIOUS
<1>3. q = <<>> => a = <<e>>
  OBVIOUS
<1>4. Len(q) \in Nat
  OBVIOUS
<1> HIDE DEF a
<1>5. ASSUME NEW x PROVE Has(a, x) <=> Has(q, x) \/ x = e
  BY <1>1, <1>2, <1>4 DEF Has
<1>6. Distinct(q) /\ ~Has(q, e) => Distinct(a)
  BY <1>1, <1>2, <1>4 DEF Has, Distinct
<1>7. ~Has(q, e) => OnlyLast(a, e)
  BY <1>1, <1>2, <1>4 DEF Has, OnlyLast
<1>8. a # <<>>
  BY <1>1, <1>4
<1> QED
  BY <1>1, <1>3, <1>5, <1>6, <1>7, <1>8 DEF a

\* Taking the first element off a sequence.
LEMMA TailFacts ==
  ASSUME NEW S, NEW q \in Seq(S), q # <<>>
  PROVE  /\ Head(q) \in S
         /\ Tail(q) \in Seq(S)
         /\ Has(q, Head(q))
         /\ \A x : Has(Tail(q), x) => Has(q, x)
         /\ \A x : Has(q, x) => x = Head(q) \/ Has(Tail(q), x)
         /\ Distinct(q) => Distinct(Tail(q)) /\ ~Has(Tail(q), Head(q))
         /\ \A x : OnlyLast(q, x) => OnlyLast(Tail(q), x)
         /\ OnlyLast(q, Head(q)) => Tail(q) = <<>>
<1>1. Head(q) \in S /\ Tail(q) \in Seq(S) /\ Has(q, Head(q))
  BY DEF Has
<1>2. \A x : Has(Tail(q), x) => Has(q, x)
  BY DEF Has
<1>3. ASSUME NEW x, Has(q, x), x # Head(q) PROVE Has(Tail(q), x)
  <2>1. PICK i \in 1..Len(q) : q[i] = x
    BY <1>3 DEF Has
  <2>2. i # 1 /\ i - 1 \in 1..Len(Tail(q)) /\ Tail(q)[i - 1] = x
    BY <1>3, <2>1
  <2> QED
    BY <2>2 DEF Has
<1>4. Distinct(q) => Distinct(Tail(q)) /\ ~Has(Tail(q), Head(q))
  BY DEF Has, Distinct
<1>5. \A x : OnlyLast(q, x) => OnlyLast(Tail(q), x)
  BY DEF OnlyLast
<1>6. OnlyLast(q, Head(q)) => Tail(q) = <<>>
  BY DEF OnlyLast
<1> QED
  BY <1>1, <1>2, <1>3, <1>4, <1>5, <1>6

\* Losing the end of a sequence.
LEMMA PrefixFacts ==
  ASSUME NEW S, NEW q \in Seq(S), NEW k \in 0..Len(q)
  PROVE  /\ SubSeq(q, 1, k) \in Seq(S)
         /\ \A x : Has(SubSeq(q, 1, k), x) => Has(q, x)
         /\ \A x : OnlyLast(q, x) => OnlyLast(SubSeq(q, 1, k), x)
         /\ q = <<>> => SubSeq(q, 1, k) = <<>>
<1>1. SubSeq(q, 1, k) \in Seq(S) /\ Len(SubSeq(q, 1, k)) = k
  OBVIOUS
<1>2. \A i \in 1..k : SubSeq(q, 1, k)[i] = q[i]
  OBVIOUS
<1> QED
  BY <1>1, <1>2 DEF Has, OnlyLast

\* The empty sequence.
LEMMA EmptyFacts == (\A x : ~Has(<<>>, x)) /\ Distinct(<<>>)
BY DEF Has, Distinct
-----------------------------------------------------------------------------
(* Types *)

\* Requests and releases are messages.
LEMMA MessageFacts ==
  ASSUME NEW l \in Locks
  PROVE  /\ Request(l) \in Message /\ Release(l) \in Message
         /\ \A k : Request(l) # Release(k)
         /\ \A k : Request(l) = Request(k) => l = k
         /\ \A k : Release(l) = Release(k) => l = k
BY DEF Request, Release, Message

\* The message at the head of a channel is the request or release it says.
LEMMA HeadFacts ==
  ASSUME TypeOK, NEW w \in Workers, toMaster[w] # <<>>
  PROVE  LET m == Head(toMaster[w])
         IN  /\ m.lock \in Locks
             /\ m.type = "LOCK_REQUEST" => m = Request(m.lock)
             /\ m.type = "LOCK_RELEASE" => m = Release(m.lock)
<1>1. Head(toMaster[w]) \in Message
  BY TailFacts DEF TypeOK
<1> QED
  BY <1>1 DEF Message, Request, Release

\* Sending a grant keeps the channels well-typed.
LEMMA GrantType ==
  ASSUME TypeOK, NEW w \in Workers, NEW l \in Locks, SendGrant(w, l)
  PROVE  toWorker' \in [Workers -> Seq(Locks)]
<1>1. Append(toWorker[w], l) \in Seq(Locks)
  BY AppendFacts DEF TypeOK
<1> QED
  BY <1>1 DEF TypeOK, SendGrant

\* The master's handlers keep its lock array and the channels well-typed.
LEMMA HandlerType ==
  ASSUME TypeOK, NEW from \in Nodes, NEW l \in Locks,
         \/ from \in Workers /\ HandleLockRequest(from, l)
         \/ HandleLockRelease(from, l)
  PROVE  /\ locked' \in [Locks -> BOOLEAN]
         /\ holder_id' \in [Locks -> Nodes \cup {NoNode}]
         /\ waiters' \in [Locks -> Seq(Workers)]
         /\ toWorker' \in [Workers -> Seq(Locks)]
<1>1. CASE from \in Workers /\ HandleLockRequest(from, l)
  <2>1. Append(waiters[l], from) \in Seq(Workers)
    BY <1>1, AppendFacts DEF TypeOK
  <2>2. SendGrant(from, l) => toWorker' \in [Workers -> Seq(Locks)]
    BY <1>1, GrantType
  <2>3. toWorker' \in [Workers -> Seq(Locks)]
    BY <1>1, <2>2 DEF TypeOK, HandleLockRequest
  <2>4. waiters' \in [Locks -> Seq(Workers)]
    BY <1>1, <2>1 DEF TypeOK, HandleLockRequest
  <2>5. locked' \in [Locks -> BOOLEAN]
    BY <1>1 DEF TypeOK, HandleLockRequest
  <2>6. holder_id' \in [Locks -> Nodes \cup {NoNode}]
    BY <1>1 DEF TypeOK, HandleLockRequest
  <2> QED
    BY <2>3, <2>4, <2>5, <2>6
<1>2. CASE HandleLockRelease(from, l)
  <2>1. waiters[l] # <<>> => Head(waiters[l]) \in Workers /\ Tail(waiters[l]) \in Seq(Workers)
    BY TailFacts DEF TypeOK
  <2>2. waiters[l] # <<>> /\ SendGrant(Head(waiters[l]), l)
          => toWorker' \in [Workers -> Seq(Locks)]
    BY <2>1, GrantType
  <2>3. toWorker' \in [Workers -> Seq(Locks)]
    BY <1>2, <2>2 DEF TypeOK, HandleLockRelease
  <2>4. waiters' \in [Locks -> Seq(Workers)]
    BY <1>2, <2>1 DEF TypeOK, HandleLockRelease, masterVars
  <2>5. locked' \in [Locks -> BOOLEAN]
    BY <1>2 DEF TypeOK, HandleLockRelease, masterVars
  <2>6. holder_id' \in [Locks -> Nodes \cup {NoNode}]
    BY <1>2, <2>1, ZenonT(60) DEF TypeOK, HandleLockRelease, masterVars, Nodes
  <2> QED
    BY <2>3, <2>4, <2>5, <2>6
<1> QED
  BY <1>1, <1>2

\* Every step of the lock service keeps the type invariant.
LEMMA TypeStep == TypeOK /\ [Next]_vars => TypeOK'
<1> SUFFICES ASSUME TypeOK, [Next]_vars PROVE TypeOK'
  OBVIOUS
<1> USE LockAssumptions DEF Nodes, PC, masterVars, appVars
<1>1. ASSUME NEW l \in Locks, MasterLock(l) PROVE TypeOK'
  BY <1>1 DEF MasterLock, TypeOK
<1>2. ASSUME NEW l \in Locks, MasterUnlock(l) PROVE TypeOK'
  BY <1>2, HandlerType DEF MasterUnlock, TypeOK
<1>3. ASSUME MasterSleep PROVE TypeOK'
  BY <1>3 DEF MasterSleep, TypeOK
<1>4. ASSUME MasterAcquire PROVE TypeOK'
  BY <1>4 DEF MasterAcquire, TypeOK
<1>5. ASSUME NEW w \in Workers, NEW l \in Locks, WorkerLock(w, l) PROVE TypeOK'
  <2>1. Append(toMaster[w], Request(l)) \in Seq(Message)
    BY AppendFacts, MessageFacts DEF TypeOK
  <2> QED
    BY <1>5, <2>1 DEF WorkerLock, TypeOK
<1>6. ASSUME NEW w \in Workers, NEW l \in Locks, WorkerLockUnlinked(w, l) PROVE TypeOK'
  BY <1>6 DEF WorkerLockUnlinked, TypeOK
<1>7. ASSUME NEW w \in Workers, NEW l \in Locks, WorkerUnlock(w, l) PROVE TypeOK'
  <2>1. Append(toMaster[w], Release(l)) \in Seq(Message)
    BY AppendFacts, MessageFacts DEF TypeOK
  <2> QED
    BY <1>7, <2>1 DEF WorkerUnlock, TypeOK
<1>8. ASSUME NEW w \in Workers, WorkerSleep(w) PROVE TypeOK'
  BY <1>8 DEF WorkerSleep, TypeOK
<1>9. ASSUME NEW w \in Workers, WorkerAcquire(w) PROVE TypeOK'
  BY <1>9 DEF WorkerAcquire, TypeOK
<1>10. ASSUME NEW w \in Workers, WorkerClear(w) PROVE TypeOK'
  BY <1>10 DEF WorkerClear, TypeOK
<1>11. ASSUME NEW w \in Workers, WorkerRecvGrant(w) PROVE TypeOK'
  <2>1. Head(toWorker[w]) \in Locks /\ Tail(toWorker[w]) \in Seq(Locks)
    BY <1>11, TailFacts DEF WorkerRecvGrant, TypeOK
  <2> QED
    BY <1>11, <2>1 DEF WorkerRecvGrant, TypeOK
<1>12. ASSUME NEW w \in Workers, MasterRecv(w) PROVE TypeOK'
  <2>1. toMaster[w] # <<>>
    BY <1>12 DEF MasterRecv, MasterRecvRequest, MasterRecvRelease
  <2>2. Tail(toMaster[w]) \in Seq(Message) /\ Head(toMaster[w]).lock \in Locks
    BY <2>1, TailFacts, HeadFacts DEF TypeOK
  <2>3. toMaster' \in [Workers -> Seq(Message)]
    BY <1>12, <2>2 DEF MasterRecv, MasterRecvRequest, MasterRecvRelease, TypeOK
  <2> QED
    BY <1>12, <2>2, <2>3, HandlerType
    DEF MasterRecv, MasterRecvRequest, MasterRecvRelease, TypeOK
<1>13. ASSUME NEW n \in Nodes, SpuriousWakeup(n) PROVE TypeOK'
  BY <1>13 DEF SpuriousWakeup, TypeOK
<1>14. ASSUME NEW w \in Workers, Crash(w) PROVE TypeOK'
  <2>1. PICK k \in 0..Len(toMaster[w]) :
          toMaster' = [toMaster EXCEPT ![w] = SubSeq(@, 1, k)]
    BY <1>14 DEF Crash
  <2>2. SubSeq(toMaster[w], 1, k) \in Seq(Message)
    BY PrefixFacts DEF TypeOK
  <2>3. toMaster' \in [Workers -> Seq(Message)]
    BY <2>1, <2>2 DEF TypeOK
  <2>4. toWorker' \in [Workers -> Seq(Locks)]
    BY <1>14 DEF Crash, TypeOK
  <2> QED
    BY <1>14, <2>3, <2>4 DEF Crash, TypeOK
<1>15. CASE UNCHANGED vars
  BY <1>15 DEF vars, TypeOK
<1> QED
  BY <1>1, <1>2, <1>3, <1>4, <1>5, <1>6, <1>7, <1>8, <1>9, <1>10, <1>11,
     <1>12, <1>13, <1>14, <1>15
  DEF Next, AppLock, AppUnlock, UnlockStep, AppStep

\* The lock service is type correct in every reachable state.
THEOREM LockTypeCorrect == Spec => []TypeOK
<1>1. Init => TypeOK
  BY LockAssumptions DEF Init, TypeOK, Nodes, PC
<1> QED
  BY <1>1, TypeStep, PTL DEF Spec
-----------------------------------------------------------------------------
(* The inductive invariant: one lemma per action.  Each shows QueueInv and *)
(* MasterInv for every lock, GoneInv for every worker, and PairInv, apart  *)
(* for the worker that moves.                                              *)

\* A queue of distinct workers has room for one that is not in it.
LEMMA Capacity ==
  ASSUME NEW q \in Seq(Workers), Distinct(q)
  PROVE  Len(q) < MaxNodes
<1>1. Len(q) \in Nat /\ q \in [1..Len(q) -> Workers]
  OBVIOUS
<1>2. IsFiniteSet(1..Len(q)) /\ Cardinality(1..Len(q)) = Len(q)
  BY <1>1, FS_Interval, SMTT(30)
<1>3. Cardinality(Workers) \in Nat
  BY LockAssumptions, FS_CardinalityType
<1>4. ~(Cardinality(Workers) < Cardinality(1..Len(q)))
  BY <1>1, <1>2, LockAssumptions, FS_PigeonHole DEF Distinct
<1> QED
  BY <1>1, <1>2, <1>3, <1>4, LockAssumptions

\* The master's application enters dsm_lock.
LEMMA MasterLockInv ==
  ASSUME LockInv, TypeOK', NEW k \in Locks, MasterLock(k)
  PROVE  LockInv'
<1> USE LockAssumptions DEF LockInv, MasterLock, masterVars
<1>1. \A w \in Workers : pc'[w] = pc[w] /\ arg'[w] = arg[w]
  BY DEF TypeOK, Nodes
<1>2. ASSUME NEW l \in Locks PROVE QueueInv(l)'
  BY <1>1 DEF QueueInv, Queued
<1>3. ASSUME NEW l \in Locks PROVE MasterInv(l)'
  BY <1>1 DEF MasterInv
<1>4. ASSUME NEW w \in Workers PROVE GoneInv(w)'
  BY <1>1 DEF GoneInv
<1> USE DEF PairInv, ClaimInv, GrantInv, GrantedInv, HeldInv, RequestInv, QueuedInv,
     WaitInv, Claim, Clearing, Releasing, Requested, Queued, GrantInFlight,
     Waiting, WaitingOrGone
<1>5. ASSUME NEW w \in Workers, NEW l \in Locks PROVE PairInv(w, l)'
  BY <1>1
<1> QED
  BY <1>2, <1>3, <1>4, <1>5

\* The master's application goes to sleep.
LEMMA MasterSleepInv ==
  ASSUME LockInv, TypeOK', MasterSleep
  PROVE  LockInv'
<1> USE LockAssumptions DEF LockInv, MasterSleep, masterVars
<1>1. \A w \in Workers : pc'[w] = pc[w] /\ arg'[w] = arg[w]
  BY DEF TypeOK, Nodes
<1>2. ASSUME NEW l \in Locks PROVE QueueInv(l)'
  BY <1>1 DEF QueueInv, Queued
<1>3. ASSUME NEW l \in Locks PROVE MasterInv(l)'
  BY <1>1 DEF MasterInv
<1>4. ASSUME NEW w \in Workers PROVE GoneInv(w)'
  BY <1>1 DEF GoneInv
<1> USE DEF PairInv, ClaimInv, GrantInv, GrantedInv, HeldInv, RequestInv, QueuedInv,
     WaitInv, Claim, Clearing, Releasing, Requested, Queued, GrantInFlight,
     Waiting, WaitingOrGone
<1>5. ASSUME NEW w \in Workers, NEW l \in Locks PROVE PairInv(w, l)'
  BY <1>1
<1> QED
  BY <1>2, <1>3, <1>4, <1>5

\* The master's application takes a lock: no worker has a claim to it.
LEMMA MasterAcquireInv ==
  ASSUME LockInv, TypeOK', MasterAcquire
  PROVE  LockInv'
<1> USE LockAssumptions DEF LockInv, MasterAcquire, masterVars
<1>1. /\ \A w \in Workers : pc'[w] = pc[w] /\ held'[w] = held[w]
      /\ held'[Master] = held[Master] \cup {arg[Master]} /\ arg[Master] \in Locks
  BY DEF TypeOK, Nodes
<1>2. \A l \in Locks : /\ locked'[l] <=> (l = arg[Master] \/ locked[l])
                       /\ holder_id'[l] = IF l = arg[Master] THEN Master ELSE holder_id[l]
  BY <1>1 DEF TypeOK
<1>3. \A w \in Workers : ~Claim(w, arg[Master])
  BY <1>1 DEF PairInv, ClaimInv
<1>4. ASSUME NEW l \in Locks PROVE QueueInv(l)'
  BY <1>1, <1>2, <1>3 DEF QueueInv, Queued
<1>5. ASSUME NEW l \in Locks PROVE MasterInv(l)'
  BY <1>1, <1>2, <1>3 DEF MasterInv
<1>6. ASSUME NEW w \in Workers PROVE GoneInv(w)'
  BY <1>1, <1>2, <1>3 DEF GoneInv
<1> USE DEF PairInv, ClaimInv, GrantInv, GrantedInv, HeldInv, RequestInv, QueuedInv,
     WaitInv, Claim, Clearing, Releasing, Requested, Queued, GrantInFlight,
     Waiting, WaitingOrGone
<1>7. ASSUME NEW w \in Workers, NEW l \in Locks PROVE PairInv(w, l)'
  BY <1>1, <1>2, <1>3
<1> QED
  BY <1>4, <1>5, <1>6, <1>7

\* A worker sends a request for a lock it does not hold.
LEMMA WorkerLockInv ==
  ASSUME LockInv, TypeOK', NEW v \in Workers, NEW k \in Locks, k \notin held[v],
         WorkerLock(v, k)
  PROVE  LockInv'
<1> USE LockAssumptions DEF LockInv, WorkerLock, masterVars, Nodes
<1>1. /\ v # Master /\ pc'[v] = "check" /\ arg'[v] = k
      /\ \A w \in Workers \ {v} : pc'[w] = pc[w] /\ arg'[w] = arg[w] /\ toMaster'[w] = toMaster[w]
  BY DEF TypeOK
<1>2. /\ \A x : Has(toMaster'[v], x) <=> Has(toMaster[v], x) \/ x = Request(k)
      /\ ~Has(toMaster[v], Request(k)) => OnlyLast(toMaster'[v], Request(k))
  BY AppendFacts, MessageFacts DEF TypeOK
<1>3. ASSUME NEW l \in Locks PROVE QueueInv(l)'
  BY <1>1, <1>2 DEF QueueInv, Queued
<1>4. ASSUME NEW l \in Locks PROVE MasterInv(l)'
  BY <1>1, <1>2 DEF MasterInv
<1>5. ASSUME NEW w \in Workers PROVE GoneInv(w)'
  BY <1>1, <1>2 DEF GoneInv
<1> USE DEF PairInv, ClaimInv, GrantInv, GrantedInv, HeldInv, RequestInv, QueuedInv,
     WaitInv, Claim, Clearing, Releasing, Requested, Queued, GrantInFlight,
     Waiting, WaitingOrGone
<1>6. ASSUME NEW w \in Workers, NEW l \in Locks, w # v PROVE PairInv(w, l)'
  BY <1>1, <1>2, <1>6
<1>7. ASSUME NEW l \in Locks PROVE PairInv(v, l)'
  BY <1>1, <1>2, MessageFacts
<1> QED
  BY <1>3, <1>4, <1>5, <1>6, <1>7

\* A worker without a connection believes it has the lock.
LEMMA WorkerLockUnlinkedInv ==
  ASSUME LockInv, TypeOK', NEW v \in Workers, NEW k \in Locks, WorkerLockUnlinked(v, k)
  PROVE  LockInv'
<1> USE LockAssumptions DEF LockInv, WorkerLockUnlinked, masterVars, Nodes
<1>1. /\ held'[v] = held[v] \cup {k}
      /\ \A n \in Nodes \ {v} : held'[n] = held[n]
  BY DEF TypeOK
<1>2. ASSUME NEW l \in Locks PROVE QueueInv(l)'
  BY <1>1 DEF QueueInv, Queued
<1>3. ASSUME NEW l \in Locks PROVE MasterInv(l)'
  BY <1>1 DEF MasterInv
<1>4. ASSUME NEW w \in Workers PROVE GoneInv(w)'
  BY <1>1 DEF GoneInv
<1> USE DEF PairInv, ClaimInv, GrantInv, GrantedInv, HeldInv, RequestInv, QueuedInv,
     WaitInv, Claim, Clearing, Releasing, Requested, Queued, GrantInFlight,
     Waiting, WaitingOrGone
<1>5. ASSUME NEW w \in Workers, NEW l \in Locks, w # v PROVE PairInv(w, l)'
  BY <1>1, <1>5
<1>6. ASSUME NEW l \in Locks PROVE PairInv(v, l)'
  BY <1>1
<1> QED
  BY <1>2, <1>3, <1>4, <1>5, <1>6

\* A worker goes to sleep.
LEMMA WorkerSleepInv ==
  ASSUME LockInv, TypeOK', NEW v \in Workers, WorkerSleep(v)
  PROVE  LockInv'
<1> USE LockAssumptions DEF LockInv, WorkerSleep, masterVars, Nodes
<1>1. pc'[v] = "asleep" /\ \A w \in Workers \ {v} : pc'[w] = pc[w]
  BY DEF TypeOK
<1>2. ASSUME NEW l \in Locks PROVE QueueInv(l)'
  BY <1>1 DEF QueueInv, Queued
<1>3. ASSUME NEW l \in Locks PROVE MasterInv(l)'
  BY <1>1 DEF MasterInv
<1>4. ASSUME NEW w \in Workers PROVE GoneInv(w)'
  BY <1>1 DEF GoneInv
<1> USE DEF PairInv, ClaimInv, GrantInv, GrantedInv, HeldInv, RequestInv, QueuedInv,
     WaitInv, Claim, Clearing, Releasing, Requested, Queued, GrantInFlight,
     Waiting, WaitingOrGone
<1>5. ASSUME NEW w \in Workers, NEW l \in Locks, w # v PROVE PairInv(w, l)'
  BY <1>1, <1>5
<1>6. ASSUME NEW l \in Locks PROVE PairInv(v, l)'
  BY <1>1
<1> QED
  BY <1>2, <1>3, <1>4, <1>5, <1>6

\* A worker returns from dsm_lock.
LEMMA WorkerAcquireInv ==
  ASSUME LockInv, TypeOK', NEW v \in Workers, WorkerAcquire(v)
  PROVE  LockInv'
<1> USE LockAssumptions DEF LockInv, WorkerAcquire, masterVars, Nodes
<1>1. /\ pc'[v] = "idle" /\ held'[v] = held[v] \cup {arg[v]}
      /\ \A n \in Nodes \ {v} : pc'[n] = pc[n] /\ held'[n] = held[n]
  BY DEF TypeOK
<1>2. ASSUME NEW l \in Locks PROVE QueueInv(l)'
  BY <1>1 DEF QueueInv, Queued
<1>3. ASSUME NEW l \in Locks PROVE MasterInv(l)'
  BY <1>1 DEF MasterInv
<1>4. ASSUME NEW w \in Workers PROVE GoneInv(w)'
  BY <1>1 DEF GoneInv
<1> USE DEF PairInv, ClaimInv, GrantInv, GrantedInv, HeldInv, RequestInv, QueuedInv,
     WaitInv, Claim, Clearing, Releasing, Requested, Queued, GrantInFlight,
     Waiting, WaitingOrGone
<1>5. ASSUME NEW w \in Workers, NEW l \in Locks, w # v PROVE PairInv(w, l)'
  BY <1>1, <1>5
<1>6. ASSUME NEW l \in Locks PROVE PairInv(v, l)'
  BY <1>1
<1> QED
  BY <1>2, <1>3, <1>4, <1>5, <1>6

\* A worker sends a release.
LEMMA WorkerUnlockInv ==
  ASSUME LockInv, TypeOK', NEW v \in Workers, NEW k \in Locks, WorkerUnlock(v, k)
  PROVE  LockInv'
<1> USE LockAssumptions DEF LockInv, WorkerUnlock, masterVars, Nodes
<1>1. /\ v # Master /\ pc'[v] = "clear" /\ arg'[v] = k /\ held'[v] = held[v] \ {k}
      /\ held'[Master] = held[Master]
      /\ \A w \in Workers \ {v} : /\ pc'[w] = pc[w] /\ arg'[w] = arg[w]
                                  /\ held'[w] = held[w] /\ toMaster'[w] = toMaster[w]
  BY DEF TypeOK
<1>2. \A x : Has(toMaster'[v], x) => Has(toMaster[v], x) \/ x = Release(k)
  BY AppendFacts, MessageFacts DEF TypeOK
<1>3. ASSUME NEW l \in Locks PROVE QueueInv(l)'
  BY <1>1, <1>2 DEF QueueInv, Queued
<1>4. ASSUME NEW l \in Locks PROVE MasterInv(l)'
  BY <1>1, <1>2 DEF MasterInv
<1>5. ASSUME NEW w \in Workers PROVE GoneInv(w)'
  BY <1>1, <1>2 DEF GoneInv
<1> USE DEF PairInv, ClaimInv, GrantInv, GrantedInv, HeldInv, RequestInv, QueuedInv,
     WaitInv, Claim, Clearing, Releasing, Requested, Queued, GrantInFlight,
     Waiting, WaitingOrGone
<1>6. ASSUME NEW w \in Workers, NEW l \in Locks, w # v PROVE PairInv(w, l)'
  BY <1>1, <1>2, <1>6
<1>7. ASSUME NEW l \in Locks PROVE PairInv(v, l)'
  BY <1>1, <1>2, MessageFacts
<1> QED
  BY <1>3, <1>4, <1>5, <1>6, <1>7

\* A worker clears its local entry.
LEMMA WorkerClearInv ==
  ASSUME LockInv, TypeOK', NEW v \in Workers, WorkerClear(v)
  PROVE  LockInv'
<1> USE LockAssumptions DEF LockInv, WorkerClear, masterVars, Nodes
<1>1. /\ pc'[v] = "idle" /\ granted'[v] = granted[v] \ {arg[v]}
      /\ \A w \in Workers \ {v} : pc'[w] = pc[w] /\ granted'[w] = granted[w]
  BY DEF TypeOK
<1>2. ASSUME NEW l \in Locks PROVE QueueInv(l)'
  BY <1>1 DEF QueueInv, Queued
<1>3. ASSUME NEW l \in Locks PROVE MasterInv(l)'
  BY <1>1 DEF MasterInv
<1>4. ASSUME NEW w \in Workers PROVE GoneInv(w)'
  BY <1>1 DEF GoneInv
<1> USE DEF PairInv, ClaimInv, GrantInv, GrantedInv, HeldInv, RequestInv, QueuedInv,
     WaitInv, Claim, Clearing, Releasing, Requested, Queued, GrantInFlight,
     Waiting, WaitingOrGone
<1>5. ASSUME NEW w \in Workers, NEW l \in Locks, w # v PROVE PairInv(w, l)'
  BY <1>1, <1>5
<1>6. ASSUME NEW l \in Locks PROVE PairInv(v, l)'
  BY <1>1
<1> QED
  BY <1>2, <1>3, <1>4, <1>5, <1>6

\* A worker receives a grant.
LEMMA WorkerRecvGrantInv ==
  ASSUME LockInv, TypeOK', NEW v \in Workers, WorkerRecvGrant(v)
  PROVE  LockInv'
<1> USE LockAssumptions DEF LockInv, WorkerRecvGrant, masterVars, Nodes
<1>1. PICK k \in Locks : k = Head(toWorker[v])
  BY TailFacts DEF TypeOK
<1>2. /\ Has(toWorker[v], k) /\ toWorker[v] = <<k>>
  BY <1>1, TailFacts DEF TypeOK, PairInv, GrantInv, GrantInFlight
<1>3. /\ pc[v] # "crashed" /\ Waiting(v, k) /\ k \notin granted[v] /\ Claim(v, k)
      /\ \A l \in Locks : Has(toWorker[v], l) => l = k
  BY <1>2 DEF PairInv, GrantInv, GrantInFlight, Claim, Waiting
<1>4. /\ toWorker'[v] = <<>> /\ granted'[v] = granted[v] \cup {k}
      /\ pc'[v] = "check" /\ arg[v] = k
      /\ \A w \in Workers \ {v} : /\ pc'[w] = pc[w] /\ granted'[w] = granted[w]
                                  /\ toWorker'[w] = toWorker[w]
  BY <1>1, <1>2, <1>3 DEF TypeOK, Waiting
<1>5. ASSUME NEW l \in Locks PROVE QueueInv(l)'
  BY <1>1, <1>2, <1>3, <1>4 DEF QueueInv, Queued
<1>6. ASSUME NEW l \in Locks PROVE MasterInv(l)'
  BY <1>1, <1>2, <1>3, <1>4 DEF MasterInv
<1>7. ASSUME NEW w \in Workers PROVE GoneInv(w)'
  BY <1>1, <1>2, <1>3, <1>4 DEF GoneInv
<1> USE DEF PairInv, ClaimInv, GrantInv, GrantedInv, HeldInv, RequestInv, QueuedInv,
     WaitInv, Claim, Clearing, Releasing, Requested, Queued, GrantInFlight,
     Waiting, WaitingOrGone
<1>8. ASSUME NEW w \in Workers, NEW l \in Locks, w # v PROVE PairInv(w, l)'
  BY <1>1, <1>2, <1>3, <1>4, <1>8
<1>9. ASSUME NEW l \in Locks PROVE PairInv(v, l)'
  <2>1. CASE l = k
    <3>1. ClaimInv(v, k)'
      BY <1>1, <1>2, <1>3, <1>4
    <3>3. GrantInv(v, k)'
      BY <1>1, <1>2, <1>3, <1>4, EmptyFacts
    <3>4. GrantedInv(v, k)' /\ HeldInv(v, k)'
      BY <1>1, <1>2, <1>3, <1>4
    <3>2. RequestInv(v, k)' /\ QueuedInv(v, k)' /\ WaitInv(v, k)'
      BY <1>1, <1>2, <1>3, <1>4, EmptyFacts
    <3> QED
      BY <2>1, <3>1, <3>2, <3>3, <3>4
  <2>2. CASE l # k
    BY <1>1, <1>2, <1>3, <1>4, EmptyFacts, <2>2
  <2> QED
    BY <2>1, <2>2
<1> QED
  BY <1>5, <1>6, <1>7, <1>8, <1>9

\* A condition variable wakes up spuriously.
LEMMA SpuriousWakeupInv ==
  ASSUME LockInv, TypeOK', NEW v \in Nodes, SpuriousWakeup(v)
  PROVE  LockInv'
<1> USE LockAssumptions DEF LockInv, SpuriousWakeup, masterVars
<1>1. \A w \in Workers : pc'[w] = IF w = v THEN "check" ELSE pc[w]
  BY DEF TypeOK, Nodes
<1>2. ASSUME NEW l \in Locks PROVE QueueInv(l)'
  BY <1>1 DEF QueueInv, Queued
<1>3. ASSUME NEW l \in Locks PROVE MasterInv(l)'
  BY <1>1 DEF MasterInv
<1>4. ASSUME NEW w \in Workers PROVE GoneInv(w)'
  BY <1>1 DEF GoneInv
<1> USE DEF PairInv, ClaimInv, GrantInv, GrantedInv, HeldInv, RequestInv, QueuedInv,
     WaitInv, Claim, Clearing, Releasing, Requested, Queued, GrantInFlight,
     Waiting, WaitingOrGone
<1>5. ASSUME NEW w \in Workers, NEW l \in Locks PROVE PairInv(w, l)'
  BY <1>1
<1> QED
  BY <1>2, <1>3, <1>4, <1>5

\* A worker crashes.
LEMMA CrashInv ==
  ASSUME LockInv, TypeOK', NEW v \in Workers, Crash(v)
  PROVE  LockInv'
<1> USE LockAssumptions DEF LockInv, Crash, masterVars, Nodes
<1>1. PICK k \in 0..Len(toMaster[v]) :
        toMaster' = [toMaster EXCEPT ![v] = SubSeq(@, 1, k)]
  OBVIOUS
<1>2. /\ v # Master /\ pc'[v] = "crashed" /\ held'[v] = {} /\ granted'[v] = {}
      /\ toWorker'[v] = <<>> /\ held'[Master] = held[Master]
      /\ \A w \in Workers \ {v} : /\ pc'[w] = pc[w] /\ held'[w] = held[w]
                                  /\ granted'[w] = granted[w] /\ toWorker'[w] = toWorker[w]
                                  /\ toMaster'[w] = toMaster[w]
  BY <1>1 DEF TypeOK
<1>3. /\ \A x : Has(toMaster'[v], x) => Has(toMaster[v], x)
      /\ \A x : OnlyLast(toMaster[v], x) => OnlyLast(toMaster'[v], x)
      /\ toMaster[v] = <<>> => toMaster'[v] = <<>>
  BY <1>1, PrefixFacts DEF TypeOK
<1>4. ASSUME NEW l \in Locks PROVE QueueInv(l)'
  BY <1>1, <1>2, <1>3 DEF QueueInv, Queued
<1>5. ASSUME NEW l \in Locks PROVE MasterInv(l)'
  BY <1>1, <1>2, <1>3 DEF MasterInv
<1>6. ASSUME NEW w \in Workers PROVE GoneInv(w)'
  BY <1>1, <1>2, <1>3 DEF GoneInv
<1> USE DEF PairInv, ClaimInv, GrantInv, GrantedInv, HeldInv, RequestInv, QueuedInv,
     WaitInv, Claim, Clearing, Releasing, Requested, Queued, GrantInFlight,
     Waiting, WaitingOrGone
<1>7. ASSUME NEW w \in Workers, NEW l \in Locks, w # v PROVE PairInv(w, l)'
  BY <1>1, <1>2, <1>3, <1>7
<1>8. ASSUME NEW l \in Locks PROVE PairInv(v, l)'
  BY <1>1, <1>2, <1>3, EmptyFacts
<1> QED
  BY <1>4, <1>5, <1>6, <1>7, <1>8, SMTT(30)

\* A step that leaves alone what a worker's part of LockInv speaks of.
LEMMA PairUnchanged ==
  ASSUME NEW w \in Workers, NEW l \in Locks, PairInv(w, l),
         pc'[w] = pc[w], arg'[w] = arg[w], held'[w] = held[w],
         granted'[w] = granted[w], toWorker'[w] = toWorker[w],
         Requested(w, l)' <=> Requested(w, l),
         OnlyLast(toMaster[w], Request(l)) => OnlyLast(toMaster'[w], Request(l)),
         Releasing(w, l)' => Releasing(w, l),
         toMaster[w] = <<>> => toMaster'[w] = <<>>,
         Queued(w, l)' <=> Queued(w, l),
         Claim(w, l) => locked'[l] /\ holder_id'[l] = w
  PROVE  PairInv(w, l)'
<1>1. /\ GrantInFlight(w, l)' <=> GrantInFlight(w, l)
      /\ Waiting(w, l)' <=> Waiting(w, l)
      /\ Clearing(w, l)' <=> Clearing(w, l)
      /\ WaitingOrGone(w, l)' <=> WaitingOrGone(w, l)
      /\ Claim(w, l)' <=> Claim(w, l)
  BY DEF GrantInFlight, Waiting, Clearing, WaitingOrGone, Claim
<1>2. ClaimInv(w, l)' /\ GrantInv(w, l)' /\ GrantedInv(w, l)' /\ HeldInv(w, l)'
  BY <1>1 DEF PairInv, ClaimInv, GrantInv, GrantedInv, HeldInv
<1>3. RequestInv(w, l)' /\ QueuedInv(w, l)' /\ WaitInv(w, l)'
  BY <1>1 DEF PairInv, RequestInv, QueuedInv, WaitInv
<1> QED
  BY <1>2, <1>3 DEF PairInv

\* The effect of SendGrant(u, k) on the connections.
GrantSent(u, k) ==
  /\ toWorker[u] = <<>>
  /\ pc[u] = "crashed" => toWorker'[u] = <<>>
  /\ pc[u] # "crashed" =>
       /\ toWorker'[u] = <<k>> /\ Waiting(u, k) /\ k \notin granted[u]
       /\ \A x : Has(toWorker'[u], x) <=> x = k
  /\ \A w \in Workers \ {u} : toWorker'[w] = toWorker[w]

\* A grant goes to a worker that waits for it and has no other on its way.
LEMMA GrantFacts ==
  ASSUME LockInv, NEW u \in Workers, NEW k \in Locks, SendGrant(u, k),
         WaitingOrGone(u, k), ~Claim(u, k)
  PROVE  GrantSent(u, k)
<1>1. toWorker[u] = <<>>
  <2>1. CASE pc[u] = "crashed"
    BY <2>1 DEF LockInv, GoneInv
  <2>2. CASE pc[u] # "crashed"
    <3>1. SUFFICES ASSUME toWorker[u] # <<>> PROVE FALSE
      OBVIOUS
    <3>2. PICK l \in Locks : Has(toWorker[u], l)
      BY <3>1, TailFacts DEF LockInv, TypeOK
    <3>3. Waiting(u, l)
      BY <3>2 DEF LockInv, PairInv, GrantInv, GrantInFlight
    <3>4. l = k
      BY <2>2, <3>3 DEF Waiting, WaitingOrGone
    <3> QED
      BY <3>2, <3>4 DEF Claim, GrantInFlight
  <2> QED
    BY <2>1, <2>2
<1>2. /\ Append(toWorker[u], k) = <<k>>
      /\ \A x : Has(Append(toWorker[u], k), x) <=> x = k
  <2>1. toWorker[u] \in Seq(Locks)
    BY DEF LockInv, TypeOK
  <2>2. Append(toWorker[u], k) = <<k>>
    BY <1>1, <2>1, AppendFacts
  <2>3. \A x : Has(Append(toWorker[u], k), x) <=> Has(toWorker[u], x) \/ x = k
    BY <2>1, AppendFacts
  <2>4. \A x : ~Has(toWorker[u], x)
    BY <1>1, EmptyFacts
  <2> QED
    BY <2>2, <2>3, <2>4
<1>3. pc[u] # "crashed" => Waiting(u, k) /\ k \notin granted[u]
  BY DEF WaitingOrGone, Waiting, Claim, Clearing
<1>4. pc[u] = "crashed" => toWorker'[u] = <<>>
  BY <1>1 DEF SendGrant
<1>5. pc[u] # "crashed" => toWorker'[u] = Append(toWorker[u], k)
  BY DEF SendGrant, LockInv, TypeOK
<1>6. \A w \in Workers \ {u} : toWorker'[w] = toWorker[w]
  BY DEF SendGrant, LockInv, TypeOK
<1> QED
  BY <1>1, <1>2, <1>3, <1>4, <1>5, <1>6 DEF GrantSent

\* The master receives a request: it is the last message of its sender, who is
\* not in the queue and has no claim, and it becomes a grant or a queue entry.
LEMMA MasterRecvRequestInv ==
  ASSUME LockInv, TypeOK', NEW v \in Workers, MasterRecvRequest(v)
  PROVE  LockInv'
<1>a. ASSUME NEW k \in Locks, SendGrant(v, k), WaitingOrGone(v, k), ~Claim(v, k)
      PROVE  GrantSent(v, k)
  BY <1>a, GrantFacts
<1> USE LockAssumptions DEF LockInv, Nodes, masterVars, appVars
<1>1. PICK k \in Locks : /\ Head(toMaster[v]) = Request(k)
                         /\ HandleLockRequest(v, k)
  BY HeadFacts DEF MasterRecvRequest
<1>2. /\ toMaster'[v] = Tail(toMaster[v])
      /\ \A w \in Workers \ {v} : toMaster'[w] = toMaster[w]
      /\ pc' = pc /\ arg' = arg /\ held' = held /\ granted' = granted
      /\ toMaster[v] # <<>>
  BY DEF TypeOK, MasterRecvRequest
<1>3. Requested(v, k) /\ WaitingOrGone(v, k) /\ toMaster'[v] = <<>>
  <2>1. Requested(v, k)
    BY <1>1, <1>2, TailFacts DEF TypeOK, Requested
  <2>2. WaitingOrGone(v, k) /\ OnlyLast(toMaster[v], Request(k))
    BY <2>1 DEF PairInv, RequestInv
  <2> QED
    BY <1>1, <1>2, <2>1, <2>2, TailFacts DEF TypeOK
<1>4. ~Queued(v, k) /\ ~Claim(v, k)
  BY <1>2, <1>3 DEF PairInv, QueuedInv, ClaimInv
<1>5. ASSUME NEW w \in Workers PROVE w # v => toMaster'[w] = toMaster[w]
  BY <1>2
<1>6. CASE ~locked[k]
  <2>1. /\ locked'[k] /\ holder_id'[k] = v /\ waiters' = waiters /\ SendGrant(v, k)
        /\ \A l \in Locks \ {k} : locked'[l] = locked[l] /\ holder_id'[l] = holder_id[l]
    BY <1>1, <1>6 DEF HandleLockRequest, TypeOK
  <2>2. /\ toWorker[v] = <<>>
        /\ pc[v] = "crashed" => toWorker'[v] = <<>>
        /\ pc[v] # "crashed" =>
             /\ toWorker'[v] = <<k>> /\ Waiting(v, k) /\ k \notin granted[v]
             /\ \A x : Has(toWorker'[v], x) <=> x = k
        /\ \A w \in Workers \ {v} : toWorker'[w] = toWorker[w]
    BY <1>a, <2>1, <1>3, <1>4 DEF GrantSent
  <2>3. ASSUME NEW l \in Locks PROVE QueueInv(l)'
    BY <2>1 DEF QueueInv
  <2>4. ASSUME NEW l \in Locks PROVE MasterInv(l)'
    BY <1>2, <1>6, <2>1 DEF MasterInv
  <2>5. ASSUME NEW w \in Workers PROVE GoneInv(w)'
    BY <1>2, <2>2 DEF GoneInv
  <2> USE DEF PairInv, ClaimInv, GrantInv, GrantedInv, HeldInv, RequestInv, QueuedInv,
     WaitInv, Claim, Clearing, Releasing, Requested, Queued, GrantInFlight,
     Waiting, WaitingOrGone
  <2>6. ASSUME NEW w \in Workers, NEW l \in Locks, w # v PROVE PairInv(w, l)'
    <3>1. CASE l = k
      BY <1>2, <1>6, <2>1, <2>2, <2>6, <3>1
    <3>2. CASE l # k
      BY <1>2, <2>1, <2>2, <2>6, <3>2
    <3> QED
      BY <3>1, <3>2
  <2>7. PairInv(v, k)'
    <3>1. CASE pc[v] = "crashed"
      BY <1>2, <1>3, <1>4, <2>1, <2>2, <3>1, EmptyFacts DEF GoneInv
    <3>2. CASE pc[v] # "crashed"
      BY <1>2, <1>3, <1>4, <2>1, <2>2, <3>2, EmptyFacts
    <3> QED
      BY <3>1, <3>2
  <2>8. ASSUME NEW l \in Locks, l # k PROVE PairInv(v, l)'
    <3>1. CASE pc[v] = "crashed"
      BY <1>2, <1>3, <2>1, <2>2, <2>8, <3>1, EmptyFacts DEF GoneInv
    <3>2. CASE pc[v] # "crashed"
      BY <1>2, <1>3, <2>1, <2>2, <2>8, <3>2, EmptyFacts
    <3> QED
      BY <3>1, <3>2
  <2> QED
    BY <2>3, <2>4, <2>5, <2>6, <2>7, <2>8
<1>7. CASE locked[k]
  <2>1. Len(waiters[k]) < MaxNodes
    BY Capacity DEF TypeOK, QueueInv
  <2>2. /\ locked' = locked /\ holder_id' = holder_id /\ toWorker' = toWorker
        /\ waiters'[k] = Append(waiters[k], v)
        /\ \A l \in Locks \ {k} : waiters'[l] = waiters[l]
    BY <1>1, <1>7, <2>1 DEF HandleLockRequest, TypeOK
  <2>3. /\ \A x : Has(waiters'[k], x) <=> Has(waiters[k], x) \/ x = v
        /\ Distinct(waiters'[k])
    BY <1>4, <2>2, AppendFacts DEF TypeOK, QueueInv, Queued
  <2>4. ASSUME NEW l \in Locks PROVE QueueInv(l)'
    BY <1>7, <2>2, <2>3 DEF QueueInv
  <2>5. ASSUME NEW l \in Locks PROVE MasterInv(l)'
    BY <1>2, <2>2 DEF MasterInv
  <2>6. ASSUME NEW w \in Workers PROVE GoneInv(w)'
    BY <1>2, <2>2 DEF GoneInv
  <2>7. ASSUME NEW w \in Workers, NEW l \in Locks, w # v PROVE PairInv(w, l)'
    <3>1. toMaster'[w] = toMaster[w]
      BY <1>2, <2>7
    <3>2. /\ Requested(w, l)' <=> Requested(w, l)
          /\ Releasing(w, l)' <=> Releasing(w, l)
      BY <3>1 DEF Requested, Releasing
    <3>3. Queued(w, l)' <=> Queued(w, l)
      BY <2>2, <2>3, <2>7 DEF Queued
    <3>4. Claim(w, l) => locked'[l] /\ holder_id'[l] = w
      BY <2>2 DEF PairInv, ClaimInv
    <3> QED
      BY <1>2, <2>2, <3>1, <3>2, <3>3, <3>4, PairUnchanged
  <2>8. ASSUME NEW l \in Locks PROVE PairInv(v, l)'
    <3>1. /\ ~Requested(v, l)' /\ ~Releasing(v, l)'
          /\ Queued(v, l)' <=> Queued(v, l) \/ l = k
      <4>1. ~Requested(v, l)' /\ ~Releasing(v, l)'
        BY <1>3, EmptyFacts DEF Requested, Releasing
      <4>2. CASE l = k
        BY <2>3, <4>1, <4>2 DEF Queued
      <4>3. CASE l # k
        BY <2>2, <4>1, <4>3 DEF Queued
      <4> QED
        BY <4>2, <4>3
    <3>2. /\ GrantInFlight(v, l)' <=> GrantInFlight(v, l)
          /\ Waiting(v, l)' <=> Waiting(v, l)
          /\ Clearing(v, l)' <=> Clearing(v, l)
          /\ WaitingOrGone(v, l)' <=> WaitingOrGone(v, l)
          /\ Claim(v, l)' <=> Claim(v, l)
      BY <1>2, <2>2 DEF GrantInFlight, Waiting, Clearing, WaitingOrGone, Claim
    <3>3. Waiting(v, l) => l = k
      BY <1>3 DEF Waiting, WaitingOrGone
    <3>4. ClaimInv(v, l)' /\ GrantInv(v, l)' /\ GrantedInv(v, l)' /\ HeldInv(v, l)'
      BY <1>2, <1>4, <2>2, <3>1, <3>2
      DEF PairInv, ClaimInv, GrantInv, GrantedInv, HeldInv
    <3>5. RequestInv(v, l)' /\ QueuedInv(v, l)'
      BY <1>3, <3>1, <3>2 DEF PairInv, RequestInv, QueuedInv
    <3>6. WaitInv(v, l)'
      BY <1>2, <3>1, <3>2, <3>3 DEF PairInv, WaitInv
    <3> QED
      BY <3>4, <3>5, <3>6 DEF PairInv
  <2> QED
    BY <2>4, <2>5, <2>6, <2>7, <2>8
<1> QED
  BY <1>6, <1>7

\* The master handles a release, of its own application or from a worker.  The
\* releaser has no claim any more, so nobody has; the lock passes to the first
\* in the queue or becomes free.
LEMMA ReleaseInv ==
  ASSUME LockInv, TypeOK', NEW from \in Nodes, NEW k \in Locks,
         HandleLockRelease(from, k),
         pc' = pc, arg' = arg, granted' = granted,
         \A w \in Workers : held'[w] = held[w],
         held'[Master] \subseteq held[Master],
         \A w \in Workers :
           /\ \A x : Has(toMaster'[w], x) => Has(toMaster[w], x)
           /\ \A x : Has(toMaster[w], x) => Has(toMaster'[w], x) \/ x = Release(k)
           /\ \A x : OnlyLast(toMaster[w], x) => OnlyLast(toMaster'[w], x)
           /\ toMaster[w] = <<>> => toMaster'[w] = <<>>,
         from \in Workers => ~Claim(from, k),
         from = Master => k \notin held'[Master]
  PROVE  LockInv'
<1>a. ASSUME NEW u \in Workers, SendGrant(u, k), WaitingOrGone(u, k), ~Claim(u, k)
      PROVE  GrantSent(u, k)
  BY <1>a, GrantFacts
<1> USE LockAssumptions DEF LockInv, Nodes, masterVars
<1>0. ASSUME NEW w \in Workers, NEW l \in Locks,
             toWorker'[w] = toWorker[w],
             Queued(w, l)' <=> Queued(w, l),
             Claim(w, l) => locked'[l] /\ holder_id'[l] = w
      PROVE  PairInv(w, l)'
  <2>1. Request(l) # Release(k)
    BY MessageFacts
  <2>2. Requested(w, l)' <=> Requested(w, l)
    BY <2>1 DEF Requested
  <2>3. Releasing(w, l)' => Releasing(w, l)
    BY DEF Releasing
  <2>4. held'[w] = held[w]
    OBVIOUS
  <2> QED
    BY <1>0, <2>2, <2>3, <2>4, PairUnchanged
<1>1. CASE ~locked[k] \/ holder_id[k] # from
  <2>1. /\ locked' = locked /\ holder_id' = holder_id
        /\ waiters' = waiters /\ toWorker' = toWorker
    BY <1>1 DEF HandleLockRelease
  <2>2. ASSUME NEW l \in Locks PROVE QueueInv(l)' /\ MasterInv(l)'
    BY <2>1 DEF QueueInv, MasterInv
  <2>3. ASSUME NEW w \in Workers PROVE GoneInv(w)'
    BY <2>1 DEF GoneInv
  <2>4. ASSUME NEW w \in Workers, NEW l \in Locks PROVE PairInv(w, l)'
    <3>1. Queued(w, l)' <=> Queued(w, l)
      BY <2>1 DEF Queued
    <3>2. Claim(w, l) => locked'[l] /\ holder_id'[l] = w
      BY <2>1 DEF PairInv, ClaimInv
    <3> QED
      BY <1>0, <2>1, <3>1, <3>2
  <2> QED
    BY <2>2, <2>3, <2>4
<1>2. ASSUME locked[k], holder_id[k] = from
      PROVE  \A w \in Workers : ~Claim(w, k)
  BY <1>2 DEF PairInv, ClaimInv
<1>3. CASE locked[k] /\ holder_id[k] = from /\ waiters[k] = <<>>
  <2>1. /\ ~locked'[k] /\ waiters' = waiters /\ toWorker' = toWorker
        /\ \A l \in Locks \ {k} : locked'[l] = locked[l] /\ holder_id'[l] = holder_id[l]
    BY <1>3 DEF HandleLockRelease, TypeOK
  <2>2. ASSUME NEW l \in Locks PROVE QueueInv(l)'
    BY <1>3, <2>1 DEF QueueInv
  <2>3. ASSUME NEW l \in Locks PROVE MasterInv(l)'
    BY <1>3, <2>1 DEF MasterInv
  <2>4. ASSUME NEW w \in Workers PROVE GoneInv(w)'
    BY <2>1 DEF GoneInv
  <2>5. ASSUME NEW w \in Workers, NEW l \in Locks PROVE PairInv(w, l)'
    <3>1. Queued(w, l)' <=> Queued(w, l)
      BY <2>1 DEF Queued
    <3>2. Claim(w, l) => locked'[l] /\ holder_id'[l] = w
      BY <1>2, <1>3, <2>1 DEF PairInv, ClaimInv
    <3> QED
      BY <1>0, <2>1, <3>1, <3>2
  <2> QED
    BY <2>2, <2>3, <2>4, <2>5
<1>4. CASE locked[k] /\ holder_id[k] = from /\ waiters[k] # <<>>
  <2>1. PICK u \in Workers : u = Head(waiters[k])
    BY <1>4, TailFacts, SMTT(30) DEF TypeOK
  <2>2. /\ locked'[k] /\ holder_id'[k] = u /\ SendGrant(u, k)
        /\ locked' = locked /\ waiters'[k] = Tail(waiters[k])
        /\ \A l \in Locks \ {k} : holder_id'[l] = holder_id[l] /\ waiters'[l] = waiters[l]
    BY <1>4, <2>1 DEF HandleLockRelease, TypeOK
  <2>3. /\ Has(waiters[k], u) /\ ~Has(waiters'[k], u) /\ Distinct(waiters'[k])
        /\ \A x : Has(waiters'[k], x) => Has(waiters[k], x)
        /\ \A x : Has(waiters[k], x) => x = u \/ Has(waiters'[k], x)
    BY <1>4, <2>1, <2>2, TailFacts, SMTT(30) DEF TypeOK, QueueInv
  <2>4. WaitingOrGone(u, k) /\ toMaster[u] = <<>> /\ ~Claim(u, k)
    BY <1>2, <1>4, <2>3 DEF PairInv, QueuedInv, Queued
  <2>5. /\ toWorker[u] = <<>>
        /\ pc[u] = "crashed" => toWorker'[u] = <<>>
        /\ pc[u] # "crashed" =>
             /\ toWorker'[u] = <<k>> /\ Waiting(u, k) /\ k \notin granted[u]
             /\ \A x : Has(toWorker'[u], x) <=> x = k
        /\ \A w \in Workers \ {u} : toWorker'[w] = toWorker[w]
    BY <1>a, <2>2, <2>4 DEF GrantSent
  <2>6. ASSUME NEW l \in Locks PROVE QueueInv(l)'
    BY <2>2, <2>3 DEF QueueInv
  <2>7. ASSUME NEW l \in Locks PROVE MasterInv(l)'
    BY <1>4, <2>2 DEF MasterInv
  <2>8. ASSUME NEW w \in Workers PROVE GoneInv(w)'
    BY <2>5 DEF GoneInv
  <2>9. ASSUME NEW w \in Workers, NEW l \in Locks, w # u PROVE PairInv(w, l)'
    <3>1. Queued(w, l)' <=> Queued(w, l)
      <4>1. CASE l = k
        BY <2>3, <2>9, <4>1 DEF Queued
      <4>2. CASE l # k
        BY <2>2, <4>2 DEF Queued
      <4> QED
        BY <4>1, <4>2
    <3>2. Claim(w, l) => locked'[l] /\ holder_id'[l] = w
      BY <1>2, <1>4, <2>2 DEF PairInv, ClaimInv
    <3> QED
      BY <1>0, <2>5, <2>9, <3>1, <3>2
  <2> USE DEF PairInv, ClaimInv, GrantInv, GrantedInv, HeldInv, RequestInv, QueuedInv,
     WaitInv, Claim, Clearing, Releasing, Requested, Queued, GrantInFlight,
     Waiting, WaitingOrGone
  <2>10. PairInv(u, k)'
    <3>1. CASE pc[u] = "crashed"
      BY <2>2, <2>3, <2>4, <2>5, <3>1, EmptyFacts DEF GoneInv
    <3>2. CASE pc[u] # "crashed"
      BY <2>2, <2>3, <2>4, <2>5, <3>2, EmptyFacts
    <3> QED
      BY <3>1, <3>2
  <2>11. ASSUME NEW l \in Locks, l # k PROVE PairInv(u, l)'
    <3>1. CASE pc[u] = "crashed"
      BY <2>2, <2>4, <2>5, <2>11, <3>1, EmptyFacts DEF GoneInv
    <3>2. CASE pc[u] # "crashed"
      BY <2>2, <2>4, <2>5, <2>11, <3>2, EmptyFacts
    <3> QED
      BY <3>1, <3>2
  <2> QED
    BY <2>6, <2>7, <2>8, <2>9, <2>10, <2>11
<1> QED
  BY <1>1, <1>3, <1>4

\* The master receives a release: while it was on its way its sender had no
\* claim to the lock.
LEMMA MasterRecvReleaseInv ==
  ASSUME LockInv, TypeOK', NEW v \in Workers, MasterRecvRelease(v)
  PROVE  LockInv'
<1> USE LockAssumptions DEF LockInv, Nodes, appVars
<1>1. PICK k \in Locks : /\ Head(toMaster[v]) = Release(k)
                         /\ HandleLockRelease(v, k)
  BY HeadFacts DEF MasterRecvRelease
<1>2. /\ toMaster'[v] = Tail(toMaster[v]) /\ toMaster[v] # <<>>
      /\ \A w \in Workers \ {v} : toMaster'[w] = toMaster[w]
      /\ pc' = pc /\ arg' = arg /\ held' = held /\ granted' = granted
  BY DEF TypeOK, MasterRecvRelease
<1>3. /\ Has(toMaster[v], Release(k))
      /\ \A x : Has(toMaster'[v], x) => Has(toMaster[v], x)
      /\ \A x : Has(toMaster[v], x) => Has(toMaster'[v], x) \/ x = Release(k)
      /\ \A x : OnlyLast(toMaster[v], x) => OnlyLast(toMaster'[v], x)
  BY <1>1, <1>2, TailFacts DEF TypeOK
<1>4. ~Claim(v, k)
  BY <1>3 DEF PairInv, ClaimInv, Releasing
<1>5. ASSUME NEW w \in Workers
      PROVE  /\ \A x : Has(toMaster'[w], x) => Has(toMaster[w], x)
             /\ \A x : Has(toMaster[w], x) => Has(toMaster'[w], x) \/ x = Release(k)
             /\ \A x : OnlyLast(toMaster[w], x) => OnlyLast(toMaster'[w], x)
             /\ toMaster[w] = <<>> => toMaster'[w] = <<>>
  BY <1>2, <1>3
<1> QED
  BY <1>1, <1>2, <1>4, <1>5, ReleaseInv

\* The master's application releases a lock.
LEMMA MasterUnlockInv ==
  ASSUME LockInv, TypeOK', NEW k \in Locks, MasterUnlock(k)
  PROVE  LockInv'
<1> USE LockAssumptions DEF LockInv, Nodes, appVars, MasterUnlock
<1>1. /\ held'[Master] = held[Master] \ {k}
      /\ \A w \in Workers : held'[w] = held[w]
  BY DEF TypeOK
<1> QED
  BY <1>1, ReleaseInv

\* LockInv is an invariant of the lock service.
THEOREM LockInvariant == Spec => []LockInv
<1>1. Init => LockInv
  <2> SUFFICES ASSUME Init PROVE LockInv
    OBVIOUS
  <2> USE LockAssumptions DEF Init, Nodes
  <2>1. TypeOK
    BY DEF TypeOK, PC
  <2>2. ASSUME NEW l \in Locks PROVE QueueInv(l) /\ MasterInv(l)
    BY EmptyFacts DEF QueueInv, MasterInv
  <2>3. ASSUME NEW w \in Workers PROVE GoneInv(w)
    BY DEF GoneInv
  <2>4. ASSUME NEW w \in Workers, NEW l \in Locks PROVE PairInv(w, l)
    BY EmptyFacts DEF PairInv, ClaimInv, GrantInv, GrantedInv, HeldInv, RequestInv, QueuedInv,
     WaitInv, Claim, Clearing, Releasing, Requested, Queued, GrantInFlight,
     Waiting, WaitingOrGone
  <2> QED
    BY <2>1, <2>2, <2>3, <2>4 DEF LockInv
<1>2. LockInv /\ [Next]_vars => LockInv'
  <2> SUFFICES ASSUME LockInv, [Next]_vars PROVE LockInv'
    OBVIOUS
  <2>1. TypeOK'
    BY TypeStep DEF LockInv
  <2>2. CASE UNCHANGED vars
    <3> USE <2>2 DEF vars, LockInv
    <3>1. ASSUME NEW l \in Locks PROVE QueueInv(l)' /\ MasterInv(l)'
      BY DEF QueueInv, MasterInv
    <3>2. ASSUME NEW w \in Workers PROVE GoneInv(w)'
      BY DEF GoneInv
    <3>3. ASSUME NEW w \in Workers, NEW l \in Locks PROVE PairInv(w, l)'
      BY DEF PairInv, ClaimInv, GrantInv, GrantedInv, HeldInv, RequestInv, QueuedInv,
     WaitInv, Claim, Clearing, Releasing, Requested, Queued, GrantInFlight,
     Waiting, WaitingOrGone
    <3> QED
      BY <2>1, <3>1, <3>2, <3>3
  <2>3. ASSUME NEW n \in Nodes, AppLock(n) PROVE LockInv'
    BY <2>1, <2>3, MasterLockInv, WorkerLockInv, WorkerLockUnlinkedInv DEF AppLock, Nodes
  <2>4. ASSUME NEW n \in Nodes, AppUnlock(n) PROVE LockInv'
    BY <2>1, <2>4, MasterUnlockInv, WorkerUnlockInv DEF AppUnlock, UnlockStep, Nodes
  <2>5. ASSUME NEW n \in Nodes, AppStep(n) PROVE LockInv'
    BY <2>1, <2>5, MasterSleepInv, MasterAcquireInv, WorkerSleepInv, WorkerAcquireInv,
       WorkerClearInv DEF AppStep, Nodes
  <2>6. ASSUME NEW w \in Workers, MasterRecv(w) PROVE LockInv'
    BY <2>1, <2>6, MasterRecvRequestInv, MasterRecvReleaseInv DEF MasterRecv
  <2> QED
    BY <2>1, <2>2, <2>3, <2>4, <2>5, <2>6, WorkerRecvGrantInv, SpuriousWakeupInv, CrashInv
    DEF Next
<1> QED
  BY <1>1, <1>2, PTL DEF Spec

-----------------------------------------------------------------------------
(* What the invariant gives *)

\* A connected node that is between dsm_lock and dsm_unlock is the holder the
\* master has recorded.
LEMMA HolderFacts ==
  ASSUME LockInv, NEW n \in Linked, NEW l \in Locks, l \in held[n]
  PROVE  locked[l] /\ holder_id[l] = n
<1>1. CASE n = Master
  BY <1>1 DEF LockInv, MasterInv
<1>2. CASE n \in Workers \ Unlinked
  <2>1. PairInv(n, l)
    BY <1>2 DEF LockInv
  <2>2. Claim(n, l)
    BY <1>2, <2>1 DEF PairInv, HeldInv, Claim
  <2> QED
    BY <2>1, <2>2 DEF PairInv, ClaimInv
<1> QED
  BY <1>1, <1>2 DEF Linked, Nodes

\* dsm_lock and dsm_unlock give connected nodes mutual exclusion, with any
\* number of workers and locks, crashing and careless ones among them.
THEOREM LockMutualExclusion == Spec => []MutualExclusion
<1>1. LockInv => MutualExclusion
  BY HolderFacts DEF MutualExclusion
<1> QED
  BY <1>1, LockInvariant, PTL

\* The request of a worker that waits in dsm_lock is in exactly one place, and
\* the worker does not sleep on a grant it already has.
THEOREM LockNoRequestLost == Spec => []NoRequestLost
<1>1. LockInv => NoRequestLost
  <2> SUFFICES ASSUME LockInv, NEW w \in Workers, NEW l \in Locks, Waiting(w, l)
               PROVE  /\ \/ Requested(w, l) /\ ~Queued(w, l) /\ ~Granted(w, l)
                         \/ ~Requested(w, l) /\ Queued(w, l) /\ ~Granted(w, l)
                         \/ ~Requested(w, l) /\ ~Queued(w, l) /\ Granted(w, l)
                      /\ pc[w] = "asleep" => l \notin granted[w]
    BY DEF NoRequestLost
  <2>1. PairInv(w, l)
    BY DEF LockInv
  <2>2. Requested(w, l) \/ Queued(w, l) \/ Claim(w, l)
    BY <2>1 DEF PairInv, WaitInv
  <2>3. pc[w] = "asleep" => l \notin granted[w]
    BY <2>1 DEF PairInv, WaitInv
  <2>4. Granted(w, l) <=> Claim(w, l)
    BY <2>1 DEF PairInv, ClaimInv, Granted, Claim, Clearing, Waiting
  <2>5. Claim(w, l) => ~Queued(w, l) /\ ~Requested(w, l)
    BY <2>1 DEF PairInv, ClaimInv
  <2>6. Queued(w, l) => ~Requested(w, l)
    BY <2>1, EmptyFacts DEF PairInv, QueuedInv, Requested
  <2> QED
    BY <2>2, <2>3, <2>4, <2>5, <2>6
<1> QED
  BY <1>1, LockInvariant, PTL

\* The handling of a release respects the queue.
LEMMA ReleaseInOrder ==
  ASSUME TypeOK, NEW from \in Nodes, NEW k \in Locks, HandleLockRelease(from, k),
         NEW l \in Locks, waiters[l] # <<>>, QueueInv(l)
  PROVE  PassesToFirst(l)
<1>1. locked[l]
  BY DEF QueueInv
<1>2. CASE l # k \/ ~locked[k] \/ holder_id[k] # from
  BY <1>1, <1>2 DEF HandleLockRelease, PassesToFirst, TypeOK, masterVars
<1>3. CASE l = k /\ locked[k] /\ holder_id[k] = from
  BY <1>1, <1>3 DEF HandleLockRelease, PassesToFirst, TypeOK
<1> QED
  BY <1>2, <1>3

\* Workers that wait for a lock get it in the order in which the master has
\* queued them, and nobody overtakes the queue.
THEOREM LockServedInOrder == Spec => ServedInOrder
<1>1. LockInv /\ [Next]_vars =>
        [\A l \in Locks : waiters[l] # <<>> => PassesToFirst(l)]_vars
  <2> SUFFICES ASSUME LockInv, Next, NEW l \in Locks, waiters[l] # <<>>
               PROVE  PassesToFirst(l)
    OBVIOUS
  <2>1. TypeOK /\ QueueInv(l) /\ locked[l]
    BY DEF LockInv, QueueInv
  <2>2. CASE UNCHANGED masterVars
    BY <2>1, <2>2 DEF PassesToFirst, masterVars
  <2>3. ASSUME NEW n \in Nodes, AppLock(n) PROVE UNCHANGED masterVars
    BY <2>3 DEF AppLock, MasterLock, WorkerLock, WorkerLockUnlinked
  <2>4. ASSUME NEW n \in Nodes, AppUnlock(n) PROVE PassesToFirst(l)
    BY <2>1, <2>2, <2>4, ReleaseInOrder DEF AppUnlock, UnlockStep, MasterUnlock, WorkerUnlock, Nodes
  <2>5. ASSUME MasterAcquire PROVE PassesToFirst(l)
    BY <2>1, <2>5 DEF MasterAcquire, PassesToFirst, TypeOK
  <2>6. ASSUME NEW n \in Nodes, AppStep(n) PROVE PassesToFirst(l)
    BY <2>2, <2>5, <2>6 DEF AppStep, MasterSleep, WorkerSleep, WorkerAcquire, WorkerClear
  <2>7. ASSUME NEW w \in Workers, NEW k \in Locks, HandleLockRequest(w, k)
        PROVE  PassesToFirst(l)
    BY <2>1, <2>7 DEF HandleLockRequest, PassesToFirst, TypeOK
  <2>8. ASSUME NEW w \in Workers, MasterRecv(w) PROVE PassesToFirst(l)
    BY <2>1, <2>7, <2>8, HeadFacts, ReleaseInOrder
    DEF MasterRecv, MasterRecvRequest, MasterRecvRelease, Nodes
  <2>9. ASSUME NEW w \in Workers, WorkerRecvGrant(w) \/ Crash(w)
        PROVE  UNCHANGED masterVars
    BY <2>9 DEF WorkerRecvGrant, Crash
  <2>10. ASSUME NEW n \in Nodes, SpuriousWakeup(n) PROVE UNCHANGED masterVars
    BY <2>10 DEF SpuriousWakeup
  <2> QED
    BY <2>2, <2>3, <2>4, <2>6, <2>8, <2>9, <2>10 DEF Next
<1> QED
  BY <1>1, LockInvariant, PTL DEF Spec, ServedInOrder

-----------------------------------------------------------------------------
(* The lock service implements the abstract lock *)

\* owners is the state of the abstract lock that a state maps to.
owners == [l \in Locks |-> {n \in Linked : l \in held[n]}]

\* A step that gives a lock to a node when no connected node holds it.
LEMMA AcquireRefines ==
  ASSUME TypeOK, NEW n \in Nodes, NEW l \in Locks,
         held' = [held EXCEPT ![n] = @ \cup {l}],
         n \in Linked => \A m \in Linked : l \notin held[m]
  PROVE  Abstract!Next \/ owners' = owners
<1> USE LockAssumptions DEF TypeOK, owners, Linked, Nodes
<1>1. CASE n \in Unlinked
  BY <1>1
<1>2. CASE n \in Linked
  <2>1. owners[l] = {}
    BY <1>2
  <2>2. \A m \in Linked, k \in Locks : k \in held'[m] <=> k \in held[m] \/ (m = n /\ k = l)
    BY <1>2
  <2>3. owners' = [owners EXCEPT ![l] = {n}]
    <3>1. owners'[l] = {n}
      BY <1>2, <2>1, <2>2
    <3>2. ASSUME NEW k \in Locks, k # l PROVE owners'[k] = owners[k]
      BY <2>2, <3>2
    <3> QED
      BY <3>1, <3>2
  <2> QED
    BY <1>2, <2>1, <2>3 DEF Abstract!Next, Abstract!Acquire
<1> QED
  BY <1>1, <1>2

\* A step that takes a lock from a node that holds it alone or not at all.
LEMMA ReleaseRefines ==
  ASSUME TypeOK, NEW n \in Nodes, NEW l \in Locks,
         held' = [held EXCEPT ![n] = @ \ {l}],
         \A m \in Linked : n \in Linked /\ l \in held[n] /\ l \in held[m] => m = n
  PROVE  Abstract!Next \/ owners' = owners
<1> USE LockAssumptions DEF TypeOK, owners, Linked, Nodes
<1>1. CASE n \in Unlinked \/ l \notin held[n]
  BY <1>1
<1>2. CASE n \in Linked /\ l \in held[n]
  <2>1. owners[l] = {n}
    BY <1>2
  <2>2. \A m \in Linked, k \in Locks : k \in held'[m] <=> k \in held[m] /\ ~(m = n /\ k = l)
    BY <1>2
  <2>3. owners' = [owners EXCEPT ![l] = {}]
    <3>1. owners'[l] = {}
      BY <1>2, <2>1, <2>2
    <3>2. ASSUME NEW k \in Locks, k # l PROVE owners'[k] = owners[k]
      BY <2>2, <3>2
    <3> QED
      BY <3>1, <3>2
  <2> QED
    BY <1>2, <2>1, <2>3 DEF Abstract!Next, Abstract!Release
<1> QED
  BY <1>1, <1>2

\* A crash takes away all locks of one node.
LEMMA CrashRefines ==
  ASSUME TypeOK, NEW w \in Workers, held' = [held EXCEPT ![w] = {}]
  PROVE  Abstract!Next \/ owners' = owners
<1> USE LockAssumptions DEF TypeOK, owners, Linked, Nodes
<1>1. CASE w \in Unlinked
  BY <1>1
<1>2. CASE w \in Linked
  <2>1. \A m \in Linked, k \in Locks : k \in held'[m] <=> k \in held[m] /\ m # w
    BY <1>2
  <2>2. owners' = [l \in Locks |-> owners[l] \ {w}]
    BY <1>2, <2>1
  <2> QED
    BY <1>2, <2>2 DEF Abstract!Next, Abstract!Crash
<1> QED
  BY <1>1, <1>2

\* Seen through what the calls of the connected nodes have returned, the whole
\* protocol -- master, queue, messages in flight, crashes -- is one abstract
\* lock per lock id.
THEOREM LockRefinement == Spec => ImplementsAbstractLock
<1>1. Init => Abstract!Init
  BY LockAssumptions DEF Init, Abstract!Init, Linked, Nodes
<1>2. LockInv /\ [Next]_vars => [Abstract!Next]_owners
  <2> SUFFICES ASSUME LockInv, [Next]_vars PROVE Abstract!Next \/ owners' = owners
    OBVIOUS
  <2>1. TypeOK
    BY DEF LockInv
  <2>2. ASSUME held' = held PROVE owners' = owners
    BY <2>2 DEF owners
  <2>3. ASSUME NEW n \in Nodes, AppLock(n) PROVE Abstract!Next \/ owners' = owners
    <3>1. CASE held' = held
      BY <2>2, <3>1
    <3>2. ASSUME NEW l \in Locks, n \in Workers, WorkerLockUnlinked(n, l)
          PROVE  Abstract!Next \/ owners' = owners
      BY <2>1, <3>2, AcquireRefines DEF WorkerLockUnlinked, Linked
    <3> QED
      BY <2>3, <3>1, <3>2 DEF AppLock, MasterLock, WorkerLock, Nodes
  <2>4. ASSUME NEW n \in Nodes, AppUnlock(n) PROVE Abstract!Next \/ owners' = owners
    <3>1. PICK l \in Locks : held' = [held EXCEPT ![n] = @ \ {l}]
      BY <2>4 DEF AppUnlock, UnlockStep, MasterUnlock, WorkerUnlock
    <3>2. \A m \in Linked : n \in Linked /\ l \in held[n] /\ l \in held[m] => m = n
      BY HolderFacts
    <3> QED
      BY <2>1, <3>1, <3>2, ReleaseRefines
  <2>5. ASSUME MasterAcquire PROVE Abstract!Next \/ owners' = owners
    <3>1. PICK l \in Locks : /\ l = arg[Master]
                             /\ held' = [held EXCEPT ![Master] = @ \cup {l}]
                             /\ ~(locked[l] /\ holder_id[l] # Master)
      BY <2>1, <2>5 DEF MasterAcquire, TypeOK, Nodes
    <3>2. CASE l \in held[Master]
      BY <2>1, <2>2, <3>1, <3>2 DEF TypeOK, Nodes
    <3>3. CASE l \notin held[Master]
      <4>1. \A m \in Linked : l \notin held[m]
        BY <3>1, <3>3, HolderFacts
      <4> QED
        BY <2>1, <3>1, <4>1, AcquireRefines DEF Nodes
    <3> QED
      BY <3>2, <3>3
  <2>6. ASSUME NEW w \in Workers, WorkerAcquire(w) PROVE Abstract!Next \/ owners' = owners
    <3>1. PICK l \in Locks : /\ l = arg[w] /\ l \in granted[w]
                             /\ held' = [held EXCEPT ![w] = @ \cup {l}]
      BY <2>1, <2>6 DEF WorkerAcquire, TypeOK, Nodes
    <3>2. locked[l] /\ holder_id[l] = w
      <4>1. Claim(w, l)
        BY <2>6, <3>1 DEF Claim, Clearing, WorkerAcquire
      <4> QED
        BY <4>1 DEF LockInv, PairInv, ClaimInv
    <3>3. CASE l \in held[w]
      BY <2>1, <2>2, <3>1, <3>3 DEF TypeOK, Nodes
    <3>4. CASE l \notin held[w]
      <4>1. \A m \in Linked : l \notin held[m]
        BY <3>2, <3>4, HolderFacts
      <4> QED
        BY <2>1, <3>1, <4>1, AcquireRefines DEF Nodes
    <3> QED
      BY <3>3, <3>4
  <2>7. ASSUME NEW n \in Nodes, AppStep(n) PROVE Abstract!Next \/ owners' = owners
    BY <2>2, <2>5, <2>6, <2>7 DEF AppStep, MasterSleep, WorkerSleep, WorkerClear, Nodes
  <2>8. ASSUME NEW w \in Workers, MasterRecv(w) \/ WorkerRecvGrant(w) PROVE held' = held
    BY <2>8 DEF MasterRecv, MasterRecvRequest, MasterRecvRelease, WorkerRecvGrant, appVars
  <2>9. ASSUME NEW w \in Workers, Crash(w) PROVE Abstract!Next \/ owners' = owners
    BY <2>1, <2>9, CrashRefines DEF Crash
  <2>10. ASSUME NEW n \in Nodes, SpuriousWakeup(n) PROVE held' = held
    BY <2>10 DEF SpuriousWakeup
  <2>11. CASE UNCHANGED vars
    BY <2>2, <2>11 DEF vars
  <2> QED
    BY <2>2, <2>3, <2>4, <2>7, <2>8, <2>9, <2>10, <2>11 DEF Next
<1> QED
  BY <1>1, <1>2, LockInvariant, PTL DEF Spec, ImplementsAbstractLock, Abstract!Spec, owners
=============================================================================
