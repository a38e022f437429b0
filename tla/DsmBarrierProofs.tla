-------------------------- MODULE DsmBarrierProofs --------------------------
(***************************************************************************)
(* Proofs about the barrier, for any number of workers and rounds.  The    *)
(* theorems assume that no worker's pthread_cond_wait returns by itself.   *)
(***************************************************************************)
EXTENDS DsmBarrier, FiniteSetTheorems, TLAPS

-----------------------------------------------------------------------------
(* Counting *)

\* The members are finitely many, and fit the array.
LEMMA MembersFinite ==
  ASSUME TypeOK
  PROVE  /\ IsFiniteSet(members) /\ Cardinality(members) \in Nat
         /\ Cardinality(members) <= MaxNodes
<1>1. IsFiniteSet(Nodes) /\ Cardinality(Nodes) = Cardinality(Workers) + 1
  <2>1. Nodes = Workers \cup {Master}
    BY DEF Nodes
  <2> QED
    BY <2>1, BarrierAssumptions, FS_AddElement
<1>2. Cardinality(Workers) \in Nat
  BY BarrierAssumptions, FS_CardinalityType
<1>3. IsFiniteSet(members) /\ Cardinality(members) <= Cardinality(Nodes)
  BY <1>1, FS_Subset DEF TypeOK
<1>4. Cardinality(members) \in Nat
  BY <1>3, FS_CardinalityType
<1> QED
  BY <1>1, <1>2, <1>3, <1>4, BarrierAssumptions

\* A sequence of different elements of a finite set is no longer than the set
\* is large, and if it is as long it has them all.
LEMMA Counting ==
  ASSUME NEW S, IsFiniteSet(S), NEW q \in Seq(S),
         \A i, j \in 1..Len(q) : q[i] = q[j] => i = j
  PROVE  /\ Len(q) <= Cardinality(S)
         /\ Len(q) >= Cardinality(S) => \A x \in S : \E i \in 1..Len(q) : q[i] = x
<1>1. Len(q) \in Nat /\ q \in [1..Len(q) -> S]
  OBVIOUS
<1>2. IsFiniteSet(1..Len(q)) /\ Cardinality(1..Len(q)) = Len(q)
  BY <1>1, FS_Interval
<1>3. q \in Injection(1..Len(q), S)
  BY <1>1 DEF Injection, IsInjective
<1>4. /\ Len(q) <= Cardinality(S)
      /\ Len(q) = Cardinality(S) <=> q \in Surjection(1..Len(q), S)
  BY <1>2, <1>3, FS_Injection
<1>5. Cardinality(S) \in Nat
  BY FS_CardinalityType
<1>6. Len(q) >= Cardinality(S) => q \in Surjection(1..Len(q), S)
  BY <1>1, <1>4, <1>5
<1> QED
  BY <1>4, <1>6 DEF Surjection

-----------------------------------------------------------------------------
(* Arrivals *)

\* What dsm_sync_handle_barrier_enter does with the arrival of a member that
\* is not counted yet: if it is the last one all members have arrived and the
\* round ends; otherwise the array has one entry more.
LEMMA ArrivalFacts ==
  ASSUME BarrierInv, NEW from \in members, ~Arrived(from), NEW p, HandleBarrierEnter(from, p)
  PROVE  \/ /\ \A n \in members : Arrived(n) \/ n = from
            /\ ReleaseRound(members, p)
         \/ /\ RecordArrival(Append(arrived, from), p)
            /\ arrived' \in Seq(Nodes) /\ Len(arrived') < Cardinality(members)
            /\ NoRepetition'
            /\ \A n : Arrived(n)' <=> Arrived(n) \/ n = from
<1> DEFINE now == Append(arrived, from)
<1>0. TypeOK /\ members \in SUBSET Nodes /\ arrived \in Seq(Nodes)
  BY DEF BarrierInv, TypeOK
<1>1. /\ now \in Seq(Nodes) /\ Len(now) = Len(arrived) + 1 /\ Len(arrived) \in Nat
      /\ \A i \in 1..Len(arrived) : now[i] = arrived[i]
      /\ now[Len(arrived) + 1] = from
  BY <1>0
<1> HIDE DEF now
<1>2. \A n : (\E i \in 1..Len(now) : now[i] = n) <=> Arrived(n) \/ n = from
  BY <1>1 DEF Arrived
<1>3. \A i, j \in 1..Len(now) : now[i] = now[j] => i = j
  BY <1>1 DEF BarrierInv, NoRepetition, Arrived
<1>4. \A i \in 1..Len(now) : now[i] \in members
  <2>1. \A n \in Nodes : Arrived(n) => n \in members
    BY DEF BarrierInv, CountInv
  <2> QED
    BY <1>1, <1>2, <2>1
<1>5. now \in Seq(members)
  BY <1>1, <1>4
<1>6. CASE Len(now) >= Cardinality(members)
  <2>1. \A n \in members : \E i \in 1..Len(now) : now[i] = n
    BY <1>0, <1>3, <1>5, <1>6, MembersFinite, Counting
  <2>2. {now[i] : i \in 1..Len(now)} = members
    BY <1>4, <2>1
  <2>3. ReleaseRound({now[i] : i \in 1..Len(now)}, p)
    BY <1>6 DEF HandleBarrierEnter, now
  <2> QED
    BY <1>2, <2>1, <2>2, <2>3
<1>7. CASE ~(Len(now) >= Cardinality(members))
  <2>1. RecordArrival(now, p)
    BY <1>7 DEF HandleBarrierEnter, now
  <2>2. arrived' = now
    BY <2>1 DEF RecordArrival
  <2>3. Len(now) < Cardinality(members)
    BY <1>0, <1>1, <1>7, MembersFinite
  <2> QED
    BY <1>1, <1>2, <1>3, <2>1, <2>2, <2>3 DEF NoRepetition, Arrived, now
<1> QED
  BY <1>6, <1>7

\* The end of a round: every member has entered it, none has passed it.
LEMMA ReleaseInv ==
  ASSUME BarrierInv, NEW from \in members, NEW p \in [Nodes -> PC],
         ReleaseRound(members, p), UNCHANGED <<members, passed>>,
         \A n \in members : Arrived(n) \/ n = from,
         entered' \in [Nodes -> Nat], linked' \in SUBSET Workers, current_id' \in Nat,
         entered'[from] = barrier_id + 1, passed[from] = barrier_id,
         \A n \in Nodes : n # from => entered'[n] = entered[n] /\ p[n] = pc[n],
         \A w \in Workers : p[w] = pc[w], p[from] # "idle", p[Master] # "crashed",
         toMaster' \in [Workers -> 0..1],
         \A w \in Workers : toMaster'[w] = 1 => toMaster[w] = 1 /\ w # from
  PROVE  BarrierInv'
<1> USE DEF BarrierInv
<1>1. /\ arrived' = <<>> /\ barrier_id' = barrier_id + 1 /\ barrier_id \in Nat
      /\ pc' = [p EXCEPT ![Master] = IF @ = "asleep" THEN "check" ELSE @]
      /\ \A n : ~Arrived(n)'
  BY DEF ReleaseRound, Arrived, TypeOK
<1>2. Master \in Nodes /\ Workers \subseteq Nodes /\ members \subseteq Nodes /\ Master \notin Workers
  BY BarrierAssumptions DEF Nodes, TypeOK
<1>3. ASSUME NEW n \in members
      PROVE  entered'[n] = barrier_id + 1 /\ passed[n] = barrier_id /\ p[n] # "idle"
  <2>1. CASE n = from
    BY <2>1
  <2>2. CASE n # from
    <3>1. CountInv(n) /\ Arrived(n) /\ passed[n] \in Nat
      BY <1>2, <2>2 DEF TypeOK
    <3> QED
      BY <1>1, <1>2, <2>2, <3>1 DEF CountInv
  <2> QED
    BY <2>1, <2>2
<1>4. \A n \in Nodes : /\ n # Master => pc'[n] = p[n]
                       /\ pc'[n] = "idle" <=> p[n] = "idle"
                       /\ pc'[n] = "crashed" <=> p[n] = "crashed"
                       /\ pc'[n] \in PC
  BY <1>1, <1>2 DEF PC
<1>5. ASSUME NEW n \in Nodes PROVE CountInv(n)'
  <2>1. CASE n \in members
    BY <1>1, <1>3, <1>4, <2>1 DEF CountInv, InBarrier
  <2>2. CASE n \notin members
    <3>1. CountInv(n) /\ p[n] = pc[n]
      BY <2>2
    <3> QED
      BY <1>1, <1>4, <2>2, <3>1 DEF CountInv, InBarrier
  <2> QED
    BY <2>1, <2>2
<1>6. \A w \in Workers : toMaster'[w] # 1
  BY <1>2 DEF FlightInv
<1>7. \A w \in Workers : toWorker[w] = 0
  <2> SUFFICES ASSUME NEW w \in Workers, toWorker[w] = 1 PROVE FALSE
    BY DEF TypeOK
  <2>1. w \in members /\ entered[w] = barrier_id /\ passed[w] + 1 = entered[w]
    BY <1>2 DEF FlightInv, CountInv, InBarrier
  <2> QED
    BY <1>1, <1>2, <1>3, <2>1 DEF TypeOK
<1>8. ASSUME NEW w \in Workers
      PROVE  toWorker'[w] = IF w \in members /\ pc[w] # "crashed" THEN 1 ELSE 0
  BY <1>7 DEF ReleaseRound
<1>9. ASSUME NEW w \in Workers PROVE FlightInv(w)'
  <2>1. pc'[w] = pc[w] /\ pc[w] # "check" /\ pc[w] \in PC
    BY <1>2, <1>4 DEF FlightInv, TypeOK
  <2>2. w \in members => entered'[w] = barrier_id' /\ pc'[w] # "idle"
    BY <1>1, <1>2, <1>3, <1>4
  <2> QED
    BY <1>6, <1>8, <2>1, <2>2 DEF FlightInv, PC
<1>10. MasterInv'
  <2>1. Master \in members /\ pc'[Master] # "crashed"
    BY <1>2, <1>4 DEF MasterInv
  <2> QED
    BY <1>1, <1>3, <2>1 DEF MasterInv
<1>11. TypeOK'
  <2>1. pc' \in [Nodes -> PC]
    BY <1>1, <1>4
  <2>2. toWorker' \in [Workers -> 0..1]
    BY <1>8 DEF ReleaseRound
  <2> QED
    BY <1>1, <2>1, <2>2 DEF TypeOK
<1>12. NoRepetition' /\ Len(arrived') < Cardinality(members')
  <2>1. Cardinality(members) # 0
    BY FS_EmptySet, MembersFinite
  <2> QED
    BY <1>1, <2>1, MembersFinite DEF NoRepetition
<1> QED
  BY <1>5, <1>9, <1>10, <1>11, <1>12

\* Counting one call more.
LEMMA CountUp ==
  ASSUME NEW f \in [Nodes -> Nat], NEW n \in Nodes
  PROVE  [f EXCEPT ![n] = @ + 1] \in [Nodes -> Nat]
OBVIOUS

\* The master's application enters.
LEMMA MasterEnterInv ==
  ASSUME BarrierInv, MasterEnter
  PROVE  BarrierInv'
<1> USE DEF BarrierInv
<1> DEFINE p == [pc EXCEPT ![Master] = "entered"]
<1>1. Master \in Nodes /\ Workers \subseteq Nodes /\ Master \notin Workers
  BY BarrierAssumptions DEF Nodes
<1>2. /\ Master \in members /\ ~Arrived(Master) /\ barrier_id \in Nat
      /\ entered[Master] = barrier_id /\ passed[Master] = barrier_id
  BY <1>1 DEF MasterEnter, MasterInv, CountInv, TypeOK
<1>3. /\ p \in [Nodes -> PC] /\ p[Master] = "entered"
      /\ \A n \in Nodes : n # Master => p[n] = pc[n]
  BY <1>1 DEF TypeOK, PC
<1>4. /\ entered' \in [Nodes -> Nat] /\ entered'[Master] = barrier_id + 1
      /\ \A n \in Nodes : n # Master => entered'[n] = entered[n]
      /\ UNCHANGED <<members, linked, current_id, toMaster, passed>>
  BY <1>1, <1>2 DEF MasterEnter, TypeOK
<1>5. HandleBarrierEnter(Master, p)
  BY DEF MasterEnter
<1> HIDE DEF p
<1>6. CASE ReleaseRound(members, p) /\ \A n \in members : Arrived(n) \/ n = Master
  <2>1. \A w \in Workers : p[w] = pc[w] /\ w # Master
    BY <1>1, <1>3
  <2>2. toMaster' \in [Workers -> 0..1] /\ linked' \in SUBSET Workers /\ current_id' \in Nat
    BY <1>4 DEF TypeOK
  <2>3. \A w \in Workers : toMaster'[w] = 1 => toMaster[w] = 1 /\ w # Master
    BY <1>4, <2>1
  <2>4. \A n \in Nodes : n # Master => entered'[n] = entered[n] /\ p[n] = pc[n]
    BY <1>3, <1>4
  <2> QED
    BY <1>2, <1>3, <1>4, <1>6, <2>1, <2>2, <2>3, <2>4, ReleaseInv
<1>7. CASE /\ RecordArrival(Append(arrived, Master), p)
           /\ arrived' \in Seq(Nodes) /\ Len(arrived') < Cardinality(members)
           /\ NoRepetition'
           /\ \A n : Arrived(n)' <=> Arrived(n) \/ n = Master
  <2>1. UNCHANGED <<barrier_id, toWorker>> /\ pc' = p
    BY <1>7 DEF RecordArrival
  <2>2. TypeOK'
    BY <1>3, <1>4, <1>7, <2>1 DEF TypeOK
  <2>3. ASSUME NEW n \in Nodes PROVE CountInv(n)'
    BY <1>1, <1>2, <1>3, <1>4, <1>7, <2>1 DEF CountInv, InBarrier
  <2>4. ASSUME NEW w \in Workers PROVE FlightInv(w)'
    BY <1>1, <1>3, <1>4, <1>7, <2>1 DEF FlightInv
  <2>5. MasterInv'
    BY <1>2, <1>3, <1>4, <1>7, <2>1 DEF MasterInv
  <2> QED
    BY <1>4, <1>7, <2>2, <2>3, <2>4, <2>5
<1> QED
  BY <1>2, <1>5, <1>6, <1>7, ArrivalFacts

\* The master's TCP thread receives the announcement of a worker, which may
\* have crashed since.
LEMMA MasterRecvEnterInv ==
  ASSUME BarrierInv, NEW v \in Workers, MasterRecvEnter(v)
  PROVE  BarrierInv'
<1> USE DEF BarrierInv
<1>1. Master \in Nodes /\ Workers \subseteq Nodes /\ Master \notin Workers
  BY BarrierAssumptions DEF Nodes
<1>2. /\ v \in members /\ v \in Nodes /\ ~Arrived(v) /\ barrier_id \in Nat
      /\ entered[v] = barrier_id + 1 /\ passed[v] = barrier_id /\ pc[v] # "idle"
  <2>1. toMaster[v] = 1
    BY DEF MasterRecvEnter, TypeOK
  <2>2. FlightInv(v) /\ CountInv(v)
    BY <1>1
  <2> QED
    BY <1>1, <2>1, <2>2 DEF FlightInv, CountInv, TypeOK
<1>3. /\ toMaster' \in [Workers -> 0..1] /\ toMaster'[v] = 0
      /\ \A w \in Workers : w # v => toMaster'[w] = toMaster[w]
      /\ UNCHANGED <<members, linked, current_id, entered, passed>>
  BY DEF MasterRecvEnter, TypeOK
<1>4. HandleBarrierEnter(v, pc)
  BY DEF MasterRecvEnter
<1>5. pc \in [Nodes -> PC] /\ pc[Master] # "crashed"
  BY DEF TypeOK, MasterInv
<1>6. CASE ReleaseRound(members, pc) /\ \A n \in members : Arrived(n) \/ n = v
  <2>1. \A w \in Workers : toMaster'[w] = 1 => toMaster[w] = 1 /\ w # v
    BY <1>3
  <2>2. /\ entered' \in [Nodes -> Nat] /\ linked' \in SUBSET Workers /\ current_id' \in Nat
        /\ entered'[v] = barrier_id + 1 /\ \A n \in Nodes : entered'[n] = entered[n]
    BY <1>2, <1>3 DEF TypeOK
  <2> QED
    BY <1>2, <1>3, <1>5, <1>6, <2>1, <2>2, ReleaseInv
<1>7. CASE /\ RecordArrival(Append(arrived, v), pc)
           /\ arrived' \in Seq(Nodes) /\ Len(arrived') < Cardinality(members)
           /\ NoRepetition'
           /\ \A n : Arrived(n)' <=> Arrived(n) \/ n = v
  <2>1. UNCHANGED <<barrier_id, toWorker, pc>>
    BY <1>7 DEF RecordArrival
  <2>2. TypeOK'
    BY <1>3, <1>7, <2>1 DEF TypeOK
  <2>3. ASSUME NEW n \in Nodes PROVE CountInv(n)'
    BY <1>2, <1>3, <1>7, <2>1 DEF CountInv, InBarrier
  <2>4. ASSUME NEW w \in Workers PROVE FlightInv(w)'
    BY <1>2, <1>3, <1>7, <2>1 DEF FlightInv
  <2>5. MasterInv'
    BY <1>1, <1>3, <1>7, <2>1 DEF MasterInv
  <2> QED
    BY <1>3, <1>7, <2>2, <2>3, <2>4, <2>5
<1> QED
  BY <1>2, <1>4, <1>6, <1>7, ArrivalFacts

\* A step of the master's loop moves its program counter and, if it leaves the
\* loop, lets the call return: only when it is not counted in the open round.
LEMMA MasterLoopInv ==
  ASSUME BarrierInv, MasterStep \/ SpuriousWakeup(Master)
  PROVE  BarrierInv'
<1> USE DEF BarrierInv
<1>1. Master \in Nodes /\ Workers \subseteq Nodes /\ Master \notin Workers
  BY BarrierAssumptions DEF Nodes
<1>2. UNCHANGED <<members, linked, arrived, barrier_id, toMaster, toWorker, entered>>
  BY DEF MasterStep, MasterWait, MasterPass, MasterRecheck, MasterLeave, MasterReturn,
         SpuriousWakeup, roundVars
<1>3. \A n : Arrived(n)' <=> Arrived(n)
  BY <1>2 DEF Arrived
<1>4. \A n \in Nodes : n # Master => pc'[n] = pc[n] /\ passed'[n] = passed[n]
  BY <1>1 DEF MasterStep, MasterWait, MasterPass, MasterRecheck, MasterLeave, MasterReturn,
              SpuriousWakeup, TypeOK
<1>5. TypeOK'
  <2>1. current_id' \in Nat
    BY DEF MasterStep, MasterWait, MasterPass, MasterRecheck, MasterLeave, MasterReturn,
           SpuriousWakeup, TypeOK
  <2>2. \E s \in {"idle", "asleep", "check"} : pc' = [pc EXCEPT ![Master] = s]
    BY DEF MasterStep, MasterWait, MasterPass, MasterRecheck, MasterLeave, MasterReturn,
           SpuriousWakeup
  <2>3. pc' \in [Nodes -> PC]
    BY <2>2 DEF TypeOK, PC
  <2>4. passed' = passed \/ passed' = [passed EXCEPT ![Master] = @ + 1]
    BY DEF MasterStep, MasterWait, MasterPass, MasterRecheck, MasterLeave, MasterReturn,
           SpuriousWakeup
  <2>5. passed' \in [Nodes -> Nat]
    <3>1. passed \in [Nodes -> Nat]
      BY DEF TypeOK
    <3> QED
      BY <1>1, <2>4, <3>1, CountUp
  <2> QED
    BY <1>2, <2>1, <2>3, <2>5 DEF TypeOK
<1>6. CountInv(Master) /\ MasterInv
  BY <1>1
<1>7. InBarrier(Master) /\ pc[Master] # "idle"
  BY DEF MasterStep, MasterWait, MasterPass, MasterRecheck, MasterLeave, SpuriousWakeup,
         InBarrier
<1>8. \/ pc'[Master] \in {"asleep", "check"} /\ passed' = passed
      \/ pc'[Master] = "idle" /\ passed'[Master] = passed[Master] + 1 /\ ~Arrived(Master)
  <2>1. arrived = <<>> => ~Arrived(Master)
    BY DEF Arrived
  <2>2. CASE MasterWait \/ MasterRecheck \/ SpuriousWakeup(Master)
    BY <1>1, <2>2 DEF MasterWait, MasterRecheck, SpuriousWakeup, TypeOK
  <2>3. CASE MasterPass
    BY <1>1, <2>1, <2>3 DEF MasterPass, MasterReturn, TypeOK
  <2>4. CASE MasterLeave
    <3>1. arrived = <<>> \/ barrier_id # current_id
      BY <2>4 DEF MasterLeave
    <3>2. ~Arrived(Master)
      BY <1>6, <2>1, <2>4, <3>1 DEF MasterInv, MasterLeave
    <3> QED
      BY <1>1, <2>4, <3>2 DEF MasterLeave, MasterReturn, TypeOK
  <2> QED
    BY <2>2, <2>3, <2>4 DEF MasterStep
<1>9. pc'[Master] \in {"asleep", "check"} => current_id' = barrier_id \/ current_id' = current_id
  BY DEF MasterStep, MasterWait, MasterPass, MasterRecheck, MasterLeave, MasterReturn,
         SpuriousWakeup
<1>10. CountInv(Master)'
  BY <1>1, <1>2, <1>3, <1>6, <1>7, <1>8 DEF CountInv, MasterInv, InBarrier, TypeOK
<1>11. ASSUME NEW n \in Nodes, n # Master PROVE CountInv(n)'
  BY <1>2, <1>3, <1>4, <1>11 DEF CountInv, InBarrier
<1>12. ASSUME NEW w \in Workers PROVE FlightInv(w)'
  BY <1>1, <1>2, <1>3, <1>4 DEF FlightInv
<1>13. MasterInv'
  <2>1. Arrived(Master) /\ pc'[Master] \in {"asleep", "check"} => current_id' = barrier_id
    BY <1>1, <1>6 DEF MasterInv, MasterStep, MasterWait, MasterPass, MasterRecheck,
                      MasterLeave, MasterReturn, SpuriousWakeup, TypeOK
  <2> QED
    BY <1>2, <1>3, <1>6, <1>8, <2>1 DEF MasterInv
<1> QED
  BY <1>2, <1>5, <1>10, <1>11, <1>12, <1>13 DEF NoRepetition

\* A step of a worker's dsm_barrier.  It is the only one that announces the
\* worker, and a release that finds it asleep is of the round it entered.
LEMMA WorkerInv ==
  ASSUME BarrierInv, NEW v \in Workers,
         WorkerEnter(v) \/ WorkerWait(v) \/ WorkerRecvRelease(v)
  PROVE  BarrierInv'
<1> USE DEF BarrierInv
<1>1. v \in Nodes /\ v # Master /\ Workers \subseteq Nodes
  BY BarrierAssumptions DEF Nodes
<1>2. UNCHANGED <<members, linked, arrived, barrier_id, current_id>>
  BY DEF WorkerEnter, WorkerWait, WorkerRecvRelease, roundVars
<1>3. \A n : Arrived(n)' <=> Arrived(n)
  BY <1>2 DEF Arrived
<1>4. \A n \in Nodes : n # v => /\ pc'[n] = pc[n] /\ passed'[n] = passed[n]
                                /\ entered'[n] = entered[n]
  BY <1>1 DEF WorkerEnter, WorkerWait, WorkerRecvRelease, WorkerReturn, TypeOK
<1>5. \A w \in Workers : w # v => toMaster'[w] = toMaster[w] /\ toWorker'[w] = toWorker[w]
  BY DEF WorkerEnter, WorkerWait, WorkerRecvRelease, roundVars, TypeOK
<1>6. CountInv(v) /\ FlightInv(v) /\ barrier_id \in Nat /\ pc[v] \in PC
      /\ entered[v] \in Nat /\ passed[v] \in Nat
      /\ toMaster[v] \in 0..1 /\ toWorker[v] \in 0..1
  BY <1>1 DEF TypeOK
<1>7. ASSUME NEW n \in Nodes, n # v PROVE CountInv(n)'
  BY <1>2, <1>3, <1>4, <1>7 DEF CountInv, InBarrier
<1>8. ASSUME NEW w \in Workers, w # v PROVE FlightInv(w)'
  BY <1>1, <1>2, <1>3, <1>4, <1>5, <1>8 DEF FlightInv
<1>9. MasterInv'
  <2>1. Master \in Nodes
    BY DEF Nodes
  <2> QED
    BY <1>1, <1>2, <1>3, <1>4, <2>1 DEF MasterInv
<1>10. NoRepetition' /\ Len(arrived') < Cardinality(members')
  BY <1>2 DEF NoRepetition
<1>11. CASE WorkerEnter(v)
  <2>1. /\ v \in members /\ pc[v] = "idle" /\ pc'[v] = "entered"
        /\ entered' = [entered EXCEPT ![v] = @ + 1]
        /\ passed' = passed /\ toWorker' = toWorker
        /\ pc' = [pc EXCEPT ![v] = "entered"]
    BY <1>1, <1>11 DEF WorkerEnter, roundVars, TypeOK
  <2>2. entered[v] = barrier_id /\ passed[v] = barrier_id /\ ~Arrived(v)
    BY <1>6, <2>1 DEF CountInv
  <2>3. toMaster[v] = 0 /\ toWorker[v] = 0
    BY <1>6, <2>1, <2>2 DEF FlightInv
  <2>4. entered'[v] = barrier_id + 1
    BY <1>1, <2>1, <2>2 DEF TypeOK
  <2>5. toMaster' \in [Workers -> 0..1]
    BY <1>11, <2>3 DEF WorkerEnter, TypeOK
  <2>6. TypeOK'
    BY <1>1, <1>2, <2>1, <2>5 DEF TypeOK, PC
  <2>7. CountInv(v)'
    BY <1>2, <1>3, <1>6, <2>1, <2>2, <2>4 DEF CountInv, InBarrier
  <2>8. FlightInv(v)'
    BY <1>2, <1>3, <2>1, <2>2, <2>3, <2>4 DEF FlightInv
  <2> QED
    BY <1>7, <1>8, <1>9, <1>10, <2>6, <2>7, <2>8
<1>12. CASE WorkerWait(v)
  <2>1. /\ pc[v] = "entered" /\ pc' = [pc EXCEPT ![v] = "asleep"] /\ pc'[v] = "asleep"
        /\ UNCHANGED <<entered, passed, toMaster, toWorker>>
    BY <1>1, <1>12 DEF WorkerWait, roundVars, TypeOK
  <2>2. TypeOK'
    BY <1>2, <2>1 DEF TypeOK, PC
  <2>3. CountInv(v)' /\ FlightInv(v)'
    BY <1>2, <1>3, <1>6, <2>1 DEF CountInv, FlightInv, InBarrier
  <2> QED
    BY <1>7, <1>8, <1>9, <1>10, <2>2, <2>3
<1>13. CASE WorkerRecvRelease(v)
  <2>1. /\ toWorker[v] = 1 /\ v \in members /\ entered[v] = barrier_id
        /\ pc[v] \in {"entered", "asleep"} /\ passed[v] + 1 = barrier_id
    BY <1>6, <1>13 DEF WorkerRecvRelease, FlightInv, CountInv, InBarrier
  <2>2. /\ toWorker' \in [Workers -> 0..1] /\ toWorker'[v] = 0
        /\ UNCHANGED <<entered, toMaster>>
    BY <1>13, <2>1 DEF WorkerRecvRelease, TypeOK
  <2>3. toMaster[v] # 1
    BY <1>6, <2>1 DEF FlightInv
  <2>4. \/ pc[v] = "asleep" /\ pc'[v] = "idle" /\ passed'[v] = barrier_id
        \/ pc[v] = "entered" /\ pc' = pc /\ passed' = passed
    BY <1>1, <1>13, <2>1 DEF WorkerRecvRelease, WorkerReturn, TypeOK
  <2>5. pc' \in [Nodes -> PC] /\ passed' \in [Nodes -> Nat]
    <3>1. CASE pc[v] = "asleep"
      <4>1. passed' = [passed EXCEPT ![v] = @ + 1] /\ pc' = [pc EXCEPT ![v] = "idle"]
        BY <1>13, <3>1 DEF WorkerRecvRelease, WorkerReturn
      <4>2. passed \in [Nodes -> Nat] /\ pc \in [Nodes -> PC]
        BY DEF TypeOK
      <4>3. pc' \in [Nodes -> PC]
        BY <4>1, <4>2 DEF PC
      <4> QED
        BY <1>1, <4>1, <4>2, <4>3, CountUp
    <3>2. CASE pc[v] # "asleep"
      BY <1>13, <3>2 DEF WorkerRecvRelease, TypeOK
    <3> QED
      BY <3>1, <3>2
  <2>6. TypeOK'
    BY <1>2, <2>2, <2>5 DEF TypeOK
  <2>7. CountInv(v)'
    BY <1>2, <1>3, <1>6, <2>1, <2>2, <2>4 DEF CountInv, InBarrier
  <2>8. FlightInv(v)'
    BY <1>2, <1>3, <1>6, <2>2, <2>3, <2>4 DEF FlightInv
  <2> QED
    BY <1>7, <1>8, <1>9, <1>10, <2>6, <2>7, <2>8
<1> QED
  BY <1>11, <1>12, <1>13

\* A node joins: it counts the rounds that have ended.
LEMMA JoinInv ==
  ASSUME BarrierInv, NEW v \in Workers, Join(v)
  PROVE  BarrierInv'
<1> USE DEF BarrierInv
<1>1. v \in Nodes /\ v # Master /\ Workers \subseteq Nodes /\ Master \in Nodes
  BY BarrierAssumptions DEF Nodes
<1>2. /\ v \notin members /\ members' = members \cup {v}
      /\ linked' \in {linked, linked \cup {v}}
      /\ entered' = [entered EXCEPT ![v] = barrier_id]
      /\ passed' = [passed EXCEPT ![v] = barrier_id]
      /\ UNCHANGED <<arrived, barrier_id, toWorker, current_id, pc, toMaster>>
  BY DEF Join, roundVars
<1>3. \A n : Arrived(n)' <=> Arrived(n)
  BY <1>2 DEF Arrived
<1>4. /\ entered'[v] = barrier_id /\ passed'[v] = barrier_id /\ barrier_id \in Nat
      /\ \A n \in Nodes : n # v => entered'[n] = entered[n] /\ passed'[n] = passed[n]
  BY <1>1, <1>2 DEF TypeOK
<1>5. CountInv(v) /\ FlightInv(v)
  BY <1>1
<1>6. TypeOK'
  BY <1>1, <1>2 DEF TypeOK
<1>7. ASSUME NEW n \in Nodes PROVE CountInv(n)'
  BY <1>2, <1>3, <1>4, <1>5, <1>7 DEF CountInv, InBarrier
<1>8. ASSUME NEW w \in Workers PROVE FlightInv(w)'
  BY <1>1, <1>2, <1>3, <1>4, <1>5 DEF FlightInv
<1>9. MasterInv'
  BY <1>1, <1>2, <1>3, <1>4 DEF MasterInv
<1>10. Len(arrived') < Cardinality(members')
  <2>1. Cardinality(members') = Cardinality(members) + 1
    BY <1>2, MembersFinite, FS_AddElement
  <2> QED
    BY <1>2, <2>1, MembersFinite DEF TypeOK
<1> QED
  BY <1>2, <1>6, <1>7, <1>8, <1>9, <1>10 DEF NoRepetition

\* A worker crashes, and its announcement with it, or not.
LEMMA CrashInv ==
  ASSUME BarrierInv, NEW v \in Workers, Crash(v)
  PROVE  BarrierInv'
<1> USE DEF BarrierInv
<1>1. v \in Nodes /\ v # Master /\ Workers \subseteq Nodes /\ Master \in Nodes
  BY BarrierAssumptions DEF Nodes
<1>2. /\ v \in members
      /\ pc' = [pc EXCEPT ![v] = "crashed"] /\ toWorker' = [toWorker EXCEPT ![v] = 0]
      /\ UNCHANGED <<members, linked, arrived, barrier_id, current_id, entered, passed>>
  BY DEF Crash
<1>3. PICK k \in 0..toMaster[v] : toMaster' = [toMaster EXCEPT ![v] = k]
  BY DEF Crash
<1>4. \A n : Arrived(n)' <=> Arrived(n)
  BY <1>2 DEF Arrived
<1>5. /\ pc'[v] = "crashed" /\ \A n \in Nodes : n # v => pc'[n] = pc[n]
      /\ toWorker'[v] = 0 /\ toMaster'[v] = k /\ (k = 1 => toMaster[v] = 1)
      /\ \A w \in Workers : w # v => toMaster'[w] = toMaster[w] /\ toWorker'[w] = toWorker[w]
  BY <1>1, <1>2, <1>3 DEF TypeOK
<1>6. TypeOK'
  <2>1. toMaster[v] \in 0..1 /\ toMaster \in [Workers -> 0..1]
    BY DEF TypeOK
  <2>2. k \in 0..1
    BY <1>3, <2>1
  <2>3. toMaster' \in [Workers -> 0..1]
    BY <1>3, <2>1, <2>2
  <2>4. toWorker' \in [Workers -> 0..1]
    BY <1>2 DEF TypeOK
  <2>5. pc' \in [Nodes -> PC]
    BY <1>2 DEF TypeOK, PC
  <2> QED
    BY <1>2, <2>3, <2>4, <2>5 DEF TypeOK
<1>7. ASSUME NEW n \in Nodes PROVE CountInv(n)'
  BY <1>2, <1>4, <1>5, <1>7 DEF CountInv, InBarrier
<1>8. ASSUME NEW w \in Workers PROVE FlightInv(w)'
  BY <1>1, <1>2, <1>4, <1>5 DEF FlightInv
<1>9. MasterInv'
  BY <1>1, <1>2, <1>4, <1>5 DEF MasterInv
<1> QED
  BY <1>2, <1>6, <1>7, <1>8, <1>9 DEF NoRepetition

\* The initial state.
LEMMA InitInv == Init => BarrierInv
<1> SUFFICES ASSUME Init PROVE BarrierInv
  OBVIOUS
<1>1. Master \in Nodes /\ Workers \subseteq Nodes /\ Master \notin Workers
  BY BarrierAssumptions DEF Nodes
<1>2. TypeOK
  BY <1>1, BarrierAssumptions DEF Init, TypeOK, PC
<1>3. \A n : ~Arrived(n)
  BY DEF Init, Arrived
<1>4. \A n \in Nodes : CountInv(n)
  BY <1>3 DEF Init, CountInv, InBarrier
<1>5. \A w \in Workers : FlightInv(w)
  BY <1>1 DEF Init, FlightInv
<1>6. MasterInv
  BY <1>1, <1>3 DEF Init, MasterInv
<1>7. NoRepetition /\ Len(arrived) < Cardinality(members)
  <2>1. Cardinality(members) # 0 /\ Cardinality(members) \in Nat
    BY <1>2, <1>6, FS_EmptySet, MembersFinite DEF MasterInv
  <2> QED
    BY <2>1 DEF Init, NoRepetition
<1> QED
  BY <1>2, <1>4, <1>5, <1>6, <1>7 DEF BarrierInv

-----------------------------------------------------------------------------
(* The theorems *)

\* The inductive invariant: an announcement in flight or counted is of the open
\* round, a release in flight of the one before, and no call has returned more
\* often than rounds have ended.
THEOREM BarrierInvariant ==
  ASSUME Spurious \subseteq {Master}
  PROVE  Spec => []BarrierInv
<1>1. BarrierInv /\ [Next]_vars => BarrierInv'
  <2> SUFFICES ASSUME BarrierInv, [Next]_vars PROVE BarrierInv'
    OBVIOUS
  <2>1. ASSUME NEW n \in Nodes, SpuriousWakeup(n) PROVE BarrierInv'
    <3>1. n = Master
      BY <2>1 DEF SpuriousWakeup
    <3> QED
      BY <2>1, <3>1, MasterLoopInv
  <2>2. CASE UNCHANGED vars
    BY <2>2 DEF vars, BarrierInv, TypeOK, NoRepetition, CountInv, FlightInv, MasterInv,
                Arrived, InBarrier
  <2> QED
    BY <2>1, <2>2, MasterEnterInv, MasterLoopInv, MasterRecvEnterInv, WorkerInv, JoinInv,
       CrashInv DEF Next
<1> QED
  BY <1>1, InitInv, PTL DEF Spec

\* Every variable of the barrier keeps its type; at most one announcement and
\* one release per worker are in flight.
THEOREM BarrierTypeCorrect ==
  ASSUME Spurious \subseteq {Master}
  PROVE  Spec => []TypeOK
<1>1. BarrierInv => TypeOK
  BY DEF BarrierInv
<1> QED
  BY <1>1, BarrierInvariant, PTL

\* dsm_sync_handle_barrier_enter never writes beyond barrier.arrived, and a
\* round that is open lacks an arrival.
THEOREM BarrierArrivalsFit ==
  ASSUME Spurious \subseteq {Master}
  PROVE  Spec => []ArrivalsFit
<1>1. BarrierInv => ArrivalsFit
  <2> SUFFICES ASSUME BarrierInv PROVE ArrivalsFit
    OBVIOUS
  <2>1. TypeOK /\ Len(arrived) < Cardinality(members) /\ Len(arrived) \in Nat
    BY DEF BarrierInv, TypeOK
  <2> QED
    BY <2>1, MembersFinite, BarrierAssumptions DEF ArrivalsFit
<1> QED
  BY <1>1, BarrierInvariant, PTL

\* Nobody is counted twice, and who is counted is in the open round.
THEOREM BarrierArrivalsCounted ==
  ASSUME Spurious \subseteq {Master}
  PROVE  Spec => []ArrivalsCounted
<1>1. BarrierInv => ArrivalsCounted
  <2> SUFFICES ASSUME BarrierInv PROVE ArrivalsCounted
    OBVIOUS
  <2>1. ASSUME NEW i \in 1..Len(arrived)
        PROVE  /\ arrived[i] \in members
               /\ entered[arrived[i]] = barrier_id + 1 /\ passed[arrived[i]] = barrier_id
    <3>1. arrived[i] \in Nodes /\ Arrived(arrived[i])
      BY DEF BarrierInv, TypeOK, Arrived
    <3>2. CountInv(arrived[i]) /\ passed[arrived[i]] \in Nat /\ barrier_id \in Nat
      BY <3>1 DEF BarrierInv, TypeOK
    <3> QED
      BY <3>1, <3>2 DEF CountInv
  <2> QED
    BY <2>1 DEF BarrierInv, NoRepetition, ArrivalsCounted
<1> QED
  BY <1>1, BarrierInvariant, PTL

\* No call of dsm_barrier returns before every member has made as many, for any
\* number of nodes, with joins and crashes in the middle of a round.
THEOREM BarrierSafety ==
  ASSUME Spurious \subseteq {Master}
  PROVE  Spec => []BarrierSafe
<1>1. BarrierInv => BarrierSafe
  <2> SUFFICES ASSUME BarrierInv, NEW n \in members, NEW m \in members
               PROVE  passed[n] <= entered[m]
    BY DEF BarrierSafe
  <2>1. n \in Nodes /\ m \in Nodes /\ barrier_id \in Nat /\ passed \in [Nodes -> Nat]
    BY DEF BarrierInv, TypeOK
  <2>2. passed[n] <= barrier_id /\ (entered[m] = barrier_id \/ entered[m] = barrier_id + 1)
    BY <2>1 DEF BarrierInv, CountInv
  <2> QED
    BY <2>1, <2>2
<1> QED
  BY <1>1, BarrierInvariant, PTL

-----------------------------------------------------------------------------
(* The refinement *)

\* Every member has entered as many rounds as have ended, none has passed more.
LEMMA RoundBounds ==
  ASSUME BarrierInv
  PROVE  /\ members \in SUBSET Nodes /\ Master \in members /\ barrier_id \in Nat
         /\ entered \in [Nodes -> Nat] /\ passed \in [Nodes -> Nat]
         /\ \A m \in members : passed[m] <= barrier_id /\ barrier_id <= entered[m]
<1>1. /\ members \in SUBSET Nodes /\ Master \in members /\ barrier_id \in Nat
      /\ entered \in [Nodes -> Nat] /\ passed \in [Nodes -> Nat]
  BY DEF BarrierInv, TypeOK, MasterInv
<1>2. ASSUME NEW m \in members PROVE passed[m] <= barrier_id /\ barrier_id <= entered[m]
  <2>1. CountInv(m)
    BY <1>1 DEF BarrierInv
  <2> QED
    BY <1>1, <2>1 DEF CountInv
<1> QED
  BY <1>1, <1>2

\* A node that is idle in the table may enter.
LEMMA EnterStep ==
  ASSUME BarrierInv, NEW n \in members, pc[n] = "idle",
         entered' = [entered EXCEPT ![n] = @ + 1], UNCHANGED <<members, passed>>
  PROVE  Abstract!Next
<1>1. n \in Nodes
  BY RoundBounds
<1>2. entered[n] = passed[n]
  BY <1>1 DEF BarrierInv, CountInv
<1> QED
  BY <1>1, <1>2 DEF Abstract!Next, Abstract!Enter

\* A node in the barrier whose round has ended may leave.
LEMMA PassStep ==
  ASSUME BarrierInv, NEW n \in Nodes, InBarrier(n), entered[n] = barrier_id,
         passed' = [passed EXCEPT ![n] = @ + 1], UNCHANGED <<members, entered>>
  PROVE  Abstract!Next
<1>1. passed[n] + 1 = entered[n]
  BY DEF BarrierInv, CountInv
<1>2. passed[n] < entered[n] /\ \A m \in members : entered[n] <= entered[m]
  BY <1>1, RoundBounds
<1> QED
  BY <1>2 DEF Abstract!Next, Abstract!Pass

\* The number of rounds ended is the master's count of calls made or returned.
LEMMA MasterCounts ==
  ASSUME BarrierInv
  PROVE  barrier_id \in {entered[Master], passed[Master]}
<1>1. Master \in Nodes /\ passed[Master] \in Nat /\ barrier_id \in Nat
  BY RoundBounds
<1>2. CountInv(Master) /\ MasterInv
  BY <1>1 DEF BarrierInv
<1>3. CASE Arrived(Master)
  <2>1. entered[Master] = barrier_id + 1 /\ passed[Master] <= barrier_id
    BY <1>2, <1>3 DEF CountInv
  <2>2. passed[Master] = entered[Master] \/ passed[Master] + 1 = entered[Master]
    BY <1>2 DEF CountInv, MasterInv
  <2> QED
    BY <1>1, <2>1, <2>2
<1>4. CASE ~Arrived(Master)
  BY <1>2, <1>4 DEF MasterInv
<1> QED
  BY <1>3, <1>4

\* The master leaves its loop only when its round has ended.
LEMMA MasterMayLeave ==
  ASSUME BarrierInv, pc[Master] \in {"entered", "check"},
         \/ arrived = <<>>
         \/ pc[Master] = "check" /\ barrier_id # current_id
  PROVE  InBarrier(Master) /\ entered[Master] = barrier_id
<1>1. ~Arrived(Master)
  BY DEF BarrierInv, MasterInv, Arrived
<1> QED
  BY <1>1 DEF BarrierInv, MasterInv, InBarrier

\* The barrier of dsm_sync.c implements the abstract one: a call is admitted only
\* when the last has returned, it returns only when every member has made as many,
\* and a node that joins counts from the open round.
THEOREM BarrierRefinement ==
  ASSUME Spurious \subseteq {Master}
  PROVE  Spec => ImplementsAbstractBarrier
<1>1. Init => Abstract!Init
  BY BarrierAssumptions DEF Init, Abstract!Init, Nodes
<1>2. BarrierInv /\ [Next]_vars => [Abstract!Next]_(Abstract!vars)
  <2> SUFFICES ASSUME BarrierInv, [Next]_vars
               PROVE  Abstract!Next \/ UNCHANGED <<members, entered, passed>>
    BY DEF Abstract!vars
  <2>1. Master \in Nodes /\ Workers \subseteq Nodes /\ Master \notin Workers
    BY BarrierAssumptions DEF Nodes
  <2>2. CASE MasterEnter
    BY <2>2, RoundBounds, EnterStep DEF MasterEnter
  <2>3. CASE MasterWait \/ MasterRecheck
    BY <2>3 DEF MasterWait, MasterRecheck
  <2>4. CASE MasterPass \/ MasterLeave
    <3>1. InBarrier(Master) /\ entered[Master] = barrier_id
      BY <2>4, MasterMayLeave DEF MasterPass, MasterLeave
    <3> QED
      BY <2>1, <2>4, <3>1, PassStep DEF MasterPass, MasterLeave, MasterReturn
  <2>5. ASSUME NEW w \in Workers, WorkerEnter(w) PROVE Abstract!Next
    BY <2>5, EnterStep DEF WorkerEnter
  <2>6. ASSUME NEW w \in Workers, WorkerWait(w) \/ MasterRecvEnter(w) \/ Crash(w)
        PROVE  UNCHANGED <<members, entered, passed>>
    BY <2>6 DEF WorkerWait, MasterRecvEnter, Crash
  <2>7. ASSUME NEW w \in Workers, WorkerRecvRelease(w)
        PROVE  Abstract!Next \/ UNCHANGED <<members, entered, passed>>
    <3>1. CASE pc[w] = "asleep"
      <4>1. toWorker[w] = 1
        BY <2>7 DEF WorkerRecvRelease, BarrierInv, TypeOK
      <4>2. InBarrier(w) /\ entered[w] = barrier_id
        BY <3>1, <4>1 DEF BarrierInv, FlightInv, InBarrier
      <4> QED
        BY <2>1, <2>7, <3>1, <4>2, PassStep DEF WorkerRecvRelease, WorkerReturn
    <3>2. CASE pc[w] # "asleep"
      BY <2>7, <3>2 DEF WorkerRecvRelease
    <3> QED
      BY <3>1, <3>2
  <2>8. ASSUME NEW w \in Workers, Join(w) PROVE Abstract!Next
    <3>1. /\ w \notin members /\ members' = members \cup {w}
          /\ entered' = [entered EXCEPT ![w] = barrier_id]
          /\ passed' = [passed EXCEPT ![w] = barrier_id]
      BY <2>8 DEF Join
    <3>2. \A j \in members : passed[j] <= barrier_id /\ barrier_id <= entered[j]
      BY RoundBounds
    <3>3. Master \in members
      BY RoundBounds
    <3>4. Abstract!Join(w)
      BY <3>1, <3>2, <3>3, MasterCounts DEF Abstract!Join
    <3> QED
      BY <2>1, <3>4 DEF Abstract!Next
  <2>9. ASSUME NEW n \in Nodes, SpuriousWakeup(n) PROVE UNCHANGED <<members, entered, passed>>
    BY <2>9 DEF SpuriousWakeup
  <2>10. CASE UNCHANGED vars
    BY <2>10 DEF vars
  <2> QED
    BY <2>2, <2>3, <2>4, <2>5, <2>6, <2>7, <2>8, <2>9, <2>10 DEF Next, MasterStep
<1> QED
  BY <1>1, <1>2, BarrierInvariant, PTL DEF Spec, ImplementsAbstractBarrier, Abstract!Spec
=============================================================================
