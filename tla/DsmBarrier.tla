----------------------------- MODULE DsmBarrier -----------------------------
(***************************************************************************)
(* The barrier of dsm_sync.c.  Workers announce themselves to the master   *)
(* with BARRIER_ENTER and then sleep on a condition variable; the master   *)
(* collects arrivals in an array and, when as many have arrived as its     *)
(* node table has nodes, sends BARRIER_RELEASE to the workers among them,  *)
(* empties the array and wakes its own application thread.                 *)
(*                                                                         *)
(* As in DsmLock, every node has one application thread and one TCP        *)
(* thread, and a critical section of the barrier's mutex is one step.      *)
(* Nodes join while the program runs (the master's UDP thread adds them to *)
(* the node table); nothing ever removes one from the master's table.      *)
(***************************************************************************)
EXTENDS Integers, Sequences, FiniteSets

CONSTANTS
  Master,      \* the node whose role is DSM_ROLE_MASTER
  Workers,     \* the other nodes
  Founders,    \* the workers in the node table from the start
  Spurious,    \* nodes whose pthread_cond_wait may return without a signal
  MayCrash,    \* workers that may crash
  MaxNodes,    \* DSM_MAX_NODES: capacity of barrier.arrived
  MaxRounds    \* bound: calls of dsm_barrier per node

Nodes == {Master} \cup Workers

ASSUME BarrierAssumptions ==
  /\ Master \notin Workers
  /\ Founders \subseteq Workers
  /\ Spurious \subseteq Nodes
  /\ MayCrash \subseteq Workers
  /\ MaxRounds \in Nat /\ MaxNodes \in Nat
  /\ IsFiniteSet(Workers)
  /\ Cardinality(Workers) < MaxNodes

VARIABLES
  members,     \* the nodes in the master's node table
  linked,      \* the workers with a connection to the master (master_fd >= 0)
  arrived,     \* barrier.arrived[0 .. arrived_count-1]
  barrier_id,  \* barrier.barrier_id of the master: rounds completed
  current_id,  \* the local variable of the master's dsm_barrier
  pc,          \* where a node's application thread is
  toMaster,    \* toMaster[w]: BARRIER_ENTER messages on their way from w
  toWorker,    \* toWorker[w]: BARRIER_RELEASE messages on their way to w
  \* history: the calls of dsm_barrier a node has made, and that returned
  entered, passed

roundVars == <<arrived, barrier_id, toWorker>>
vars == <<members, linked, arrived, barrier_id, current_id, pc, toMaster, toWorker,
          entered, passed>>

(* Program counter of an application thread:
     idle     not in dsm_barrier
     entered  has announced itself; the next step takes the mutex to wait
     asleep   in pthread_cond_wait
     check    (master) woken, about to evaluate the while condition
     crashed  the node is gone                                             *)
PC == {"idle", "entered", "asleep", "check", "crashed"}

Init ==  \* dsm_sync_init, after discovery
  /\ members = {Master} \cup Founders
  /\ linked = Founders
  /\ arrived = <<>>
  /\ barrier_id = 0
  /\ current_id = 0
  /\ pc = [n \in Nodes |-> "idle"]
  /\ toMaster = [w \in Workers |-> 0]
  /\ toWorker = [w \in Workers |-> 0]
  /\ entered = [n \in Nodes |-> 0]
  /\ passed = [n \in Nodes |-> 0]

\* The two outcomes of an arrival.  p is the program counter after the caller's
\* own move; `nodes' are sent a release.
ReleaseRound(nodes, p) ==
  /\ arrived' = <<>>
  /\ barrier_id' = barrier_id + 1
  /\ toWorker' = [w \in Workers |->
        IF w \in nodes /\ pc[w] # "crashed" THEN toWorker[w] + 1 ELSE toWorker[w]]
  /\ pc' = [p EXCEPT ![Master] = IF @ = "asleep" THEN "check" ELSE @]
RecordArrival(now, p) ==
  /\ arrived' = now
  /\ pc' = p
  /\ UNCHANGED <<barrier_id, toWorker>>

\* Faulty variants of the handler below, for the mutation runs: the round ends
\* one arrival late, or one early; the last arrival is not released; the
\* array is not emptied.
EnterOneLate(from, p) ==
  LET now == Append(arrived, from)
  IN  IF Len(now) > Cardinality(members)
      THEN ReleaseRound({now[i] : i \in 1..Len(now)}, p) ELSE RecordArrival(now, p)
EnterOneEarly(from, p) ==
  LET now == Append(arrived, from)
  IN  IF Len(now) >= Cardinality(members) - 1
      THEN ReleaseRound({now[i] : i \in 1..Len(now)}, p) ELSE RecordArrival(now, p)
EnterForgetsLast(from, p) ==
  LET now == Append(arrived, from)
  IN  IF Len(now) >= Cardinality(members)
      THEN ReleaseRound({arrived[i] : i \in 1..Len(arrived)}, p) ELSE RecordArrival(now, p)
EnterWithoutReset(from, p) ==
  LET now == Append(arrived, from)
  IN  IF Len(now) >= Cardinality(members)
      THEN /\ arrived' = now
           /\ barrier_id' = barrier_id + 1
           /\ toWorker' = [w \in Workers |-> toWorker[w] + 1]
           /\ pc' = [p EXCEPT ![Master] = IF @ = "asleep" THEN "check" ELSE @]
      ELSE RecordArrival(now, p)

\* dsm_sync_handle_barrier_enter: record the arrival; if all nodes of the table
\* have arrived, release the workers among them and wake the master's thread.
HandleBarrierEnter(from, p) ==
  LET now == Append(arrived, from)
  IN  IF Len(now) >= Cardinality(members)
      THEN ReleaseRound({now[i] : i \in 1..Len(now)}, p)
      ELSE RecordArrival(now, p)

-----------------------------------------------------------------------------
(* The master's dsm_barrier *)

MasterEnter ==
  /\ pc[Master] = "idle"
  /\ entered[Master] < MaxRounds
  /\ entered' = [entered EXCEPT ![Master] = @ + 1]
  /\ HandleBarrierEnter(Master, [pc EXCEPT ![Master] = "entered"])
  /\ UNCHANGED <<members, linked, current_id, toMaster, passed>>

\* The mutex is taken again: current_id is read, and the loop condition is
\* evaluated at once (barrier_id == current_id holds).
MasterWait ==
  /\ pc[Master] = "entered"
  /\ current_id' = barrier_id
  /\ arrived # <<>>
  /\ pc' = [pc EXCEPT ![Master] = "asleep"]
  /\ UNCHANGED <<members, linked, roundVars, toMaster, entered, passed>>

MasterReturn ==
  /\ passed' = [passed EXCEPT ![Master] = @ + 1]
  /\ pc' = [pc EXCEPT ![Master] = "idle"]
  /\ UNCHANGED <<members, linked, roundVars, toMaster, entered>>

MasterPass ==
  /\ pc[Master] = "entered"
  /\ current_id' = barrier_id
  /\ arrived = <<>>
  /\ MasterReturn

MasterRecheck ==
  /\ pc[Master] = "check"
  /\ barrier_id = current_id /\ arrived # <<>>
  /\ pc' = [pc EXCEPT ![Master] = "asleep"]
  /\ UNCHANGED <<members, linked, roundVars, current_id, toMaster, entered, passed>>

\* Faulty variant: the loop is an if.
MasterLeaveAnyway ==
  /\ pc[Master] = "check"
  /\ MasterReturn
  /\ UNCHANGED current_id

MasterLeave ==
  /\ pc[Master] = "check"
  /\ ~(barrier_id = current_id /\ arrived # <<>>)
  /\ MasterReturn
  /\ UNCHANGED current_id

MasterRecvEnter(w) ==  \* case DSM_MSG_BARRIER_ENTER, in the TCP thread
  /\ toMaster[w] > 0
  /\ toMaster' = [toMaster EXCEPT ![w] = @ - 1]
  /\ HandleBarrierEnter(w, pc)
  /\ UNCHANGED <<members, linked, current_id, entered, passed>>

-----------------------------------------------------------------------------
(* A worker's dsm_barrier *)

\* Sends BARRIER_ENTER over master_fd; without a connection it logs an error
\* and goes on to wait all the same.
WorkerEnter(w) ==
  /\ w \in members
  /\ pc[w] = "idle"
  /\ entered[w] < MaxRounds
  /\ entered' = [entered EXCEPT ![w] = @ + 1]
  /\ toMaster' = IF w \in linked THEN [toMaster EXCEPT ![w] = @ + 1]
                                 ELSE toMaster
  /\ pc' = [pc EXCEPT ![w] = "entered"]
  /\ UNCHANGED <<members, linked, roundVars, current_id, passed>>

WorkerWait(w) ==  \* pthread_cond_wait, without looking at anything first
  /\ pc[w] = "entered"
  /\ pc' = [pc EXCEPT ![w] = "asleep"]
  /\ UNCHANGED <<members, linked, roundVars, current_id, toMaster, entered, passed>>

\* pthread_cond_wait returns, and dsm_barrier with it: there is no loop.
WorkerReturn(w) ==
  /\ pc' = [pc EXCEPT ![w] = "idle"]
  /\ passed' = [passed EXCEPT ![w] = @ + 1]

\* case DSM_MSG_BARRIER_RELEASE: broadcasts, and leaves no trace of itself.
WorkerRecvRelease(w) ==
  /\ toWorker[w] > 0
  /\ toWorker' = [toWorker EXCEPT ![w] = @ - 1]
  /\ IF pc[w] = "asleep" THEN WorkerReturn(w) ELSE UNCHANGED <<pc, passed>>
  /\ UNCHANGED <<members, linked, arrived, barrier_id, current_id, toMaster, entered>>

-----------------------------------------------------------------------------
(* The environment *)

SpuriousWakeup(n) ==
  /\ n \in Spurious
  /\ pc[n] = "asleep"
  /\ IF n = Master
     THEN pc' = [pc EXCEPT ![n] = "check"] /\ UNCHANGED passed
     ELSE WorkerReturn(n)
  /\ UNCHANGED <<members, linked, roundVars, current_id, toMaster, entered>>

\* The master's UDP thread adds a node to the table; whether the node's
\* master_fd is set depends on when it accepts the connection.  Its history
\* starts with the rounds completed so far.
Join(w) ==
  /\ w \notin members
  /\ members' = members \cup {w}
  /\ linked' \in {linked, linked \cup {w}}
  /\ entered' = [entered EXCEPT ![w] = barrier_id]
  /\ passed' = [passed EXCEPT ![w] = barrier_id]
  /\ UNCHANGED <<roundVars, current_id, pc, toMaster>>

\* The node dies.  Its announcement may or may not get through; it stays in
\* the master's node table and, if it had arrived, in the array.
Crash(w) ==
  /\ w \in MayCrash /\ w \in members
  /\ pc[w] # "crashed"
  /\ pc' = [pc EXCEPT ![w] = "crashed"]
  /\ toWorker' = [toWorker EXCEPT ![w] = 0]
  /\ \E k \in 0..toMaster[w] : toMaster' = [toMaster EXCEPT ![w] = k]
  /\ UNCHANGED <<members, linked, arrived, barrier_id, current_id, entered, passed>>

-----------------------------------------------------------------------------

MasterStep == MasterWait \/ MasterPass \/ MasterRecheck \/ MasterLeave

Next == \/ MasterEnter \/ MasterStep
        \/ \E w \in Workers : \/ WorkerEnter(w) \/ WorkerWait(w)
                              \/ MasterRecvEnter(w) \/ WorkerRecvRelease(w)
                              \/ Join(w) \/ Crash(w)
        \/ \E n \in Nodes : SpuriousWakeup(n)

Spec == Init /\ [][Next]_vars

\* Threads are scheduled and connections deliver; whether and when an
\* application enters the barrier is its own affair.
Fairness == /\ WF_vars(MasterStep)
            /\ \A w \in Workers : /\ WF_vars(WorkerWait(w))
                                  /\ WF_vars(MasterRecvEnter(w))
                                  /\ WF_vars(WorkerRecvRelease(w))
FairSpec == Spec /\ Fairness

-----------------------------------------------------------------------------
(* Properties *)

TypeOK ==
  /\ members \in SUBSET Nodes /\ linked \in SUBSET Workers
  /\ arrived \in Seq(Nodes)
  /\ barrier_id \in Nat /\ current_id \in Nat
  /\ pc \in [Nodes -> PC]
  /\ toMaster \in [Workers -> 0..1] /\ toWorker \in [Workers -> 0..1]
  /\ entered \in [Nodes -> Nat] /\ passed \in [Nodes -> Nat]

\* The array of arrivals cannot overflow: its next index is inside it, and
\* below the number of nodes the round waits for, so the round can end.
ArrivalsFit == Len(arrived) < Cardinality(members) /\ Len(arrived) < MaxNodes

\* No node leaves the barrier before every member has entered it as often,
\* also when nodes join in the middle of a round, crash, or enter the next
\* round while releases of the last one are still on their way.
BarrierSafe == \A n, m \in members : passed[n] <= entered[m]

\* Nobody is counted twice in a round, which would let it end without someone:
\* the nodes in the array have entered the open round and not left it.
ArrivalsCounted ==
  /\ \A i, j \in 1..Len(arrived) : arrived[i] = arrived[j] => i = j
  /\ \A i \in 1..Len(arrived) :
       /\ arrived[i] \in members
       /\ entered[arrived[i]] = barrier_id + 1 /\ passed[arrived[i]] = barrier_id

\* The barrier implements the abstract barrier.
Abstract == INSTANCE AbstractBarrier
ImplementsAbstractBarrier == Abstract!Spec

InBarrier(n) == pc[n] \in {"entered", "asleep", "check"}

\* Every member has entered the k-th round and can be heard by the master.
Ready(k) == \A m \in members : /\ entered[m] >= k /\ pc[m] # "crashed"
                              /\ m \in linked \cup {Master}

\* When every member has entered, the round ends on the master's side, unless
\* a node joins it or crashes meanwhile.
RoundCompletes ==
  \A k \in 1..MaxRounds : Ready(k) ~> (barrier_id >= k \/ ~Ready(k))

\* A worker that is asleep before its round ends is released by it.
SleeperReleased ==
  \A w \in Workers : \A k \in 1..MaxRounds :
    (pc[w] = "asleep" /\ entered[w] = k /\ barrier_id < k /\ Ready(k))
      ~> (passed[w] >= k \/ ~Ready(k))

\* Every worker that is in the barrier when all members have entered it
\* leaves it again.
WorkerPasses ==
  \A w \in Workers : \A k \in 1..MaxRounds :
    (InBarrier(w) /\ entered[w] = k /\ Ready(k)) ~> (passed[w] >= k \/ ~Ready(k))

-----------------------------------------------------------------------------
(* The inductive invariant behind the safety properties, for workers whose
   pthread_cond_wait does not return by itself. *)

Arrived(n) == \E i \in 1..Len(arrived) : arrived[i] = n
NoRepetition == \A i, j \in 1..Len(arrived) : arrived[i] = arrived[j] => i = j

\* A member has entered the open round or the one before, and passed no more
\* than the rounds that have ended.
CountInv(n) ==
  /\ n \in members => /\ entered[n] = barrier_id \/ entered[n] = barrier_id + 1
                      /\ passed[n] = entered[n] \/ passed[n] + 1 = entered[n]
                      /\ passed[n] <= barrier_id
  /\ n \notin members => pc[n] = "idle"
  /\ n \in members /\ pc[n] = "idle" => entered[n] = barrier_id /\ passed[n] = barrier_id
  /\ InBarrier(n) => passed[n] + 1 = entered[n]
  /\ Arrived(n) => n \in members /\ entered[n] = barrier_id + 1

\* An announcement in flight belongs to the open round and is not counted yet;
\* a release in flight belongs to the round that has ended.
FlightInv(w) ==
  /\ pc[w] # "check"
  /\ toMaster[w] = 1 => w \in members /\ ~Arrived(w) /\ entered[w] = barrier_id + 1
  /\ toWorker[w] = 1 => w \in members /\ pc[w] \in {"entered", "asleep"}
                         /\ entered[w] = barrier_id

\* The master counts itself in the step in which it enters, and while it is
\* counted its loop compares with the open round.
MasterInv ==
  /\ Master \in members /\ pc[Master] # "crashed"
  /\ ~Arrived(Master) => entered[Master] = barrier_id
  /\ Arrived(Master) /\ pc[Master] \in {"asleep", "check"} => current_id = barrier_id

BarrierInv ==
  /\ TypeOK
  /\ NoRepetition /\ Len(arrived) < Cardinality(members)
  /\ \A n \in Nodes : CountInv(n)
  /\ \A w \in Workers : FlightInv(w)
  /\ MasterInv
=============================================================================
