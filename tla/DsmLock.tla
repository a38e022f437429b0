------------------------------- MODULE DsmLock -------------------------------
(***************************************************************************)
(* The distributed lock service of dsm_sync.c.                             *)
(*                                                                         *)
(* The master keeps, for every lock, whether it is locked, by whom, and    *)
(* the queue of waiting workers.  A worker asks for a lock with a          *)
(* LOCK_REQUEST over its TCP connection to the master, sleeps on a         *)
(* condition variable until its TCP thread has received the LOCK_GRANT,    *)
(* and gives the lock up with a LOCK_RELEASE.  The master's own            *)
(* application uses the same lock structure directly, sleeping on its      *)
(* condition variable while a worker holds the lock; it is never in the    *)
(* queue of waiters.                                                       *)
(*                                                                         *)
(* Each node runs one application thread (which calls dsm_lock and         *)
(* dsm_unlock) and one TCP server thread (which runs dsm_handle_message).  *)
(* A critical section of a lock's mutex is one step.  A handler of the     *)
(* master sends its grant after it has left the mutex; the model sends it  *)
(* in the same step, which loses no behaviour: until the grant arrives     *)
(* nobody but its receiver could change that lock's state, and the         *)
(* receiver is waiting for it.                                             *)
(***************************************************************************)
EXTENDS Integers, Sequences, FiniteSets

CONSTANTS
  Master,     \* the node whose role is DSM_ROLE_MASTER
  Workers,    \* the other nodes, each with its id assigned by the master
  NoNode,     \* holder_id of a free lock (0 in the code)
  Locks,      \* the valid lock ids
  MaxNodes,   \* DSM_MAX_NODES: capacity of a lock's array of waiters
  Unlinked,   \* workers without a connection to the master (master_fd < 0)
  MayCrash,   \* the workers that may crash
  Careless,   \* nodes that also unlock locks they do not hold
  MaxInFlight \* bound: unprocessed messages of a careless worker

Nodes == {Master} \cup Workers
Linked == Nodes \ Unlinked

\* dsm_node_table_add refuses a node beyond DSM_MAX_NODES and the master is
\* one of them, so there are fewer workers than slots in a waiters array.
ASSUME LockAssumptions ==
  /\ Master \notin Workers
  /\ NoNode \notin Nodes
  /\ Unlinked \subseteq Workers
  /\ MayCrash \subseteq Workers
  /\ Careless \subseteq Nodes
  /\ MaxInFlight \in Nat
  /\ MaxNodes \in Nat
  /\ IsFiniteSet(Workers)
  /\ Cardinality(Workers) < MaxNodes

VARIABLES
  \* the master's array ctx->locks
  locked,     \* locked[l]
  holder_id,  \* holder_id[l]
  waiters,    \* waiters[l]: the nodes queued for l, waiters[0..waiter_count-1]
  \* every node
  granted,    \* granted[w]: the locks whose local entry at worker w has
              \* locked = true and holder_id = local_node_id
  pc,         \* where the node's application thread is
  arg,        \* the lock_id of its current (or last) dsm_lock / dsm_unlock
  held,       \* the locks it holds, by the calls that have returned to it
  \* the TCP connections
  toMaster,   \* toMaster[w]: LOCK_REQUEST and LOCK_RELEASE from w
  toWorker    \* toWorker[w]: the lock ids of the LOCK_GRANTs sent to w

masterVars == <<locked, holder_id, waiters>>
appVars == <<pc, arg, held>>
vars == <<locked, holder_id, waiters, granted, pc, arg, held, toMaster, toWorker>>

\* A message on a worker's connection to the master.
Request(l) == [type |-> "LOCK_REQUEST", lock |-> l]
Release(l) == [type |-> "LOCK_RELEASE", lock |-> l]
Message == [type : {"LOCK_REQUEST", "LOCK_RELEASE"}, lock : Locks]

(* Program counter of an application thread:
     idle     not in a call of the lock API
     check    in dsm_lock, about to evaluate the condition of its while loop
     asleep   in pthread_cond_wait of dsm_lock
     clear    in a worker's dsm_unlock, about to clear the local lock entry
     crashed  the node is gone                                             *)
PC == {"idle", "check", "asleep", "clear", "crashed"}

Init ==  \* dsm_sync_init, on every node
  /\ locked = [l \in Locks |-> FALSE]
  /\ holder_id = [l \in Locks |-> NoNode]
  /\ waiters = [l \in Locks |-> <<>>]
  /\ granted = [w \in Workers |-> {}]
  /\ pc = [n \in Nodes |-> "idle"]
  /\ arg \in [Nodes -> Locks]
  /\ held = [n \in Nodes |-> {}]
  /\ toMaster = [w \in Workers |-> <<>>]
  /\ toWorker = [w \in Workers |-> <<>>]

-----------------------------------------------------------------------------
(* The master's handlers *)

\* A grant for a node that is gone is lost with its connection.
SendGrant(w, l) ==
  toWorker' = IF pc[w] = "crashed" THEN toWorker
                                   ELSE [toWorker EXCEPT ![w] = Append(@, l)]

HandleLockRequest(from, l) ==  \* dsm_sync_handle_lock_request
  \/ /\ ~locked[l]
     /\ locked' = [locked EXCEPT ![l] = TRUE]
     /\ holder_id' = [holder_id EXCEPT ![l] = from]
     /\ SendGrant(from, l)
     /\ UNCHANGED waiters
  \/ /\ locked[l]
     /\ waiters' = IF Len(waiters[l]) < MaxNodes
                   THEN [waiters EXCEPT ![l] = Append(@, from)]
                   ELSE waiters    \* "waiter queue full": dropped
     /\ UNCHANGED <<locked, holder_id, toWorker>>

\* Faulty variants of the handler below, for the mutation runs: a release is
\* taken from anyone; the last waiter is served first; the lock is freed
\* although workers wait for it.
ReleaseByAnyone(from, l) ==
  IF locked[l] /\ waiters[l] = <<>>
  THEN /\ locked' = [locked EXCEPT ![l] = FALSE]
       /\ holder_id' = [holder_id EXCEPT ![l] = NoNode]
       /\ UNCHANGED <<waiters, toWorker>>
  ELSE UNCHANGED <<masterVars, toWorker>>
ReleaseToLast(from, l) ==
  IF locked[l] /\ holder_id[l] = from
  THEN LET k == Len(waiters[l])
       IN  /\ locked' = [locked EXCEPT ![l] = k > 0]
           /\ holder_id' = [holder_id EXCEPT ![l] = IF k > 0 THEN waiters[l][k] ELSE NoNode]
           /\ waiters' = [waiters EXCEPT ![l] = SubSeq(@, 1, k - 1)]
           /\ IF k > 0 THEN SendGrant(waiters[l][k], l) ELSE UNCHANGED toWorker
  ELSE UNCHANGED <<masterVars, toWorker>>
ReleaseIgnoringWaiters(from, l) ==
  IF locked[l] /\ holder_id[l] = from
  THEN /\ locked' = [locked EXCEPT ![l] = FALSE]
       /\ holder_id' = [holder_id EXCEPT ![l] = NoNode]
       /\ waiters' = [waiters EXCEPT ![l] = <<>>]
       /\ UNCHANGED toWorker
  ELSE UNCHANGED <<masterVars, toWorker>>

HandleLockRelease(from, l) ==  \* dsm_sync_handle_lock_release
  \/ /\ ~locked[l] \/ holder_id[l] # from    \* refused with a warning
     /\ UNCHANGED <<masterVars, toWorker>>
  \/ /\ locked[l] /\ holder_id[l] = from
     /\ waiters[l] # <<>>
     /\ holder_id' = [holder_id EXCEPT ![l] = Head(waiters[l])]
     /\ waiters' = [waiters EXCEPT ![l] = Tail(@)]
     /\ SendGrant(Head(waiters[l]), l)
     /\ UNCHANGED locked
  \/ /\ locked[l] /\ holder_id[l] = from
     /\ waiters[l] = <<>>
     /\ locked' = [locked EXCEPT ![l] = FALSE]
     /\ holder_id' = [holder_id EXCEPT ![l] = NoNode]
     /\ UNCHANGED <<waiters, toWorker>>

-----------------------------------------------------------------------------
(* The master's TCP thread *)

MasterRecvRequest(w) ==  \* case DSM_MSG_LOCK_REQUEST
  /\ toMaster[w] # <<>>
  /\ Head(toMaster[w]).type = "LOCK_REQUEST"
  /\ HandleLockRequest(w, Head(toMaster[w]).lock)
  /\ toMaster' = [toMaster EXCEPT ![w] = Tail(@)]
  /\ UNCHANGED <<granted, appVars>>

MasterRecvRelease(w) ==  \* case DSM_MSG_LOCK_RELEASE: no condition is signalled
  /\ toMaster[w] # <<>>
  /\ Head(toMaster[w]).type = "LOCK_RELEASE"
  /\ HandleLockRelease(w, Head(toMaster[w]).lock)
  /\ toMaster' = [toMaster EXCEPT ![w] = Tail(@)]
  /\ UNCHANGED <<granted, appVars>>

-----------------------------------------------------------------------------
(* The master's application thread *)

MasterLock(l) ==  \* enters dsm_lock
  /\ pc[Master] = "idle"
  /\ pc' = [pc EXCEPT ![Master] = "check"]
  /\ arg' = [arg EXCEPT ![Master] = l]
  /\ UNCHANGED <<masterVars, granted, held, toMaster, toWorker>>

\* Faulty variant: the master queues itself like a worker.
MasterSleepQueued ==
  /\ pc[Master] = "check"
  /\ locked[arg[Master]] /\ holder_id[arg[Master]] # Master
  /\ pc' = [pc EXCEPT ![Master] = "asleep"]
  /\ waiters' = [waiters EXCEPT ![arg[Master]] = Append(@, Master)]
  /\ UNCHANGED <<locked, holder_id, granted, arg, held, toMaster, toWorker>>

MasterSleep ==  \* the while condition holds: pthread_cond_wait
  /\ pc[Master] = "check"
  /\ locked[arg[Master]] /\ holder_id[arg[Master]] # Master
  /\ pc' = [pc EXCEPT ![Master] = "asleep"]
  /\ UNCHANGED <<masterVars, granted, arg, held, toMaster, toWorker>>

MasterAcquire ==  \* the while condition fails: take the lock and return
  /\ pc[Master] = "check"
  /\ ~(locked[arg[Master]] /\ holder_id[arg[Master]] # Master)
  /\ locked' = [locked EXCEPT ![arg[Master]] = TRUE]
  /\ holder_id' = [holder_id EXCEPT ![arg[Master]] = Master]
  /\ held' = [held EXCEPT ![Master] = @ \cup {arg[Master]}]
  /\ pc' = [pc EXCEPT ![Master] = "idle"]
  /\ UNCHANGED <<waiters, granted, arg, toMaster, toWorker>>

\* dsm_unlock on the master.  Its pthread_cond_signal wakes other threads of
\* the master's application; here the only one is the caller.
MasterUnlock(l) ==
  /\ pc[Master] = "idle"
  /\ HandleLockRelease(Master, l)
  /\ held' = [held EXCEPT ![Master] = @ \ {l}]
  /\ UNCHANGED <<granted, pc, arg, toMaster>>

-----------------------------------------------------------------------------
(* A worker's application thread *)

WorkerLock(w, l) ==  \* dsm_lock: send the request, go on to the wait loop
  /\ pc[w] = "idle"
  /\ w \notin Unlinked
  /\ toMaster' = [toMaster EXCEPT ![w] = Append(@, Request(l))]
  /\ pc' = [pc EXCEPT ![w] = "check"]
  /\ arg' = [arg EXCEPT ![w] = l]
  /\ UNCHANGED <<masterVars, granted, held, toWorker>>

WorkerLockUnlinked(w, l) ==  \* dsm_lock: logs "master not connected", returns
  /\ pc[w] = "idle"
  /\ w \in Unlinked
  /\ held' = [held EXCEPT ![w] = @ \cup {l}]
  /\ UNCHANGED <<masterVars, granted, pc, arg, toMaster, toWorker>>

WorkerSleep(w) ==  \* the while condition holds: pthread_cond_wait
  /\ pc[w] = "check"
  /\ arg[w] \notin granted[w]
  /\ pc' = [pc EXCEPT ![w] = "asleep"]
  /\ UNCHANGED <<masterVars, granted, arg, held, toMaster, toWorker>>

WorkerAcquire(w) ==  \* the while condition fails: dsm_lock returns
  /\ pc[w] = "check"
  /\ arg[w] \in granted[w]
  /\ held' = [held EXCEPT ![w] = @ \cup {arg[w]}]
  /\ pc' = [pc EXCEPT ![w] = "idle"]
  /\ UNCHANGED <<masterVars, granted, arg, toMaster, toWorker>>

WorkerUnlock(w, l) ==  \* dsm_unlock: send the release (if connected) ...
  /\ pc[w] = "idle"
  /\ toMaster' = IF w \in Unlinked
                 THEN toMaster
                 ELSE [toMaster EXCEPT ![w] = Append(@, Release(l))]
  /\ held' = [held EXCEPT ![w] = @ \ {l}]
  /\ pc' = [pc EXCEPT ![w] = "clear"]
  /\ arg' = [arg EXCEPT ![w] = l]
  /\ UNCHANGED <<masterVars, granted, toWorker>>

\* Faulty variant: the local entry is left as it is.
WorkerClearNothing(w) ==
  /\ pc[w] = "clear"
  /\ pc' = [pc EXCEPT ![w] = "idle"]
  /\ UNCHANGED <<masterVars, granted, arg, held, toMaster, toWorker>>

WorkerClear(w) ==  \* ... then clear the local lock entry
  /\ pc[w] = "clear"
  /\ granted' = [granted EXCEPT ![w] = @ \ {arg[w]}]
  /\ pc' = [pc EXCEPT ![w] = "idle"]
  /\ UNCHANGED <<masterVars, arg, held, toMaster, toWorker>>

-----------------------------------------------------------------------------
(* A worker's TCP thread *)

\* Faulty variant: the condition variable is not signalled.
WorkerRecvGrantSilently(w) ==
  /\ toWorker[w] # <<>>
  /\ granted' = [granted EXCEPT ![w] = @ \cup {Head(toWorker[w])}]
  /\ toWorker' = [toWorker EXCEPT ![w] = Tail(@)]
  /\ UNCHANGED <<masterVars, appVars, toMaster>>

WorkerRecvGrant(w) ==  \* case DSM_MSG_LOCK_GRANT: set the entry and signal
  /\ toWorker[w] # <<>>
  /\ LET l == Head(toWorker[w])
     IN  /\ granted' = [granted EXCEPT ![w] = @ \cup {l}]
         /\ pc' = IF pc[w] = "asleep" /\ arg[w] = l
                  THEN [pc EXCEPT ![w] = "check"] ELSE pc
  /\ toWorker' = [toWorker EXCEPT ![w] = Tail(@)]
  /\ UNCHANGED <<masterVars, arg, held, toMaster>>

-----------------------------------------------------------------------------
(* The environment *)

SpuriousWakeup(n) ==  \* pthread_cond_wait may return without a signal
  /\ pc[n] = "asleep"
  /\ pc' = [pc EXCEPT ![n] = "check"]
  /\ UNCHANGED <<masterVars, granted, arg, held, toMaster, toWorker>>

\* The node dies.  Of what it had sent, a prefix still reaches the master,
\* which closes the connection and otherwise does nothing (handle_client_data).
Crash(w) ==
  /\ w \in MayCrash
  /\ pc[w] # "crashed"
  /\ pc' = [pc EXCEPT ![w] = "crashed"]
  /\ held' = [held EXCEPT ![w] = {}]
  /\ granted' = [granted EXCEPT ![w] = {}]
  /\ toWorker' = [toWorker EXCEPT ![w] = <<>>]
  /\ \E k \in 0..Len(toMaster[w]) :
       toMaster' = [toMaster EXCEPT ![w] = SubSeq(@, 1, k)]
  /\ UNCHANGED <<masterVars, arg>>

-----------------------------------------------------------------------------

\* An application locks what it does not hold and unlocks what it holds.
\* A careless one unlocks other locks too: dsm.h calls that undefined
\* behaviour, and the master is there to refuse it.
MayUnlock(n, l) == \/ l \in held[n]
                   \/ n \in Careless /\ (n # Master => Len(toMaster[n]) < MaxInFlight)

AppLock(n) == \E l \in Locks \ held[n] :
                IF n = Master THEN MasterLock(l)
                              ELSE WorkerLock(n, l) \/ WorkerLockUnlinked(n, l)
UnlockStep(n, l) == IF n = Master THEN MasterUnlock(l) ELSE WorkerUnlock(n, l)
AppUnlock(n) == \E l \in Locks : MayUnlock(n, l) /\ UnlockStep(n, l)
AppStep(n) == IF n = Master THEN MasterSleep \/ MasterAcquire
              ELSE WorkerSleep(n) \/ WorkerAcquire(n) \/ WorkerClear(n)
MasterRecv(w) == MasterRecvRequest(w) \/ MasterRecvRelease(w)

Next == \/ \E n \in Nodes : \/ AppLock(n) \/ AppUnlock(n) \/ AppStep(n)
                            \/ SpuriousWakeup(n)
        \/ \E w \in Workers : MasterRecv(w) \/ WorkerRecvGrant(w) \/ Crash(w)

Spec == Init /\ [][Next]_vars

\* Threads are scheduled and connections deliver; an application that holds
\* a lock unlocks it.  Nothing obliges a condition variable to wake up
\* spuriously, an application to lock, or a node to crash.
Fairness == /\ \A n \in Nodes :
                 /\ WF_vars(AppStep(n))
                 /\ \A l \in Locks : WF_vars(l \in held[n] /\ UnlockStep(n, l))
            /\ \A w \in Workers : WF_vars(MasterRecv(w)) /\ WF_vars(WorkerRecvGrant(w))

FairSpec == Spec /\ Fairness

-----------------------------------------------------------------------------
(* Properties *)

TypeOK ==
  /\ locked \in [Locks -> BOOLEAN]
  /\ holder_id \in [Locks -> Nodes \cup {NoNode}]
  /\ waiters \in [Locks -> Seq(Workers)]
  /\ granted \in [Workers -> SUBSET Locks]
  /\ pc \in [Nodes -> PC]
  /\ arg \in [Nodes -> Locks]
  /\ held \in [Nodes -> SUBSET Locks]
  /\ toMaster \in [Workers -> Seq(Message)]
  /\ toWorker \in [Workers -> Seq(Locks)]

\* Between the return of dsm_lock and the call of dsm_unlock at one node that
\* is connected to the master, no other such node is between its own: not
\* while grants and releases cross on the wire, a worker has sent its release
\* but not yet cleared its entry, nodes crash, or nodes unlock carelessly.
MutualExclusion ==
  \A l \in Locks : \A m, n \in Linked :
    l \in held[m] /\ l \in held[n] => m = n

\* Where the request of a waiting worker is.
Waiting(w, l) == pc[w] \in {"check", "asleep"} /\ arg[w] = l
Has(q, e) == \E i \in 1..Len(q) : q[i] = e
Queued(w, l) == Has(waiters[l], w)
Requested(w, l) == Has(toMaster[w], Request(l))
GrantInFlight(w, l) == Has(toWorker[w], l)
Granted(w, l) == /\ locked[l] /\ holder_id[l] = w
                 /\ GrantInFlight(w, l) \/ l \in granted[w]

\* The request of a worker waiting in dsm_lock is never lost and never doubled:
\* it is on its way, in the queue, or answered -- exactly one of them -- and a
\* worker that sleeps on its condition variable has its signal still to come.
NoRequestLost ==
  \A w \in Workers, l \in Locks :
    Waiting(w, l) =>
      /\ \/ Requested(w, l) /\ ~Queued(w, l) /\ ~Granted(w, l)
         \/ ~Requested(w, l) /\ Queued(w, l) /\ ~Granted(w, l)
         \/ ~Requested(w, l) /\ ~Queued(w, l) /\ Granted(w, l)
      /\ pc[w] = "asleep" => l \notin granted[w]

PassesToFirst(l) ==
  /\ locked'[l]
  /\ holder_id'[l] \in {holder_id[l], Head(waiters[l])}
  /\ holder_id'[l] # holder_id[l] => waiters'[l] = Tail(waiters[l])

\* The master's wait queue is served in order and nobody overtakes it: while
\* workers wait for a lock it stays locked, and it passes only to the first.
ServedInOrder ==
  [][\A l \in Locks : waiters[l] # <<>> => PassesToFirst(l)]_vars

\* The lock service implements the abstract lock for the connected nodes.
Abstract == INSTANCE AbstractLock WITH
              Nodes <- Linked,
              owners <- [l \in Locks |-> {n \in Linked : l \in held[n]}]
ImplementsAbstractLock == Abstract!Spec

SomeCrash == \E w \in Workers : pc[w] = "crashed"

\* A connected worker that calls dsm_lock eventually holds the lock, as long as
\* every holder unlocks and no node crashes (a crash may leave a lock locked).
WorkerAcquires ==
  \A w \in Workers : \A l \in Locks : Waiting(w, l) ~> (l \in held[w] \/ SomeCrash)

\* The same for the application on the master.
MasterAcquires ==
  \A l \in Locks : Waiting(Master, l) ~> (l \in held[Master] \/ SomeCrash)

-----------------------------------------------------------------------------
(* The inductive invariant behind MutualExclusion, NoRequestLost,          *)
(* ServedInOrder and the refinement; DsmLockProofs proves it.  Its core is *)
(* that a worker with a claim to a lock -- a grant on its way, or recorded *)
(* and not being given up -- is the master's holder of that lock and has   *)
(* nothing about it in flight or in the queue.                             *)

OnlyLast(q, e) == \A i \in 1..Len(q) : q[i] = e => i = Len(q)
Distinct(q) == \A i, j \in 1..Len(q) : q[i] = q[j] => i = j

Clearing(w, l) == pc[w] = "clear" /\ arg[w] = l
Releasing(w, l) == Has(toMaster[w], Release(l))
Claim(w, l) == GrantInFlight(w, l) \/ (l \in granted[w] /\ ~Clearing(w, l))
WaitingOrGone(w, l) == Waiting(w, l) \/ pc[w] = "crashed"

ClaimInv(w, l) == Claim(w, l) =>
  /\ locked[l] /\ holder_id[l] = w
  /\ ~Queued(w, l) /\ ~Requested(w, l) /\ ~Releasing(w, l)
GrantInv(w, l) == GrantInFlight(w, l) =>
  /\ toWorker[w] = <<l>> /\ Waiting(w, l) /\ l \notin granted[w]
GrantedInv(w, l) == l \in granted[w] =>
  l \in held[w] \/ Waiting(w, l) \/ Clearing(w, l)
HeldInv(w, l) == w \notin Unlinked /\ l \in held[w] =>
  l \in granted[w] /\ ~Clearing(w, l)
RequestInv(w, l) == Requested(w, l) =>
  OnlyLast(toMaster[w], Request(l)) /\ WaitingOrGone(w, l)
QueuedInv(w, l) == Queued(w, l) => toMaster[w] = <<>> /\ WaitingOrGone(w, l)
GoneInv(w) == pc[w] = "crashed" =>
  granted[w] = {} /\ held[w] = {} /\ toWorker[w] = <<>>
QueueInv(l) ==
  /\ waiters[l] # <<>> => locked[l]
  /\ Distinct(waiters[l])
MasterInv(l) == l \in held[Master] => locked[l] /\ holder_id[l] = Master
\* A sleeper's signal is still to come; a waiting request is somewhere.
WaitInv(w, l) == Waiting(w, l) =>
  /\ Requested(w, l) \/ Queued(w, l) \/ Claim(w, l)
  /\ pc[w] = "asleep" => l \notin granted[w]

PairInv(w, l) ==
  /\ ClaimInv(w, l) /\ GrantInv(w, l) /\ GrantedInv(w, l) /\ HeldInv(w, l)
  /\ RequestInv(w, l) /\ QueuedInv(w, l) /\ WaitInv(w, l)

LockInv ==
  /\ TypeOK
  /\ \A l \in Locks : QueueInv(l) /\ MasterInv(l)
  /\ \A w \in Workers : GoneInv(w)
  /\ \A w \in Workers, l \in Locks : PairInv(w, l)
=============================================================================
