# TLA+ models of the DSM library

This directory holds a verification development of the distributed shared memory
library in `../src` (C, POSIX threads, TCP and UDP sockets). It models the parts of
the library whose correctness depends on the order in which threads and nodes act:
the lock service, the barrier, demand paging, the address spaces and the tables that
describe them, the framing of messages on TCP connections, and the way nodes find a
master and become members. TLC checks the models on small instances; TLAPS proves the safety
of the lock service, of the barrier, of paging, of the address spaces, of the framing and of
joining, for instances of every size.

Paths such as `dsm_sync.c:293` are relative to the repository's own `src/` and
`include/` directories.

## 1. The system

A program linked with the library runs on several hosts of a LAN. One node is the
*master*, the others are *workers*; TCP connections exist only between the master
and each worker, and the master opens them. Every node runs

- the **application thread**, which calls the API of `dsm.h`,
- the **TCP thread** (`tcp_server_thread_func`), which accepts connections, reads
  messages and runs `dsm_handle_message`,
- the **UDP listener** (`udp_listener_thread_func`), which answers discovery,
- the **fault thread** (`fault_handler_thread_func`), which fetches pages.

They share one `dsm_context_t`.

| Component | State | Operations | Talks to |
|---|---|---|---|
| Locks (`dsm_sync.c`) | master: `locked`, `holder_id`, `waiters[]` per lock; worker: a local entry per lock | `dsm_lock`, `dsm_unlock`, handlers of `LOCK_REQUEST`, `LOCK_RELEASE`, `LOCK_GRANT` | worker <-> master over TCP; application <-> TCP thread over a condition variable |
| Barrier (`dsm_sync.c`) | master: `arrived[]`, `barrier_id`; worker: only a condition variable | `dsm_barrier`, handlers of `BARRIER_ENTER`, `BARRIER_RELEASE` | the same, and the node table's count |
| Demand paging (`dsm_pagefault.c`, `dsm_memory.c`) | page state, protection and bytes; `pending_fault_addr`, `fault_handled`, the eventfd | `sigsegv_handler`, `dsm_page_fault_handle`, `dsm_page_send`, `dsm_page_install`, `dsm_malloc`, `dsm_malloc_at`, `dsm_map_remote` | application -> fault thread -> owner's TCP thread -> own TCP thread |
| Membership (`dsm_init.c`, `dsm_udp.c`, `dsm_network.c`, `dsm_tcp.c`) | role, id, node table, `master_found`, `master_fd` | `dsm_init`, `dsm_finalize`, UDP listener, node table operations, handlers of `JOIN_RESPONSE`, `NODE_TABLE`, `SHUTDOWN` | UDP broadcast and reply, TCP |
| Allocation, ownership, regions (`dsm_memory.c`) | ownership hash table, page table, region list, `next_global_addr` | `dsm_mem_init`, `dsm_malloc`, `dsm_malloc_at`, `dsm_map_remote`, `dsm_free`, `dsm_mem_shutdown`, searches by global and by local address | paging, the kernel's `mmap` |
| Transport (`dsm_tcp.c`) | sockets, epoll set, receive buffer | `dsm_tcp_send`, `dsm_tcp_send_raw`, `handle_client_data`, epoll loop, broadcast | everybody; several threads of a node share a connection |
| Heartbeats, status, logging | `last_heartbeat` | handled, but never sent or read | - |

What is hard to test in this code: condition variables that are signalled under one
mutex while the state is guarded by another or not at all; plain variables shared
between a signal handler and two threads; values read after a mutex was released;
messages that cross on the wire; a timeout racing a late answer; nodes that join,
crash or leave in the middle of a protocol; fixed-size arrays. `PROJECT.json` lists
these hazards line by line under `hazards`, each with the properties that would catch it.

What makes each component correct:

- *Locks*: one holder; no request lost or doubled; waiters served in order; everybody
  who asks gets the lock.
- *Barrier*: nobody leaves before all members have entered; the arrivals fit their
  array and nobody is counted twice; everybody leaves again.
- *Paging*: the spinning handler is always released; an access sees bytes of the owner,
  never older than before; a page state says the truth about its protection; reads and
  writes complete.
- *Allocation*: regions, mappings and page table describe the same memory; a search finds
  the page that is meant; `dsm_free` removes what it is given; a page holds its owner's bytes.
- *Transport*: messages are handled whole, once and in order, however they are cut on the
  way; nothing that has arrived stays unread; the end of a connection is noticed.
- *Membership*: one master; unique ids on which all agree; tables that are consistent
  and converge; a connection; departures become known.

## 2. The modules

| Module | What it is |
|---|---|
| `AbstractLock` | what `dsm_lock` / `dsm_unlock` promise |
| `DsmLock` | the lock service; its properties and its inductive invariant |
| `DsmLockProofs` | the theorems about `DsmLock` and their proofs |
| `AbstractBarrier` | what `dsm_barrier` promises |
| `DsmBarrier` | the barrier; its properties and its inductive invariant |
| `DsmBarrierProofs` | the theorems about `DsmBarrier` and their proofs |
| `DsmPaging` | page faults, page transfer and installation; its properties and two inductive invariants |
| `DsmPagingProofs` | the theorems about `DsmPaging`, timeouts included, and their proofs |
| `DsmFetchProofs` | those about fetches before a first wait has expired |
| `DsmMemory` | allocation, regions, page and ownership tables, and the faults that use them; its inductive invariant |
| `DsmMemoryProofs` | the theorems about `DsmMemory` and their proofs |
| `DsmFraming` | sending, arrival and reading of header and payload on TCP connections; its inductive invariant |
| `DsmFramingProofs` | the theorems about `DsmFraming` and their proofs |
| `AbstractMembership` | what `dsm_init` / `dsm_finalize` promise about ids and node tables |
| `DsmMembership` | discovery, roles, ids, node tables, departure; its two inductive invariants |
| `DsmMembershipProofs` | the theorem about `OneMaster` and its proof |
| `DsmJoinProofs` | those about types, ids, node tables and the abstract list of members |
| `MCDsmLock`, `MCDsmBarrier`, `MCDsmPaging`, `MCDsmMemory`, `MCDsmFraming`, `MCDsmMembership` | instances for TLC |

Operators introduced by the comment "Faulty variant" are plausible mistakes. No
specification uses them; each replaces the definition after it in a mutation run
(`mutants` in `PROJECT.json`) to show that a property notices the mistake.

Conventions common to all modules: a critical section of a mutex is one step; a
TCP connection is a FIFO sequence of whole messages (`DsmFraming` looks into when that
is justified); an application makes its calls
whenever it likes; `map` in `PROJECT.json` gives the lines behind every definition.

### DsmLock

`locked`, `holder_id`, `waiters` are the master's `dsm_lock_t`; `granted[w]` is the
set of locks whose local entry at worker `w` has `locked` and its own id. The master's
application and the handlers of its TCP thread work on the same entry; a worker sends,
then loops on `pthread_cond_wait` (`check` and `asleep` are the two halves of the
loop). `dsm_unlock` of a worker is two steps, `WorkerUnlock` (send) and `WorkerClear`
(reset the entry), because grants may arrive in between. The history variable `held`
records which calls have returned to the application, and all properties speak of
it. `Unlinked` workers have `master_fd < 0`; `Careless` nodes unlock locks they do not
hold; `MayCrash` workers die at any moment, of what they sent a prefix arrives, and
the master notices nothing but the end of the connection. Sending the grant in the
same step as the hand-over is sound because until it arrives only its receiver,
which waits for it, could touch that lock again.

### DsmBarrier

`HandleBarrierEnter` is the master's critical section, run by its TCP thread and by
its own `dsm_barrier`, which then takes the mutex a second time (`MasterWait`,
`MasterPass`) and only there reads `current_id`. A worker's `pthread_cond_wait` has no
loop, so `WorkerRecvRelease` returns from the call if the worker is asleep and is
forgotten otherwise. `linked` are the workers whose `master_fd` is set; a worker without
it announces nothing and waits all the same (`WorkerEnter`). `entered` and `passed` count calls and returns. A node that joins
counts the rounds completed so far. `AbstractBarrier` has the same three variables and
lets a node pass only if all members have entered as often.

### DsmPaging

One master owns pages; workers map them. Each worker has three threads:
the application (`app`: `run`, `store`, `spin`), the fault thread (`ft`) and the TCP
thread (`tcp`, the four stages of `dsm_page_install`). The stores of the handler and
the last two stores of the fault thread may take effect in either order
(`appStores`, `ftStores`), since `pending_fault_addr` is neither volatile nor atomic.
The content of a page is the number of its owner's writes it reflects, `Unfetched`
the zero bytes of a fresh mapping. `FaultTimeout` is the ten-second deadline, allowed
at any moment. `linked` are the workers whose `master_fd` is set; the history variable
`orderly` has the workers that have never given up a wait nor mapped a page too early.
Workers have their ids, to which answers are addressed;
`DsmMemory` has the requests sent before.

### DsmMemory

Addresses and sizes are counted in pages. `regions` is the list behind `ctx->regions`,
`pages` the page table in the order of registration, `ownership` the master's hash
table; all are searched from the front, as the code does. `prot` and `bytes` are what
the kernel knows of a node's address space: `bytes[n][l]` says whose data the page holds,
as a pair of node and global address, so that a wrong page shows. `Holes` is `mmap`: any
gap, or, with `Anywhere` false, the highest one, which is what Linux does. Calls of the
application are one step each; a fault is reduced to its decisions (own page: enable
access; page of the master: ask, wait, give up when no answer can come), its threads
being the subject of `DsmPaging`. A worker in `Late` may run `dsm_mem_init` before its id
has arrived, as `dsm_init` allows. Its requests then carry `src_node` 0, for which
`dsm_tcp_send` finds no node (`Connected`): the answer is dropped, and the fault is repeated
when its wait is over, by then perhaps with the id. `MallocAt` respects the rule of `dsm.h` that one node
allocates at an address; `dsm_malloc` respects nothing, since every node counts from the
same base.

### DsmFraming

The streams towards one node. A message is `HeaderCells` cells of header, the first with
the magic and the last with `payload_len`, and its payload. `WriteCells` is one `send()`,
which may take part of what it is given; a thread sends header and payload by separate
loops (`dsm_tcp_send_raw`), and no lock keeps two threads apart. `Arrive` brings cells in
pieces of any size. The TCP thread serves one connection at a time: `EpollWait`, then the
loop of `handle_client_data` with its five ways out (`PeekEof`, `PeekEmpty`, `PeekShort`,
and in `ReadHeader` a bad magic or length; `ReadEof`). Connections in `Edge` are told of
once per arrival, the others as long as they are readable. `errno` matters
(`eagain`), because the payload loop looks at it also when `recv` has returned 0; every call
between two events and in a handler may leave it at EAGAIN or at something else. A header
put together from two messages has any length (`LenRead`). A payload is taken never to
contain the magic where a header is looked for.

### DsmMembership

`Start` is `dsm_init` as far as the wait for the reply; `BecomeWorker`, `BecomeMaster`
and `AddSelf` are the rest, with the gap between role and table entry. The UDP
listener of a master takes four steps per newcomer: reply and connect; enter in the
table; `SendJoinResponse`; `NodeTableBroadcast`. A node that leaves keeps its connections
until its process ends but reads them no more, so `Reset` treats them as closed. `udp` is a set of datagrams that may stay undelivered; `Prompt`
excludes that a deadline passes while one for that node is on its way. Node tables are
sequences of entries, and `NodeTableAdd`, `Serialize`, `Deserialize` and
`NodeTableRemove` are the functions of `dsm_network.c`. `Early` are the nodes that may
start while no master is up. `BecomeMaster` sets role and id in one step.
`AbstractMembership` has one list of members, which only grows; a node's place in it is its
id, and each node knows a part from the front. The list is the master's node table, founded
by `AddSelf`, which is when the master's id counts.

## 3. What TLC checks

Runs that pass:

| Run | Instance | Shows |
|---|---|---|
| `lock_service` | master, 3 connected workers (2 may crash) and 1 unconnected, 1 lock, careless unlocks | `MutualExclusion`, `NoRequestLost`, `ServedInOrder`, `ImplementsAbstractLock`, `WorkerAcquires` |
| `barrier_rounds` | master, 2 founders (1 may crash), 1 late joiner with or without connection, 3 rounds | `ArrivalsFit`, `BarrierSafe`, `ArrivalsCounted`, `ImplementsAbstractBarrier`, `RoundCompletes`, `SleeperReleased` |
| `page_faults` | 1 worker with or without connection, 2 pages, reads and writes, timeouts, mapping before allocation | `NoLostFault`, `SleeperSignalled`, `PagesSettled`, `FetchedOnce`, `FirstFetchHidden`, `NeverOlder`, `ReadCompletes` |
| `mem_space` | master and 1 worker with a late id, 3 local pages each, 2 calls each, frees, the master may leave | `RegionsBacked`, `FreesWhatItIsGiven`, `RightBytesIfDistinct`, `OwnerFound`, `ReadsComplete` |
| `frames` | an edge-triggered connection with 2 sending threads, a level-triggered one whose peer may die | `FramesIntact`, `MessagesHandled`, `EofNoticed` |
| `join_safety` | 4 nodes, table of 3, one leaves and returns | `OneMaster`, `IdsAgree`, `TablesConsistent`, `ImplementsAbstractMembership` |
| `join_fair` | 3 nodes, the master and a worker may leave | `JoinCompletes`, `TablesConverge`, `MasterDepartureKnown` |

All but `join_fair` also check their module's `TypeOK`.

Runs that show a disagreement between the code and what its documentation says
(`findings` in `PROJECT.json` quotes the line):

| Run | Violates | What happens |
|---|---|---|
| `lock_master_wakeup` | `MasterAcquires` | the master sleeps in `dsm_lock` although the lock is free: a worker's release signals nobody (`dsm_sync.c:173`) |
| `barrier_lost_release` | `WorkerPasses` | the release arrives before the worker waits and is lost (`dsm_sync.c:400`) |
| `page_early_return` | `SeesOwnersData` | `dsm_page_install` opens a page before it fills it, and the `fault_handled` of an earlier page ends the spin in between: the application reads zero bytes (`dsm_memory.c:388`) |
| `mem_reuse` | `RightBytes` | a page mapped where a freed page was is taken for the freed one and never fetched (`dsm_memory.c:524`) |
| `join_unlinked` | `WorkerLinked` | a connection accepted too early leaves `master_fd` unset (`dsm_tcp.c:284`) |

The passing runs state what does hold beside these. `SleeperReleased` is `WorkerPasses` for
a worker already asleep. `FirstFetchHidden` says that the window of `dsm_page_install` stays
hidden until a node has fetched its first page or given up on one. `RightBytesIfDistinct` and
`ReadsComplete` are about states in which no page table has two entries for one address,
`FreesWhatItIsGiven` about such a page table. `MasterDepartureKnown` is about the node
whose table has sockets. `join_safety` starts the other nodes once a master is up.

The models contain more behaviour of this kind, for which no run is kept. The first five
contradict the documentation as well:

- The master reads `barrier_id` after `dsm_sync_handle_barrier_enter` has left the mutex. If
  its round ends in between and a worker enters the next one, `arrived_count` is above 0 and
  the id it compares with is the new one: it sleeps until a round that needs its own arrival
  (`dsm_sync.c:369`; in `DsmBarrier`, `MasterWait` after `ReleaseRound`; `dsm.h:163`:
  "Execution blocks until all nodes have reached the barrier").
- A worker that leaves tells nobody: the entries of its table have no sockets
  (`dsm_network.c:324`, `dsm_tcp.c:670`), and it stays in the master's table (`dsm.h:66-67`:
  "Sends clean disconnect to all peers", "Updates metadata on master"). `MasterDepartureKnown`
  would fail with workers included, and `AbstractMembership` has a list that only grows.
- With two nodes in `Early`, `OneMaster` fails: nodes that wait at the same time do not answer
  each other, and both become master (`dsm_udp.c:101`; `README.md:8`: "first node becomes
  master").
- The same global address mapped twice: installations go to the first mapping, and an access
  to the second faults forever (`dsm_memory.c:254`; `dsm.h:113`: "The first access will trigger
  a page fault and fetch the data").
- A worker's `dsm_malloc` asks nobody and may get an address the master owns
  (`dsm_memory.c:714`; `dsm_memory.h:34`: "For workers, this requests allocation from master").
- A worker's write to a page of the master never completes: a write fault on a SHARED page
  of another owner is "already valid", the handler returns without write access, and
  the instruction faults again (`dsm_pagefault.c:196`).
- When a worker maps a page of the master at a global address it has itself handed out, the
  installation finds the worker's own page first and overwrites it
  (`dsm_memory.c:385`).
- `dsm_mem_init` before the id has arrived files the local region under owner 0, at the
  global address of the first `dsm_malloc` (`dsm_memory.c:621`).
- A request for a page the master has freed finds its entry in the page table; reading the
  unmapped page kills the master (`dsm_memory.c:353`).
- `dsm_ownership_get` finds an allocation under its first page only, the others being in
  other buckets (`dsm_memory.c:41`). It does no harm: the table is only consulted by a master
  that faults on a page that is not its own, and it maps none.
- Once two threads have written at the same time (`overlap`), `FramesIntact` and
  `MessagesHandled` fail: after a bad magic or length the loop is left, but the stream is not
  brought back to the start of a message (`dsm_tcp.c:323`).
- If a peer dies in the middle of a payload, `recv` returns 0 and leaves `errno` alone. If it
  was EAGAIN the payload loop never ends and no other connection is served again
  (`dsm_tcp.c:343`). If it dies in the middle of a header, a level-triggered socket is
  reported again and again and never closed (`dsm_tcp.c:312`).
- `WorkerLockUnlinked`: `dsm_lock` on a worker without a connection logs an error and
  returns nothing, so its caller goes on as if it held the lock (`dsm_sync.c:280`).
  `MutualExclusion` is therefore about connected nodes.
- With a worker in `Spurious`, `BarrierSafe` fails: its `pthread_cond_wait` stands in no
  loop (`dsm_sync.c:400`).
- `FaultExpire` marks a page INVALID without looking at its state again; a page installed
  in the meantime ends INVALID and readable (`dsm_pagefault.c:324`). The next access does
  not fault, so reads still complete.
- Without `Prompt`, `OneMaster` fails also when the nodes start one after the other: one lost
  or late datagram decides the role (`dsm_udp.c:298`).
- With two nodes in `Early`, a node admitted between `BecomeMaster` and `AddSelf` gets id 1,
  the master's (`dsm_network.c:104`).
- The owner's page stays MODIFIED and writable while workers hold copies of it, and nothing
  invalidates them (`dsm_memory.c:353`).

### Bounds

- One lock in `lock_service`: with two, applications that take both in opposite order
  block each other and no lock service could help. That locks do not disturb one another
  is part of what is proved below.
- `MaxInFlight = 2` (locks): a careless worker could send releases without end; two
  unprocessed messages allow a stray release ahead of and behind a proper one.
- `MaxRounds = 3`: a round, its successor (releases of the first still on their
  way) and one more, so that every effect on the next round can itself have one.
- `MaxWrites = 1`, `MaxInFlight = 2` (paging): two versions of a page, and two answers in
  flight, enough for a late answer to be installed after a retry's request.
  `page_early_return` has `MaxInFlight = 0`: its counterexample needs no timeout.
- Two pages in the paging runs: one whose fault is over and one whose fault is under way, which
  is what the single `fault_handled` and `pending_fault_addr` can mix up. One worker: workers
  share nothing but the owner, whose steps do not depend on them (`OthersUntouched` in
  `DsmFetchProofs`). It writes one of the pages.
- `mem_space`: three local pages hold the local region and two more, so that a page freed is
  the next one mapped; the one agreed address, 3, lies inside the range `dsm_malloc` hands
  out, so that addresses collide; two buckets make allocations of two pages straddle them.
- `frames`: a header of two cells can be cut once, a payload of two likewise; the buffers
  hold four cells, two headers or one whole message; one message per thread.
- `MaxStarts = 2` (`join_safety`): one departure and return.
- `MaxNodes` is chosen so that the arrays are as full as the node table lets them
  become; in `join_safety` one node too many asks for a place.

Symmetry is declared only in `join_safety`, for the nodes that start late and stay, and in
no run that checks liveness. `CHECK_DEADLOCK FALSE` stands in the barrier, membership,
memory and framing runs, whose rounds, starts, calls and messages are bounded and whose nodes
may wait for one that has crashed or will never come.

### Fairness

Weak fairness on the steps of each thread (the operating system schedules it) and on
the delivery of a non-empty TCP connection. `DsmLock` also assumes that a holder
unlocks. Calls of the application, crashes, departures, starts and spurious wakeups
are never forced. In `DsmPaging` the owner is assumed to allocate the pages in use
eventually, as `dsm.h` demands, and `FaultTimeout` is strongly fair: the deadline is
absolute, so wakeups in between do not postpone it. In `DsmMemory` a late worker is told its
id eventually (`JoinResponse`), which is what `JoinCompletes` shows of `DsmMembership`. In `DsmFraming`, `EpollWait` is
strongly fair for each connection: it is only called when the thread is done with the
others, and `epoll_wait` reports ready descriptors in turn.

## 4. What is proved

`DsmLockProofs`, for any finite set of workers smaller than `MaxNodes`, any set of
locks, and any choice of unconnected, crashing and careless nodes
(`LockAssumptions`):

- `LockTypeCorrect`: `Spec => []TypeOK`
- `LockInvariant`: `Spec => []LockInv`
- `LockMutualExclusion`: `Spec => []MutualExclusion`
- `LockNoRequestLost`: `Spec => []NoRequestLost`
- `LockServedInOrder`: `Spec => ServedInOrder`
- `LockRefinement`: `Spec => ImplementsAbstractLock`

`MutualExclusion` is not inductive: it speaks of returned calls, while a second
holder would come from a stray grant, a stale local entry or a doubled request many
steps earlier. `LockInv` therefore follows a request through its life. Its core is
`ClaimInv`: a worker with a *claim* to a lock - a grant on its way, or a recorded one
that it is not giving up - is the master's `holder_id`, and has no request, release
or queue entry for that lock. `GrantInv` says a grant in flight is the only one and its
receiver waits for it; `RequestInv` and `QueuedInv` that a request is the last thing
its sender sent, and that nothing follows a queued one; `GrantedInv` and `HeldInv` tie
the local entry to the calls; `WaitInv` that a waiting request is somewhere and a
sleeper's signal is still to come; `QueueInv` that only a locked lock has a queue, without
repetitions; `MasterInv` and `GoneInv` deal with the master's own holding and with crashed
nodes. The proof has one lemma per action; `PairUnchanged` covers the pairs of worker
and lock that an action does not touch, `Capacity` bounds the queue (distinct workers,
fewer than `MaxNodes`), so that the "queue full" branch is never taken. The temporal
theorems follow from `LockInvariant`, the refinement from one lemma per kind of step.

`DsmBarrierProofs`, for any finite set of workers smaller than `MaxNodes`, any founders,
any crashes and joins and any number of rounds (`BarrierAssumptions`), if only the master's
`pthread_cond_wait` returns without a signal (`Spurious \subseteq {Master}`, an assumption
of each theorem; section 3 shows that the worker's unguarded wait needs it):

- `BarrierInvariant`: `Spec => []BarrierInv`
- `BarrierTypeCorrect`: `Spec => []TypeOK`
- `BarrierArrivalsFit`: `Spec => []ArrivalsFit`
- `BarrierArrivalsCounted`: `Spec => []ArrivalsCounted`
- `BarrierSafety`: `Spec => []BarrierSafe`
- `BarrierRefinement`: `Spec => ImplementsAbstractBarrier`

`BarrierSafe` is not inductive: a node that passes too early was released by a wrong count,
or by a release of an earlier round that reached it late. In `BarrierInv`, `CountInv` says
that every member has entered the open round or the one before, and passed no more than the
rounds that have ended, and that who is counted has entered the open one; `FlightInv` that
an announcement in flight is of the open round and not counted yet, and a release in flight
of the round before, whose receiver is still in it; `MasterInv` that the master is counted
from its entry on and that its loop compares with the open round. `NoRepetition` and the
lemma `Counting` (distinct arrivals from among the members, as many as there are members,
are all the members) give the step that ends a round. The array holds fewer arrivals than
the table has nodes, so it never overflows. The refinement has one step per action: a round
number is always the master's count of calls made or returned, which is what a node that
joins adopts.

`DsmPagingProofs`, for any sets of workers and pages, reads and writes, unconnected workers,
with or without timeouts and mappings made before the allocation (`PagingAssumptions`):

- `PagingInvariant`: `Spec => []PagingInv`
- `PagingTypeCorrect`: `Spec => []TypeOK`
- `PagingNoLostFault`: `Spec => []NoLostFault`
- `PagingSleeperSignalled`: `Spec => []SleeperSignalled`
- `PagingPagesSettled`: `Spec => []PagesSettled`
- `PagingNeverOlder`: `Spec => NeverOlder`

The three invariants among them are inductive together with `ThreadInv` (which stores, page
and message a thread has at hand where it is), `FillInv` (bytes already copied but not yet
closed are the owner's) and `VersionInv`, which `NeverOlder` rests on: answers travel in the
order of the owner's writes, none is newer than the owner's page, and none in flight is older
than what is installed. That holds for late answers too, because the connection is a queue.

`DsmFetchProofs`, in the same generality:

- `FetchInvariant`: `Spec => []FetchInv`
- `FetchOnce`: `Spec => []FetchedOnce`
- `FetchFirstHidden`: `Spec => []FirstFetchHidden`

`FetchInv` adds to `PagingInv`, for each worker in `orderly`, that pages in use are mapped and
allocated (`MappedInv`), that at most one request or answer is on its way, for the page the
fault thread waits for (`TransferInv`), and that until a first page is installed nobody stores
1 in `fault_handled` for an earlier fault (`FirstFaultInv`), so that the handler spins while
the page is filled. Both theorems are about the workers in `orderly`, and cannot be about
more: a wait that expires makes a second request, and a page mapped before its owner has
allocated it is answered only after one. `FetchFirstHidden` is about a node's first page:
`page_early_return` shows that the window is open for the second.

`DsmMemoryProofs`, for any number of workers, local pages, buckets, sizes and agreed addresses,
any placement by `mmap`, late ids, frees and departures (`MemoryAssumptions`):

- `MemoryInvariant`: `Spec => []MemoryInv`
- `MemoryTypeCorrect`: `Spec => []TypeOK`
- `MemoryRegionsBacked`: `Spec => []RegionsBacked`
- `MemoryFreesWhatItIsGiven`: `Spec => []FreesWhatItIsGiven`
- `MemoryRightBytes`: `Spec => []RightBytesIfDistinct`
- `MemoryOwnerFound`: `Spec => []OwnerFound`

`MemoryInv` has a part that always holds and a part for orderly states (no page table with two
entries for one address, nobody finalized; order that is lost does not come back). Always:
`SpaceInv` says that regions are mapped, registered and disjoint and that nothing else is
mapped; `PhaseInv` that a node has its first region from `dsm_mem_init` on; `OwnerInv`
that every region of the master is filed under its first page and all filed owners are 1;
`IdInv` that a worker never has the master's id. `dsm_free` then destroys the region it was
given: a region that covers the same global address has an entry for it, and the two entries
are one. Orderly: `BytesInv` says for each page of each region how it is protected and
what it holds, and `FlightInv` that requests and answers are about pages registered as the
master's and answers carry the master's bytes. The searches from the front are reasoned about
through `SearchFacts`, whose core, `LeastNumber`, gets the least element of a set of numbers
from the well-foundedness of strict inclusion between intervals.

`DsmFramingProofs`, for any connections, threads, lengths, capacities and numbers of messages,
edge- or level-triggered, with peers that may die (`FramingAssumptions`):

- `FrameInvariant`: `Spec => []FrameInv`
- `FramingTypeCorrect`: `Spec => []TypeOK`
- `FramingFramesIntact`: `Spec => []FramesIntact`

`FramesIntact` is about connections on which no two threads have written at the same time.
`FrameInv` sees the messages sent on such a connection as a tape: `start[j]` is the number of
cells before message `j`, the cells read but not handled and those in the stream are a window
of the tape that begins at the first message not handled (`Tape`), and it ends where the
writing thread is (`WriterInv`). `ReceiverInv` ties the reader's step to what it has read.
A header read at the start of the window is therefore a message's own header, and the length
it takes from it the right one. The existence of `start` stands for a sum over the list of
messages, and spares the proof an induction over that list.

`DsmMembershipProofs`:

- `MembershipOneMaster`: `Spec => []OneMaster`, if for some node `f` only `f` may start
  before there is a master (`Early \subseteq {f}`), `f` does not leave, and no deadline
  passes while a datagram for the waiting node is on its way (`Prompt`)

`MasterInv(f)` says that another node runs only beside the master `f`, and that one that
waits has its answer, or its question or the reply is on its way. `join_safety` is an
instance that meets the conditions; section 3 says what happens without each of them.

`DsmJoinProofs`, without further conditions (`MembershipAssumptions`):

- `MembershipTypeCorrect`: `Spec => []TypeOK`; no table grows beyond `MaxNodes`

and under the conditions of `MembershipOneMaster`:

- `JoinInvariant`: `Spec => []JoinInv(f)`
- `MembershipIdsAgree`: `Spec => []IdsAgree`
- `MembershipTablesConsistent`: `Spec => []TablesConsistent`
- `MembershipRefinement`: `Spec => ImplementsAbstractMembership`

`JoinInv(f)` adds to `MasterInv(f)` that the master's table is a register (`RegisterInv`: an
entry's place is its id, no node has two, the master is the first), that questions come from
running nodes and connections lead from the master to the others (`LinkInv`, so that a
worker's SHUTDOWN reaches nobody and no entry is ever removed), that tables, ids and messages
of the other nodes tell what is so in that register (`KnownInv`: they were true when they were
sent, and the register only grows), and that the listener announces an id it has entered
(`AdmissionInv`). A departure leaves the register alone, hence the same id on return.

`Deserialize` is a loop over the received list, written as a recursive function. Induction over
it takes no theorem with an operator as a parameter: `DeserializeInduction` gives the loop
a set of tables for each number of entries merged, and its proof considers the least number for
which the loop leaves its set (`LeastIndex`, the least element of a set of numbers).
`LoopExists` shows in the same way that the function is defined. `MergeFront` is the step for
`KnownInv`: a front of the register into which the next entry is merged is a front, and
no shorter.

Every inductive invariant was checked by TLC on the instances of the runs before it was
proved. Every invariant and action property of the passing runs is proved; only model-checked is
liveness, which under fairness is outside the prover's reach.

## 5. What is not modelled

- **Connections over time**: descriptors that are closed, stay in `master_fd` and the node
  table and are reused; resets in the middle of a message; failing sends and connects. The
  models other than `DsmFraming` assume whole messages in order per connection.
- **Allocation by message**: `ALLOC_REQUEST` has a handler and no sender. Pages a worker
  allocates cannot be mapped by others (`dsm_map_remote` names node 1 as owner).
- **Several application threads per node**, and relocking a lock one holds.
- **The node id before `JOIN_RESPONSE`**: `DsmLock`, `DsmBarrier` and `DsmPaging` start when ids
  are known. `DsmMemory` has page requests without one.
- **Torn copies**: `dsm_page_send` copies a page its owner may be writing; contents are
  one value here.
- Code without callers or senders: `dsm_page_request`, `dsm_page_invalidate`,
  `dsm_ownership_set`, `dsm_global_to_local`, `dsm_tcp_recv_raw`, `dsm_tcp_disconnect`,
  `dsm_page_mark_modified`, `dsm_node_table_set_socket`, `NODE_LEFT`, `NEW_NODE`, heartbeats.
- Errors of the operating system (failing `mmap`, `mprotect`, `malloc`, thread creation) and
  the unwinding of `dsm_init` after them; `dsm_finalize` during a page fault.
- Status output, logging, the lookup of the local address, the test program.

## 6. Plan

In this order:

1. *Done*: locks and barrier (with proofs), paging, membership, allocation, framing.
2. Reuse of descriptors after the end of a connection; locks over connections that end.
3. Composition of membership with lock and barrier: messages before the id is known,
   members without connection.
4. Several application threads per node, nested locking, `dsm_finalize` in a fault.
5. Proofs: *done* for every invariant, action property and refinement that a run checks.
