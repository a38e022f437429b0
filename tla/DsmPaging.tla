------------------------------ MODULE DsmPaging ------------------------------
(***************************************************************************)
(* Demand paging: dsm_pagefault.c and the page functions of dsm_memory.c.  *)
(*                                                                         *)
(* The master owns pages and serves PAGE_REQUESTs.  A worker maps them     *)
(* without access rights, so that its application's first access raises    *)
(* SIGSEGV.  Three threads of the worker then meet in plain variables, an  *)
(* eventfd, a condition variable, the page's lock and its protection:      *)
(*   - the application thread, in sigsegv_handler, stores the address and  *)
(*     fault_handled = 0, writes the eventfd and spins on fault_handled;   *)
(*   - the fault thread reads the eventfd, asks the owner for the page and *)
(*     waits up to 10 seconds for its state to change;                     *)
(*   - the TCP thread, in dsm_page_install, makes the page writable,       *)
(*     copies the data, makes it read-only, and signals.                   *)
(* The two stores before the eventfd write, and the fault thread's two     *)
(* final stores, may reach memory in either order: pending_fault_addr is   *)
(* not volatile.  A critical section of the page's lock is one step, except*)
(* that of dsm_page_install, whose effects on the protection and on the    *)
(* memory the application sees one by one.                                 *)
(*                                                                         *)
(* Workers have their ids: an answer is addressed to the id in the request *)
(* (DsmMemory has requests made before the id is known).                   *)
(* Page contents are the number of writes of the owner they reflect.       *)
(***************************************************************************)
EXTENDS Integers, Sequences, FiniteSets

CONSTANTS
  Workers,     \* nodes that map pages of the master
  Pages,       \* page-aligned global addresses
  NoPage,      \* NULL in pending_fault_addr
  Accesses,    \* the accesses <<page, kind>> that the applications make
  MaxWrites,   \* bound: writes of the owner to a page
  MaxInFlight  \* bound: a wait expires with fewer messages of the worker in flight
               \* (0: none expires)

ASSUME PagingAssumptions ==
  /\ NoPage \notin Pages
  /\ Accesses \subseteq Pages \X {"read", "write"}
  /\ MaxWrites \in Nat /\ MaxInFlight \in Nat

Kinds == {"read", "write"}
Unfetched == -1    \* the zero bytes of a fresh anonymous mapping

VARIABLES
  \* the master
  allocated,   \* allocated[p]: is p registered as a page of its own?
  content,     \* content[p]: how often the owner has written p
  \* a worker's page table and address space
  state,       \* state[w][p]: UNMAPPED, INVALID, PENDING or SHARED
  prot,        \* prot[w][p]: NONE, READ or RW
  copy,        \* copy[w][p]: the bytes behind the mapping
  \* a worker's fault hand-over
  pending,     \* ctx->pending_fault_addr
  handled,     \* ctx->fault_handled
  eventfd,     \* is the counter of ctx->fault_eventfd above zero?
  \* a worker's application thread
  app,         \* run | store | spin
  want,        \* the access it is making: <<page, kind>>, or << >>
  appStores,   \* stores of the handler still to happen
  \* a worker's fault thread
  ft,          \* idle|take|look|send|check|asleep|expired|done
  fpage,       \* the page it works on
  ftStores,    \* its final stores still to happen
  \* a worker's TCP thread and its connection to the master
  tcp,         \* idle | open | copied | shared: how far the install is
  linked,      \* the workers whose ctx->master_fd is set
  toMaster,    \* toMaster[w]: pages of the PAGE_REQUESTs in flight
  toWorker,    \* toWorker[w]: PAGE_DATA in flight or being installed
  orderly      \* history: workers no wait of which has expired and that mapped
               \* pages only after their owner had allocated them

masterVars == <<allocated, content>>
pageVars == <<state, prot, copy>>
handOver == <<pending, handled, eventfd>>
appVars == <<app, want, appStores>>
ftVars == <<ft, fpage, ftStores>>
netVars == <<linked, toMaster, toWorker>>
vars == <<allocated, content, state, prot, copy, pending, handled, eventfd,
          app, want, appStores, ft, fpage, ftStores, tcp, linked, toMaster, toWorker,
          orderly>>

Each(v) == [w \in Workers |-> v]

Init ==
  /\ allocated = [p \in Pages |-> FALSE]
  /\ content = [p \in Pages |-> 0]
  /\ state = Each([p \in Pages |-> "UNMAPPED"])
  /\ prot = Each([p \in Pages |-> "NONE"])
  /\ copy = Each([p \in Pages |-> Unfetched])
  /\ pending = Each(NoPage) /\ handled = Each(FALSE) /\ eventfd = Each(FALSE)
  /\ app = Each("run") /\ want = Each(<<>>) /\ appStores = Each({})
  /\ ft = Each("idle") /\ fpage = Each(NoPage) /\ ftStores = Each({})
  /\ tcp = Each("idle")
  /\ linked \in SUBSET Workers    \* see WorkerLinked of DsmMembership
  /\ toMaster = Each(<<>>) /\ toWorker = Each(<<>>)
  /\ orderly = Workers

\* Is the lock of page p at worker w free?  dsm_page_install holds it from
\* before the first mprotect until after page->state is set.
PageLockFree(w, p) ==
  ~(tcp[w] \in {"open", "copied"} /\ Head(toWorker[w]).page = p)

-----------------------------------------------------------------------------
(* The master: application and TCP thread *)

\* dsm_malloc_at; dsm_malloc on the master differs in who chooses the address
\* and in the state of the owner's page, which nothing here looks at.
MasterAlloc(p) ==
  /\ ~allocated[p]
  /\ allocated' = [allocated EXCEPT ![p] = TRUE]
  /\ UNCHANGED <<content, orderly, pageVars, handOver, appVars, ftVars, tcp, netVars>>

MasterWrite(p) ==  \* a plain store: the page is writable, nobody is told
  /\ allocated[p]
  /\ content[p] < MaxWrites
  /\ content' = [content EXCEPT ![p] = @ + 1]
  /\ UNCHANGED <<allocated, orderly, pageVars, handOver, appVars, ftVars, tcp, netVars>>

PageSend(w) ==  \* case DSM_MSG_PAGE_REQUEST, dsm_page_send
  /\ toMaster[w] # <<>>
  /\ toMaster' = [toMaster EXCEPT ![w] = Tail(@)]
  /\ LET p == Head(toMaster[w])
     IN  toWorker' = IF allocated[p]
                     THEN [toWorker EXCEPT ![w] =
                             Append(@, [page |-> p, data |-> content[p]])]
                     ELSE toWorker    \* "not found": no answer is sent
  /\ UNCHANGED <<masterVars, orderly, pageVars, handOver, appVars, ftVars, tcp, linked>>

-----------------------------------------------------------------------------
(* A worker's application thread *)

MapRemote(w, p) ==  \* dsm_map_remote: registered INVALID, mapped PROT_NONE
  /\ app[w] = "run" /\ want[w] = <<>>
  /\ state[w][p] = "UNMAPPED"
  /\ state' = [state EXCEPT ![w][p] = "INVALID"]
  /\ orderly' = IF allocated[p] THEN orderly ELSE orderly \ {w}
  /\ UNCHANGED <<masterVars, prot, copy, handOver, appVars, ftVars, tcp, netVars>>

Access(w, p, k) ==  \* the application comes to an access
  /\ app[w] = "run" /\ want[w] = <<>>
  /\ state[w][p] # "UNMAPPED"
  /\ <<p, k>> \in Accesses
  /\ want' = [want EXCEPT ![w] = <<p, k>>]
  /\ UNCHANGED <<masterVars, orderly, pageVars, handOver, app, appStores, ftVars, tcp, netVars>>

Permitted(w) == \/ prot[w][want[w][1]] = "RW"
                \/ prot[w][want[w][1]] = "READ" /\ want[w][2] = "read"

Complete(w) ==  \* the instruction executes
  /\ app[w] = "run" /\ want[w] # <<>>
  /\ Permitted(w)
  /\ want' = [want EXCEPT ![w] = <<>>]
  /\ UNCHANGED <<masterVars, orderly, pageVars, handOver, app, appStores, ftVars, tcp, netVars>>

Fault(w) ==  \* SIGSEGV: sigsegv_handler begins
  /\ app[w] = "run" /\ want[w] # <<>>
  /\ ~Permitted(w)
  /\ app' = [app EXCEPT ![w] = "store"]
  /\ appStores' = [appStores EXCEPT ![w] = {"pending", "handled"}]
  /\ UNCHANGED <<masterVars, orderly, pageVars, handOver, want, ftVars, tcp, netVars>>

HandlerStore(w, s) ==
  /\ app[w] = "store" /\ s \in appStores[w]
  /\ appStores' = [appStores EXCEPT ![w] = @ \ {s}]
  /\ \/ /\ s = "pending"
        /\ pending' = [pending EXCEPT ![w] = want[w][1]]
        /\ UNCHANGED handled
     \/ /\ s = "handled"
        /\ handled' = [handled EXCEPT ![w] = FALSE]
        /\ UNCHANGED pending
  /\ UNCHANGED <<masterVars, orderly, pageVars, eventfd, app, want, ftVars, tcp, netVars>>

HandlerSignal(w) ==  \* write(fault_eventfd)
  /\ app[w] = "store" /\ appStores[w] = {}
  /\ eventfd' = [eventfd EXCEPT ![w] = TRUE]
  /\ app' = [app EXCEPT ![w] = "spin"]
  /\ UNCHANGED <<masterVars, orderly, pageVars, pending, handled,
                 want, appStores, ftVars, tcp, netVars>>

HandlerReturn(w) ==  \* the spin loop ends; the instruction is retried
  /\ app[w] = "spin" /\ handled[w]
  /\ app' = [app EXCEPT ![w] = "run"]
  /\ UNCHANGED <<masterVars, orderly, pageVars, handOver,
                 want, appStores, ftVars, tcp, netVars>>

-----------------------------------------------------------------------------
(* A worker's fault thread: fault_handler_thread_func *)

FaultRead(w) ==  \* read(fault_eventfd) returns the counter and clears it
  /\ ft[w] = "idle" /\ eventfd[w]
  /\ eventfd' = [eventfd EXCEPT ![w] = FALSE]
  /\ ft' = [ft EXCEPT ![w] = "take"]
  /\ UNCHANGED <<masterVars, orderly, pageVars, pending, handled, appVars,
                 fpage, ftStores, tcp, netVars>>

\* Faulty variant: after reading NULL it goes back to sleep without a word.
FaultTakeSilently(w) ==
  /\ ft[w] = "take"
  /\ ft' = [ft EXCEPT ![w] = IF pending[w] = NoPage THEN "idle" ELSE "look"]
  /\ fpage' = [fpage EXCEPT ![w] = IF pending[w] = NoPage THEN @ ELSE pending[w]]
  /\ UNCHANGED <<masterVars, orderly, pageVars, handOver, appVars, ftStores, tcp, netVars>>

FaultTake(w) ==  \* reads pending_fault_addr; NULL means there is nothing to do
  /\ ft[w] = "take"
  /\ IF pending[w] = NoPage
     THEN /\ handled' = [handled EXCEPT ![w] = TRUE]
          /\ ft' = [ft EXCEPT ![w] = "idle"]
          /\ UNCHANGED fpage
     ELSE /\ fpage' = [fpage EXCEPT ![w] = pending[w]]
          /\ ft' = [ft EXCEPT ![w] = "look"]
          /\ UNCHANGED handled
  /\ UNCHANGED <<masterVars, orderly, pageVars, pending, eventfd, appVars, ftStores, tcp, netVars>>

\* dsm_page_fault_handle returns, with success or not.
HandleReturns(w) ==
  /\ ft' = [ft EXCEPT ![w] = "done"]
  /\ ftStores' = [ftStores EXCEPT ![w] = {"pending", "handled"}]
  /\ UNCHANGED fpage

\* Faulty variant: write access without being the owner.
FaultValidUpgrade(w) ==
  /\ ft[w] = "look" /\ PageLockFree(w, fpage[w])
  /\ state[w][fpage[w]] = "SHARED"
  /\ state' = [state EXCEPT ![w][fpage[w]] = "MODIFIED"]
  /\ prot' = [prot EXCEPT ![w][fpage[w]] = "RW"]
  /\ HandleReturns(w)
  /\ UNCHANGED <<masterVars, orderly, copy, handOver, appVars, tcp, netVars>>

\* The page is valid already.  The worker is not its owner, so a write fault
\* on it gets no write access here.
FaultValid(w) ==
  /\ ft[w] = "look" /\ PageLockFree(w, fpage[w])
  /\ state[w][fpage[w]] = "SHARED"
  /\ HandleReturns(w)
  /\ UNCHANGED <<masterVars, orderly, pageVars, handOver, appVars, tcp, netVars>>

\* Faulty variant: a valid page is fetched again.
FaultPendAlways(w) ==
  /\ ft[w] = "look" /\ PageLockFree(w, fpage[w])
  /\ state' = [state EXCEPT ![w][fpage[w]] = "PENDING"]
  /\ ft' = [ft EXCEPT ![w] = "send"]
  /\ UNCHANGED <<masterVars, orderly, prot, copy, handOver, appVars,
                 fpage, ftStores, tcp, netVars>>

FaultPend(w) ==  \* INVALID, or PENDING still: fetch it
  /\ ft[w] = "look" /\ PageLockFree(w, fpage[w])
  /\ state[w][fpage[w]] # "SHARED"
  /\ state' = [state EXCEPT ![w][fpage[w]] = "PENDING"]
  /\ ft' = [ft EXCEPT ![w] = "send"]
  /\ UNCHANGED <<masterVars, orderly, prot, copy, handOver, appVars,
                 fpage, ftStores, tcp, netVars>>

FaultSend(w) ==
  /\ ft[w] = "send"
  /\ w \in linked
  /\ toMaster' = [toMaster EXCEPT ![w] = Append(@, fpage[w])]
  /\ ft' = [ft EXCEPT ![w] = "check"]
  /\ UNCHANGED <<masterVars, orderly, pageVars, handOver, appVars,
                 fpage, ftStores, tcp, linked, toWorker>>

FaultNotConnected(w) ==  \* owner_fd < 0: back to INVALID, fail
  /\ ft[w] = "send" /\ PageLockFree(w, fpage[w])
  /\ w \notin linked
  /\ state' = [state EXCEPT ![w][fpage[w]] = "INVALID"]
  /\ HandleReturns(w)
  /\ UNCHANGED <<masterVars, orderly, prot, copy, handOver, appVars, tcp, netVars>>

\* Faulty variant: it does not wait for the page.
FaultSleepNot(w) ==
  /\ ft[w] = "check"
  /\ state[w][fpage[w]] = "PENDING"
  /\ HandleReturns(w)
  /\ UNCHANGED <<masterVars, orderly, pageVars, handOver, appVars, tcp, netVars>>

FaultSleep(w) ==  \* the while condition holds: pthread_cond_timedwait
  /\ ft[w] = "check"
  /\ state[w][fpage[w]] = "PENDING"
  /\ ft' = [ft EXCEPT ![w] = "asleep"]
  /\ UNCHANGED <<masterVars, orderly, pageVars, handOver, appVars,
                 fpage, ftStores, tcp, netVars>>

FaultFetched(w) ==  \* the while condition fails
  /\ ft[w] = "check"
  /\ state[w][fpage[w]] # "PENDING"
  /\ HandleReturns(w)
  /\ UNCHANGED <<masterVars, orderly, pageVars, handOver, appVars, tcp, netVars>>

FaultSpurious(w) ==  \* pthread_cond_timedwait may return without a signal
  /\ ft[w] = "asleep"
  /\ ft' = [ft EXCEPT ![w] = "check"]
  /\ UNCHANGED <<masterVars, orderly, pageVars, handOver, appVars,
                 fpage, ftStores, tcp, netVars>>

FaultTimeout(w) ==  \* ETIMEDOUT
  /\ ft[w] = "asleep"
  /\ Len(toMaster[w]) + Len(toWorker[w]) < MaxInFlight
  /\ ft' = [ft EXCEPT ![w] = "expired"]
  /\ orderly' = orderly \ {w}
  /\ UNCHANGED <<masterVars, pageVars, handOver, appVars, fpage, ftStores, tcp, netVars>>

\* Faulty variant: the mapping is dropped, and what was installed with it.
FaultExpireDrops(w) ==
  /\ ft[w] = "expired" /\ PageLockFree(w, fpage[w])
  /\ state' = [state EXCEPT ![w][fpage[w]] = "INVALID"]
  /\ prot' = [prot EXCEPT ![w][fpage[w]] = "NONE"]
  /\ copy' = [copy EXCEPT ![w][fpage[w]] = Unfetched]
  /\ HandleReturns(w)
  /\ UNCHANGED <<masterVars, orderly, handOver, appVars, tcp, netVars>>

FaultExpire(w) ==  \* INVALID, whatever the state is by now
  /\ ft[w] = "expired" /\ PageLockFree(w, fpage[w])
  /\ state' = [state EXCEPT ![w][fpage[w]] = "INVALID"]
  /\ HandleReturns(w)
  /\ UNCHANGED <<masterVars, orderly, prot, copy, handOver, appVars, tcp, netVars>>

FaultStore(w, s) ==  \* pending_fault_addr = NULL; fault_handled = 1
  /\ ft[w] = "done" /\ s \in ftStores[w]
  /\ ftStores' = [ftStores EXCEPT ![w] = @ \ {s}]
  /\ ft' = [ft EXCEPT ![w] = IF ftStores[w] = {s} THEN "idle" ELSE "done"]
  /\ \/ /\ s = "pending"
        /\ pending' = [pending EXCEPT ![w] = NoPage]
        /\ UNCHANGED handled
     \/ /\ s = "handled"
        /\ handled' = [handled EXCEPT ![w] = TRUE]
        /\ UNCHANGED pending
  /\ UNCHANGED <<masterVars, orderly, pageVars, eventfd, appVars, fpage, tcp, netVars>>

-----------------------------------------------------------------------------
(* A worker's TCP thread: case DSM_MSG_PAGE_DATA, dsm_page_install *)

InstallOpen(w) ==  \* lock the page, mprotect(PROT_READ | PROT_WRITE)
  /\ tcp[w] = "idle" /\ toWorker[w] # <<>>
  /\ prot' = [prot EXCEPT ![w][Head(toWorker[w]).page] = "RW"]
  /\ tcp' = [tcp EXCEPT ![w] = "open"]
  /\ UNCHANGED <<masterVars, orderly, state, copy, handOver, appVars, ftVars, netVars>>

InstallCopy(w) ==  \* memcpy
  /\ tcp[w] = "open"
  /\ copy' = [copy EXCEPT ![w][Head(toWorker[w]).page] = Head(toWorker[w]).data]
  /\ tcp' = [tcp EXCEPT ![w] = "copied"]
  /\ UNCHANGED <<masterVars, orderly, state, prot, handOver, appVars, ftVars, netVars>>

\* Faulty variant: the page is left without access rights.
InstallShareClosed(w) ==
  /\ tcp[w] = "copied"
  /\ prot' = [prot EXCEPT ![w][Head(toWorker[w]).page] = "NONE"]
  /\ state' = [state EXCEPT ![w][Head(toWorker[w]).page] = "SHARED"]
  /\ tcp' = [tcp EXCEPT ![w] = "shared"]
  /\ UNCHANGED <<masterVars, orderly, copy, handOver, appVars, ftVars, netVars>>

InstallShare(w) ==  \* mprotect(PROT_READ), state = SHARED, unlock the page
  /\ tcp[w] = "copied"
  /\ prot' = [prot EXCEPT ![w][Head(toWorker[w]).page] = "READ"]
  /\ state' = [state EXCEPT ![w][Head(toWorker[w]).page] = "SHARED"]
  /\ tcp' = [tcp EXCEPT ![w] = "shared"]
  /\ UNCHANGED <<masterVars, orderly, copy, handOver, appVars, ftVars, netVars>>

\* Faulty variant: no broadcast.
InstallSignalSilent(w) ==
  /\ tcp[w] = "shared"
  /\ handled' = [handled EXCEPT ![w] = TRUE]
  /\ tcp' = [tcp EXCEPT ![w] = "idle"]
  /\ toWorker' = [toWorker EXCEPT ![w] = Tail(@)]
  /\ UNCHANGED <<masterVars, orderly, pageVars, pending, eventfd, appVars,
                 ftVars, linked, toMaster>>

InstallSignal(w) ==  \* fault_handled = 1 and broadcast, under fault_mutex
  /\ tcp[w] = "shared"
  /\ handled' = [handled EXCEPT ![w] = TRUE]
  /\ ft' = [ft EXCEPT ![w] = IF @ = "asleep" THEN "check" ELSE @]
  /\ tcp' = [tcp EXCEPT ![w] = "idle"]
  /\ toWorker' = [toWorker EXCEPT ![w] = Tail(@)]
  /\ UNCHANGED <<masterVars, orderly, pageVars, pending, eventfd, appVars,
                 fpage, ftStores, linked, toMaster>>

-----------------------------------------------------------------------------

MasterNext == \E p \in Pages : MasterAlloc(p) \/ MasterWrite(p)
AppCalls(w) == \E p \in Pages : MapRemote(w, p) \/ \E k \in Kinds : Access(w, p, k)
AppStep(w) == \/ Complete(w) \/ Fault(w) \/ HandlerSignal(w) \/ HandlerReturn(w)
              \/ \E s \in {"pending", "handled"} : HandlerStore(w, s)
FaultStep(w) == \/ FaultRead(w) \/ FaultTake(w) \/ FaultValid(w) \/ FaultPend(w)
                \/ FaultSend(w) \/ FaultNotConnected(w) \/ FaultSleep(w)
                \/ FaultFetched(w) \/ FaultExpire(w)
                \/ \E s \in {"pending", "handled"} : FaultStore(w, s)
TcpStep(w) == InstallOpen(w) \/ InstallCopy(w) \/ InstallShare(w) \/ InstallSignal(w)

Next == \/ MasterNext
        \/ \E w \in Workers : \/ AppCalls(w) \/ AppStep(w) \/ FaultStep(w)
                              \/ FaultSpurious(w) \/ FaultTimeout(w)
                              \/ TcpStep(w) \/ PageSend(w)

Spec == Init /\ [][Next]_vars

\* The threads of worker and master are scheduled, and the owner does allocate
\* the pages the program uses.  The deadline of pthread_cond_timedwait is
\* absolute, so spurious wakeups do not put it off: strong fairness.
Fairness == /\ \A w \in Workers : /\ WF_vars(AppStep(w)) /\ WF_vars(FaultStep(w))
                                  /\ WF_vars(TcpStep(w)) /\ WF_vars(PageSend(w))
                                  /\ SF_vars(FaultTimeout(w))
            /\ \A p \in Pages : WF_vars(MasterAlloc(p))
FairSpec == Spec /\ Fairness

-----------------------------------------------------------------------------
(* Properties *)

TypeOK ==
  /\ allocated \in [Pages -> BOOLEAN]
  /\ content \in [Pages -> Nat]
  /\ state \in [Workers -> [Pages -> {"UNMAPPED", "INVALID", "PENDING", "SHARED"}]]
  /\ prot \in [Workers -> [Pages -> {"NONE", "READ", "RW"}]]
  /\ copy \in [Workers -> [Pages -> Nat \cup {Unfetched}]]
  /\ pending \in [Workers -> Pages \cup {NoPage}]
  /\ handled \in [Workers -> BOOLEAN] /\ eventfd \in [Workers -> BOOLEAN]
  /\ app \in [Workers -> {"run", "store", "spin"}]
  /\ want \in [Workers -> (Pages \X Kinds) \cup {<<>>}]
  /\ appStores \in [Workers -> SUBSET {"pending", "handled"}]
  /\ ft \in [Workers -> {"idle", "take", "look", "send", "check", "asleep",
                         "expired", "done"}]
  /\ fpage \in [Workers -> Pages \cup {NoPage}]
  /\ ftStores \in [Workers -> SUBSET {"pending", "handled"}]
  /\ tcp \in [Workers -> {"idle", "open", "copied", "shared"}]
  /\ linked \subseteq Workers /\ orderly \subseteq Workers
  /\ toMaster \in [Workers -> Seq(Pages)]
  /\ toWorker \in [Workers -> Seq([page : Pages, data : Nat])]

\* The spinning handler is never forgotten: as long as fault_handled is 0, the
\* eventfd is signalled or the fault thread still has its store of 1 ahead --
\* although two threads store 1 for a fault, a late install stores 1 for
\* another, and the fault thread may erase an address just stored.
NoLostFault ==
  \A w \in Workers : app[w] = "spin" /\ ~handled[w] =>
    \/ eventfd[w]
    \/ ft[w] \notin {"idle", "done"}
    \/ ft[w] = "done" /\ "handled" \in ftStores[w]

\* The fault thread does not sleep through the news: while it is asleep its
\* page has not been installed, or the broadcast that tells it is still ahead
\* (the state is set under the page's lock, the broadcast is another mutex's).
SleeperSignalled ==
  \A w \in Workers : ft[w] = "asleep" =>
    state[w][fpage[w]] = "PENDING" \/ tcp[w] = "shared"

\* An access that goes through sees bytes that came from the owner.  (dsm_page_install
\* makes a page accessible before it fills it, and fault_handled is one flag for all
\* faults: the 1 stored for an earlier page can end the spin of a later fault.)
SeesOwnersData ==
  \A w \in Workers : app[w] = "run" /\ want[w] # <<>> /\ Permitted(w) =>
    copy[w][want[w][1]] # Unfetched

\* The window in which dsm_page_install has a page writable is hidden from the
\* application by its handler as long as the worker has fetched no page and given up
\* on none: until then nobody has stored a 1 for an earlier fault that could end the
\* spin.
FirstFetchHidden ==
  \A w \in orderly : app[w] = "run" /\ (\A q \in Pages : state[w][q] # "SHARED") =>
    \A p \in Pages : prot[w][p] # "RW"

\* Outside dsm_page_install, whatever timed out, was retried or came late: no page
\* is writable, a readable page holds bytes of the owner, and a page recorded as
\* SHARED is readable.
PagesSettled ==
  \A w \in Workers, p \in Pages : PageLockFree(w, p) =>
    /\ prot[w][p] # "RW"
    /\ prot[w][p] = "READ" => copy[w][p] # Unfetched
    /\ state[w][p] = "SHARED" => prot[w][p] = "READ"

InFlight(w, p) ==
  Cardinality({i \in 1..Len(toMaster[w]) : toMaster[w][i] = p})
    + Cardinality({i \in 1..Len(toWorker[w]) : toWorker[w][i].page = p})

\* Until a wait expires, a page is fetched once: one request or answer in flight
\* while it is PENDING, none before and none after it has been installed.
FetchedOnce ==
  \A w \in orderly, p \in Pages :
    /\ state[w][p] \in {"UNMAPPED", "INVALID"} => InFlight(w, p) = 0
    /\ state[w][p] = "PENDING" =>
         InFlight(w, p) = IF ft[w] = "send" /\ fpage[w] = p THEN 0 ELSE 1
    /\ state[w][p] = "SHARED" =>
         InFlight(w, p) = IF tcp[w] = "shared" /\ Head(toWorker[w]).page = p
                          THEN 1 ELSE 0

\* Retries never turn a worker's copy back to an older one.
NeverOlder ==
  [][\A w \in Workers, p \in Pages : copy'[w][p] >= copy[w][p]]_vars

\* Every read of a connected worker completes.
ReadCompletes ==
  \A w \in Workers, p \in Pages :
    (w \in linked /\ want[w] = <<p, "read">>) ~> want[w] = <<>>

-----------------------------------------------------------------------------
(* The inductive invariant behind the safety properties *)

Fetching == {"look", "send", "check", "asleep", "expired"}

\* Which stores, pages and messages a thread has at hand where it is.
ThreadInv(w) ==
  /\ app[w] # "store" => appStores[w] = {}
  /\ app[w] # "run" => want[w] # <<>>
  /\ ft[w] # "done" => ftStores[w] = {}
  /\ ft[w] \in Fetching => fpage[w] \in Pages
  /\ tcp[w] # "idle" => toWorker[w] # <<>>

\* Answers are in the order of their versions, none is newer than the owner's
\* page, and what is installed is not newer than what is to come.
VersionInv(w) ==
  /\ \A p \in Pages : copy[w][p] <= content[p]
  /\ \A i \in 1..Len(toWorker[w]) :
       /\ copy[w][toWorker[w][i].page] <= toWorker[w][i].data
       /\ toWorker[w][i].data <= content[toWorker[w][i].page]
  /\ \A i, j \in 1..Len(toWorker[w]) :
       i <= j /\ toWorker[w][i].page = toWorker[w][j].page =>
         toWorker[w][i].data <= toWorker[w][j].data

\* Between the copying and the closing of a page its bytes are the owner's.
FillInv(w) ==
  tcp[w] = "copied" => copy[w][Head(toWorker[w]).page] # Unfetched

PagingInv ==
  /\ TypeOK /\ NoLostFault /\ SleeperSignalled /\ PagesSettled
  /\ \A w \in Workers : ThreadInv(w) /\ VersionInv(w) /\ FillInv(w)

(* As long as no wait has expired and no page was mapped too early: *)

\* Every page that is used is mapped, and then the owner has it.
MappedInv(w) ==
  /\ \A p \in Pages : state[w][p] # "UNMAPPED" => allocated[p]
  /\ want[w] # <<>> => state[w][want[w][1]] # "UNMAPPED"
  /\ pending[w] # NoPage => state[w][pending[w]] # "UNMAPPED"
  /\ ft[w] \in Fetching => state[w][fpage[w]] # "UNMAPPED"

Awaited(w) == ft[w] \in {"check", "asleep"} /\ state[w][fpage[w]] = "PENDING"
Held(w) == IF tcp[w] = "shared" THEN 1 ELSE 0

\* The only request or answer on its way is for the page the fault thread waits
\* for; the answer that has been installed may still be in the TCP thread's hands.
TransferInv(w) ==
  /\ ft[w] # "expired"
  /\ ft[w] = "send" => state[w][fpage[w]] = "PENDING"
  /\ ft[w] \in {"check", "asleep"} => state[w][fpage[w]] \in {"PENDING", "SHARED"}
  /\ \A p \in Pages : state[w][p] = "PENDING" =>
       p = fpage[w] /\ ft[w] \in {"send", "check", "asleep"}
  /\ tcp[w] = "shared" => state[w][Head(toWorker[w]).page] = "SHARED"
  /\ ~Awaited(w) => toMaster[w] = <<>> /\ Len(toWorker[w]) = Held(w)
  /\ Awaited(w) => \/ Len(toMaster[w]) = 1 /\ Len(toWorker[w]) = Held(w)
                   \/ toMaster[w] = <<>> /\ Len(toWorker[w]) = 1 + Held(w)
  /\ \A i \in 1..Len(toMaster[w]) : toMaster[w][i] = fpage[w]
  /\ \A i \in 1..Len(toWorker[w]) :
       toWorker[w][i].page = fpage[w] \/ (i = 1 /\ tcp[w] = "shared")

\* The fault thread has nothing to do any more that the handler waits for.
Quiet(w) == ft[w] = "idle" \/ (ft[w] = "done" /\ "handled" \notin ftStores[w])

\* Until a first page has been installed, the handler waits whenever the fault
\* thread works: nobody stores 1 in fault_handled for an earlier fault.
FirstFaultInv(w) ==
  (\A p \in Pages : state[w][p] # "SHARED") =>
    /\ app[w] # "spin" => ~eventfd[w] /\ Quiet(w)
    /\ app[w] = "store" /\ "handled" \notin appStores[w] => ~handled[w]
    /\ app[w] = "spin" /\ handled[w] => ~eventfd[w] /\ Quiet(w)
    /\ app[w] = "spin" /\ eventfd[w] => Quiet(w)

FetchInv ==
  /\ PagingInv
  /\ \A w \in orderly : MappedInv(w) /\ TransferInv(w) /\ FirstFaultInv(w)
=============================================================================
