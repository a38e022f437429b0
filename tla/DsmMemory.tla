------------------------------ MODULE DsmMemory ------------------------------
(***************************************************************************)
(* The address spaces: dsm_memory.c, and the part of dsm_pagefault.c that  *)
(* depends on it.                                                          *)
(*                                                                         *)
(* Every node chooses global addresses from a counter of its own           *)
(* (next_global_addr), keeps a list of regions, each an mmap'ed range with *)
(* a global base, and a table of pages that is searched from the front by  *)
(* global address (for requests and installations) or by local address     *)
(* (for faults).  dsm_free removes a region and its mapping and leaves the *)
(* entries of the page table behind; the kernel may hand the same local    *)
(* range out again.  The master also files allocations in a hash table by  *)
(* owner.  This module asks whether a search finds the page that is meant. *)
(*                                                                         *)
(* Addresses and sizes are in pages, sizes after the rounding up.  A call  *)
(* of the application is one step: the application is the only thread that *)
(* changes regions, and pages nobody knows of yet are not asked for.  The  *)
(* threads of a fault are the subject of DsmPaging; here the application   *)
(* waits for its page, and the deadline passes only when no answer comes.  *)
(* Workers' ownership tables are written and never read, and left out.     *)
(***************************************************************************)
EXTENDS Integers, Sequences, FiniteSets

CONSTANTS
  Master,      \* the node with id 1
  Workers,     \* the other nodes
  IdOf,        \* IdOf[w]: the id the master gives worker w
  Late,        \* workers that may reach dsm_mem_init before their id does
  LocalPages,  \* pages of a node's address space that mmap chooses from
  Anywhere,    \* may mmap choose any gap?  If not, it takes the highest
  Base,        \* the initial next_global_addr
  Chunks,      \* pages every node donates
  Sizes,       \* sizes of allocations
  Fixed,       \* global addresses the program agrees on
  Buckets,     \* OWNERSHIP_TABLE_SIZE
  MayFree,     \* nodes that call dsm_free
  MayExit,     \* nodes that call dsm_finalize
  MaxCalls     \* bound: allocations and mappings of a node

Nodes == {Master} \cup Workers

ASSUME MemoryAssumptions ==
  /\ Master \notin Workers
  /\ IdOf \in [Workers -> Nat \ {0, 1}]
  /\ \A v, w \in Workers : IdOf[v] = IdOf[w] => v = w
  /\ Late \subseteq Workers
  /\ LocalPages \subseteq Nat /\ Fixed \subseteq Nat
  /\ Anywhere \in BOOLEAN
  /\ Base \in Nat /\ Chunks \in Nat \ {0}
  /\ Sizes \subseteq Nat \ {0}
  /\ Buckets \in Nat \ {0} /\ MaxCalls \in Nat
  /\ MayFree \subseteq Nodes /\ MayExit \subseteq Nodes

None == -1   \* no page; also the answer "not found" of dsm_ownership_get

VARIABLES
  phase,       \* start | up | gone (dsm_finalize) | killed (by a signal)
  id,          \* ctx->local_node_id: 0 until JOIN_RESPONSE arrives
  next,        \* ctx->next_global_addr
  regions,     \* ctx->regions: a list of [base, global, count, owner]
  pages,       \* ctx->page_table: a list of [global, local, owner, state]
  ownership,   \* the master's g_ownership_table: a list per bucket
  prot,        \* prot[n][l]: UNMAPPED, NONE, READ or RW
  bytes,       \* bytes[n][l]: whose data it is: <<node, global address>>
  want,        \* the local page the application is reading, or None
  waiting,     \* the page table entry its fault thread waits for, or 0
  toMaster,    \* toMaster[w]: PAGE_REQUESTs in flight, and the src_node in their headers
  toWorker,    \* toWorker[w]: PAGE_DATA in flight
  calls,       \* allocations and mappings so far
  held         \* the addresses the application was given and has not freed

nodeVars == <<phase, id, next, ownership>>
spaceVars == <<regions, pages, prot, bytes>>
netVars == <<toMaster, toWorker>>
appVars == <<calls, held>>
vars == <<phase, id, next, regions, pages, ownership, prot, bytes, want, waiting,
          toMaster, toWorker, calls, held>>

Zero == <<None, None>>   \* the bytes of a fresh anonymous mapping

Init ==  \* dsm_context_init; the roles have been found
  /\ phase = [n \in Nodes |-> "start"]
  /\ id = [n \in Nodes |-> IF n = Master THEN 1 ELSE 0]
  /\ next = [n \in Nodes |-> Base]
  /\ regions = [n \in Nodes |-> <<>>]
  /\ pages = [n \in Nodes |-> <<>>]
  /\ ownership = [b \in 0..Buckets - 1 |-> <<>>]
  /\ prot = [n \in Nodes |-> [l \in LocalPages |-> "UNMAPPED"]]
  /\ bytes = [n \in Nodes |-> [l \in LocalPages |-> Zero]]
  /\ want = [n \in Nodes |-> None]
  /\ waiting = [n \in Nodes |-> 0]
  /\ toMaster = [w \in Workers |-> <<>>]
  /\ toWorker = [w \in Workers |-> <<>>]
  /\ calls = [n \in Nodes |-> 0]
  /\ held = [n \in Nodes |-> {}]

-----------------------------------------------------------------------------
(* Searches.  All lists are searched from the front. *)

First(S) == CHOOSE i \in S : \A j \in S : i <= j
FirstOr0(S) == IF S = {} THEN 0 ELSE First(S)

PageLookup(n, g) == FirstOr0({i \in DOMAIN pages[n] : pages[n][i].global = g})
PageLookupLocal(n, l) == FirstOr0({i \in DOMAIN pages[n] : pages[n][i].local = l})

\* Faulty variant: the upper bound is one too high.
CoversOneMore(r, g) == g >= r.global /\ g <= r.global + r.count

Covers(r, g) == g >= r.global /\ g < r.global + r.count
Contains(r, l) == l >= r.base /\ l < r.base + r.count

\* Is it a region the node allocated (and not one it mapped)?
Own(n, r) == n = Master \/ r.owner # 1

RegionFind(n, g) == FirstOr0({i \in DOMAIN regions[n] : Covers(regions[n][i], g)})

\* dsm_local_to_global: None where the code returns 0
LocalToGlobal(n, l) ==
  LET i == FirstOr0({j \in DOMAIN regions[n] : Contains(regions[n][j], l)})
  IN  IF i = 0 THEN None ELSE regions[n][i].global + (l - regions[n][i].base)

\* The ownership table: entries are prepended to the bucket of their first page.
Hash(g) == g % Buckets

\* Faulty variant: the owner is filed under the page after the last one.
RegisterAtEnd(t, g, count, owner) ==
  [t EXCEPT ![Hash(g + count)] = <<[global |-> g, count |-> count, owner |-> owner]>> \o @]

OwnershipRegister(t, g, count, owner) ==
  [t EXCEPT ![Hash(g)] = <<[global |-> g, count |-> count, owner |-> owner]>> \o @]

OwnershipGet(g) ==
  LET bucket == ownership[Hash(g)]
      i == FirstOr0({j \in DOMAIN bucket : Covers(bucket[j], g)})
  IN  IF i = 0 THEN None ELSE bucket[i].owner

-----------------------------------------------------------------------------
(* Regions *)

\* Where the kernel may place a mapping of so many pages.
Holes(n, count) ==
  LET gaps == {l \in LocalPages : \A k \in l..l + count - 1 :
                                    k \in LocalPages /\ prot[n][k] = "UNMAPPED"}
  IN  {l \in gaps : Anywhere \/ \A k \in gaps : k <= l}

\* The entry dsm_page_register makes.
PageRegister(n, g, l, owner) ==
  [global |-> g, local |-> l, owner |-> owner,
   state |-> IF owner = id[n] THEN "MODIFIED" ELSE "INVALID"]

\* dsm_region_create at local address l.  A region of the node's own is made
\* accessible (and the application fills it); others stay without access.
\* st is the state the caller finally gives the pages of an owned region.
RegionCreate(n, l, count, owner, g, st) ==
  LET mine == owner = id[n]
      range == l..l + count - 1
      table == pages[n] \o [k \in 1..count |-> PageRegister(n, g + k - 1, l + k - 1, owner)]
      found(a) == First({i \in DOMAIN table : table[i].global = a})
      touched == {found(a) : a \in g..g + count - 1}
  IN  /\ regions' = [regions EXCEPT ![n] =
                       Append(@, [base |-> l, global |-> g, count |-> count, owner |-> owner])]
      /\ pages' = [pages EXCEPT ![n] =
                     IF st = "SHARED"
                     THEN [i \in DOMAIN table |-> IF i \in touched
                                                  THEN [table[i] EXCEPT !.state = st]
                                                  ELSE table[i]]
                     ELSE table]
      /\ prot' = [prot EXCEPT ![n] = [k \in LocalPages |->
                    IF k \in range THEN (IF mine THEN "RW" ELSE "NONE") ELSE @[k]]]
      /\ bytes' = [bytes EXCEPT ![n] = [k \in LocalPages |->
                    IF k \in range THEN (IF mine THEN <<n, g + k - l>> ELSE Zero) ELSE @[k]]]

\* Faulty variant: only the first page is unmapped.
RegionDestroyOnePage(n, i) ==
  /\ regions' = [regions EXCEPT ![n] = SubSeq(@, 1, i - 1) \o SubSeq(@, i + 1, Len(@))]
  /\ prot' = [prot EXCEPT ![n][regions[n][i].base] = "UNMAPPED"]
  /\ UNCHANGED <<pages, bytes>>

\* dsm_region_destroy of the i-th region: the page table is not touched.
RegionDestroy(n, i) ==
  LET r == regions[n][i]
  IN  /\ regions' = [regions EXCEPT ![n] = SubSeq(@, 1, i - 1) \o SubSeq(@, i + 1, Len(@))]
      /\ prot' = [prot EXCEPT ![n] = [k \in LocalPages |->
                    IF Contains(r, k) THEN "UNMAPPED" ELSE @[k]]]
      /\ UNCHANGED <<pages, bytes>>

-----------------------------------------------------------------------------
(* Start and end *)

JoinResponse(w) ==  \* the id arrives, at any moment
  /\ w \in Workers /\ id[w] = 0 /\ phase[w] # "gone"
  /\ id' = [id EXCEPT ![w] = IdOf[w]]
  /\ UNCHANGED <<phase, next, ownership, spaceVars, want, waiting, netVars, appVars>>

MemInit(n) ==  \* dsm_mem_init
  /\ phase[n] = "start"
  /\ id[n] # 0 \/ n \in Late
  /\ phase' = [phase EXCEPT ![n] = "up"]
  /\ LET g == IF n = Master THEN next[n] ELSE next[n] + id[n] * Chunks
     IN  /\ \E l \in Holes(n, Chunks) : RegionCreate(n, l, Chunks, id[n], g, "MODIFIED")
         /\ next' = IF n = Master THEN [next EXCEPT ![n] = @ + Chunks] ELSE next
         /\ ownership' = IF n = Master THEN OwnershipRegister(ownership, g, Chunks, 1)
                                       ELSE ownership
  /\ UNCHANGED <<id, want, waiting, netVars, appVars>>

MemShutdown(n) ==  \* dsm_finalize, dsm_mem_shutdown: the threads are joined first
  /\ n \in MayExit /\ phase[n] = "up" /\ want[n] = None
  /\ phase' = [phase EXCEPT ![n] = "gone"]
  /\ regions' = [regions EXCEPT ![n] = <<>>]
  /\ pages' = [pages EXCEPT ![n] = <<>>]
  /\ prot' = [prot EXCEPT ![n] = [l \in LocalPages |-> "UNMAPPED"]]
  /\ ownership' = IF n = Master THEN [b \in DOMAIN ownership |-> <<>>] ELSE ownership
  /\ waiting' = [waiting EXCEPT ![n] = 0]
  /\ held' = [held EXCEPT ![n] = {}]
  /\ UNCHANGED <<id, next, bytes, want, netVars, calls>>

-----------------------------------------------------------------------------
(* The application's calls *)

Call(n) ==
  /\ phase[n] = "up" /\ want[n] = None
  /\ calls[n] < MaxCalls
  /\ calls' = [calls EXCEPT ![n] = @ + 1]
  /\ UNCHANGED <<phase, id, want, waiting, netVars>>
Returns(n, l) == held' = [held EXCEPT ![n] = @ \cup {l}]

Malloc(n, count) ==  \* dsm_malloc: on every node from the node's own counter
  /\ Call(n)
  /\ \E l \in Holes(n, count) : /\ RegionCreate(n, l, count, id[n], next[n], "MODIFIED")
                                /\ Returns(n, l)
  /\ next' = [next EXCEPT ![n] = @ + count]
  /\ ownership' = IF n = Master THEN OwnershipRegister(ownership, next[n], count, id[n])
                                ELSE ownership

\* dsm_malloc_at: "Only one node should allocate at each address".
MallocAt(n, g, count) ==
  /\ Call(n)
  /\ \A o \in Nodes, k \in 0..count - 1 : \A i \in DOMAIN regions[o] :
       ~(Covers(regions[o][i], g + k) /\ Own(o, regions[o][i]))
  /\ \E l \in Holes(n, count) : /\ RegionCreate(n, l, count, id[n], g, "SHARED")
                                /\ Returns(n, l)
  /\ ownership' = IF n = Master THEN OwnershipRegister(ownership, g, count, id[n])
                                ELSE ownership
  /\ UNCHANGED next

\* Faulty variant: the owner is looked up, and -1 taken for one.
MapRemoteLookup(w, g, count) ==
  /\ w \in Workers
  /\ Call(w)
  /\ \E l \in Holes(w, count) : /\ RegionCreate(w, l, count, OwnershipGet(g), g, "INVALID")
                                /\ Returns(w, l)
  /\ UNCHANGED <<next, ownership>>

MapRemote(w, g, count) ==  \* dsm_map_remote: the owner is node 1
  /\ w \in Workers
  /\ Call(w)
  /\ \E l \in Holes(w, count) : /\ RegionCreate(w, l, count, 1, g, "INVALID")
                                /\ Returns(w, l)
  /\ UNCHANGED <<next, ownership>>

\* dsm_free of an address the application was given.  It is translated to a
\* global address, and the region to destroy is searched with that.
Free(n, l) ==
  /\ n \in MayFree /\ phase[n] = "up" /\ want[n] = None
  /\ l \in held[n]
  /\ held' = [held EXCEPT ![n] = @ \ {l}]
  /\ LET g == LocalToGlobal(n, l)
     IN  IF g = None THEN UNCHANGED spaceVars   \* "non-DSM address"
                     ELSE RegionDestroy(n, RegionFind(n, g))
  /\ UNCHANGED <<nodeVars, want, waiting, netVars, calls>>

-----------------------------------------------------------------------------
(* A worker's access to a page *)

Access(n, l) ==  \* the application comes to read a page it has mapped
  /\ phase[n] = "up" /\ want[n] = None
  /\ \E i \in DOMAIN regions[n] : Contains(regions[n][i], l) /\ regions[n][i].owner = 1
  /\ n # Master
  /\ want' = [want EXCEPT ![n] = l]
  /\ UNCHANGED <<nodeVars, spaceVars, waiting, netVars, appVars>>

Complete(n) ==
  /\ phase[n] = "up" /\ want[n] # None
  /\ prot[n][want[n]] \in {"READ", "RW"}
  /\ want' = [want EXCEPT ![n] = None]
  /\ UNCHANGED <<nodeVars, spaceVars, waiting, netVars, appVars>>

Faulting(n) == /\ phase[n] = "up" /\ want[n] # None /\ waiting[n] = 0
               /\ prot[n][want[n]] = "NONE"
FaultEntry(n) == PageLookupLocal(n, want[n])

\* Faulty variant: whose page it is is not looked at.
FaultOwnAnyone(n) ==
  /\ Faulting(n)
  /\ pages' = [pages EXCEPT ![n][FaultEntry(n)].state = "MODIFIED"]
  /\ prot' = [prot EXCEPT ![n][want[n]] = "RW"]
  /\ UNCHANGED <<nodeVars, regions, bytes, want, waiting, netVars, appVars>>

\* dsm_page_fault_handle finds a page of the node's own: access is enabled.
FaultOwn(n) ==
  /\ Faulting(n)
  /\ pages[n][FaultEntry(n)].owner = id[n]
  /\ pages' = [pages EXCEPT ![n][FaultEntry(n)].state = "MODIFIED"]
  /\ prot' = [prot EXCEPT ![n][want[n]] = "RW"]
  /\ UNCHANGED <<nodeVars, regions, bytes, want, waiting, netVars, appVars>>

\* Faulty variant: another page's entry is used.
FaultFetchOther(n) ==
  /\ Faulting(n)
  /\ pages[n][FaultEntry(n)].owner = 1
  /\ pages[n][FaultEntry(n)].state \in {"INVALID", "PENDING"}
  /\ pages' = [pages EXCEPT ![n][FaultEntry(n)].state = "PENDING"]
  /\ waiting' = [waiting EXCEPT ![n] = FaultEntry(n)]
  /\ toMaster' = [toMaster EXCEPT ![n] =
        Append(@, [global |-> pages[n][Len(pages[n])].global, src |-> id[n]])]
  /\ UNCHANGED <<nodeVars, regions, prot, bytes, want, toWorker, appVars>>

\* ... or a page of the master's that is not valid: it is asked for.  A page
\* that is valid and not the node's own is left as it is, and the fault repeats.
FaultFetch(n) ==
  /\ Faulting(n)
  /\ pages[n][FaultEntry(n)].owner = 1
  /\ pages[n][FaultEntry(n)].state \in {"INVALID", "PENDING"}
  /\ pages' = [pages EXCEPT ![n][FaultEntry(n)].state = "PENDING"]
  /\ waiting' = [waiting EXCEPT ![n] = FaultEntry(n)]
  /\ toMaster' = [toMaster EXCEPT ![n] =
        Append(@, [global |-> pages[n][FaultEntry(n)].global, src |-> id[n]])]
  /\ UNCHANGED <<nodeVars, regions, prot, bytes, want, toWorker, appVars>>

FaultTimeout(n) ==  \* no answer comes: INVALID again, and the access is retried
  /\ phase[n] = "up" /\ waiting[n] # 0
  /\ toMaster[n] = <<>> /\ toWorker[n] = <<>>
  /\ pages' = [pages EXCEPT ![n][waiting[n]].state = "INVALID"]
  /\ waiting' = [waiting EXCEPT ![n] = 0]
  /\ UNCHANGED <<nodeVars, regions, prot, bytes, want, netVars, appVars>>

\* dsm_tcp_send looks the id up in the node table, where nobody has id 0.
Connected(node_id) == node_id # 0

\* The master's TCP thread: dsm_page_send.  Reading an address that is not
\* mapped (and in no region) kills the process.  The answer goes to the node with
\* the id in the request's header; if there is none it is dropped.
PageSend(w) ==
  /\ toMaster[w] # <<>>
  /\ toMaster' = [toMaster EXCEPT ![w] = Tail(@)]
  /\ LET g == Head(toMaster[w]).global
         i == PageLookup(Master, g)
     IN  \/ /\ phase[Master] # "up" \/ i = 0
            /\ UNCHANGED <<toWorker, phase>>
         \/ /\ phase[Master] = "up" /\ i # 0
            /\ LET l == pages[Master][i].local
               IN  IF prot[Master][l] = "UNMAPPED"
                   THEN /\ phase' = [phase EXCEPT ![Master] = "killed"]
                        /\ UNCHANGED toWorker
                   ELSE /\ toWorker' =
                             IF Connected(Head(toMaster[w]).src)
                             THEN [toWorker EXCEPT ![w] =
                                     Append(@, [global |-> g, data |-> bytes[Master][l]])]
                             ELSE toWorker
                        /\ UNCHANGED phase
  /\ UNCHANGED <<id, next, ownership, spaceVars, want, waiting, appVars>>

\* The worker's TCP thread: dsm_page_install.  The fault thread wakes up if the
\* entry it waits for is the one that was found.
PageInstall(w) ==
  /\ toWorker[w] # <<>> /\ phase[w] = "up"
  /\ toWorker' = [toWorker EXCEPT ![w] = Tail(@)]
  /\ LET msg == Head(toWorker[w])
         i == PageLookup(w, msg.global)
         l == pages[w][i].local
     IN  IF i = 0 \/ prot[w][l] = "UNMAPPED"     \* not registered; mprotect fails
         THEN UNCHANGED <<pages, prot, bytes, waiting>>
         ELSE /\ pages' = [pages EXCEPT ![w][i].state = "SHARED"]
              /\ prot' = [prot EXCEPT ![w][l] = "READ"]
              /\ bytes' = [bytes EXCEPT ![w][l] = msg.data]
              /\ waiting' = [waiting EXCEPT ![w] = IF @ = i THEN 0 ELSE @]
  /\ UNCHANGED <<nodeVars, regions, want, toMaster, appVars>>

-----------------------------------------------------------------------------

AppCall(n) ==
  \/ \E count \in Sizes : \/ Malloc(n, count)
                          \/ \E g \in Fixed : MallocAt(n, g, count) \/ MapRemote(n, g, count)
  \/ \E l \in LocalPages : Free(n, l) \/ Access(n, l)
FaultStep(n) == FaultOwn(n) \/ FaultFetch(n) \/ FaultTimeout(n)

Next == \/ \E n \in Nodes : \/ MemInit(n) \/ MemShutdown(n) \/ AppCall(n)
        \/ \E w \in Workers : \/ JoinResponse(w) \/ Complete(w) \/ FaultStep(w)
                              \/ PageSend(w) \/ PageInstall(w)

Spec == Init /\ [][Next]_vars

\* The threads of a fault are scheduled and messages delivered, the JOIN_RESPONSE
\* too: that the master sends one is DsmMembership's JoinCompletes.
Fairness == \A w \in Workers : /\ WF_vars(Complete(w)) /\ WF_vars(FaultStep(w))
                               /\ WF_vars(PageSend(w)) /\ WF_vars(PageInstall(w))
                               /\ WF_vars(JoinResponse(w))
FairSpec == Spec /\ Fairness

-----------------------------------------------------------------------------
(* Properties *)

Region == [base : LocalPages, global : Nat, count : Nat \ {0}, owner : Nat]
Page == [global : Nat, local : LocalPages, owner : Nat,
         state : {"INVALID", "PENDING", "SHARED", "MODIFIED"}]
Bytes == (Nodes \X Nat) \cup {Zero}

TypeOK ==
  /\ phase \in [Nodes -> {"start", "up", "gone", "killed"}]
  /\ id \in [Nodes -> Nat] /\ next \in [Nodes -> Nat]
  /\ regions \in [Nodes -> Seq(Region)]
  /\ pages \in [Nodes -> Seq(Page)]
  /\ ownership \in [0..Buckets - 1 -> Seq([global : Nat, count : Nat, owner : Nat])]
  /\ prot \in [Nodes -> [LocalPages -> {"UNMAPPED", "NONE", "READ", "RW"}]]
  /\ bytes \in [Nodes -> [LocalPages -> Bytes]]
  /\ want \in [Nodes -> LocalPages \cup {None}]
  /\ waiting \in [Nodes -> Nat] /\ calls \in [Nodes -> Nat]
  /\ \A n \in Nodes : waiting[n] \in {0} \cup DOMAIN pages[n]
  /\ toMaster \in [Workers -> Seq([global : Nat, src : Nat])]
  /\ toWorker \in [Workers -> Seq([global : Nat, data : Bytes])]
  /\ held \in [Nodes -> SUBSET LocalPages]

\* No two entries of the page table share a global or a local address.
Distinct(n) ==
  \A i, j \in DOMAIN pages[n] : i # j => /\ pages[n][i].global # pages[n][j].global
                                        /\ pages[n][i].local # pages[n][j].local
Orderly == \A n \in Nodes : Distinct(n) /\ phase[n] # "gone"

\* Regions, mappings and page table stay in step, whatever is allocated, mapped
\* and freed in whatever order: every page of a region is mapped, belongs to
\* no other region and has an entry, and nothing else is mapped.
RegionsBacked ==
  \A n \in Nodes : \A l \in LocalPages :
    LET rs == {i \in DOMAIN regions[n] : Contains(regions[n][i], l)}
    IN  /\ Cardinality(rs) = IF prot[n][l] = "UNMAPPED" THEN 0 ELSE 1
        /\ \A i \in rs : \E k \in DOMAIN pages[n] :
             /\ pages[n][k].local = l /\ pages[n][k].owner = regions[n][i].owner
             /\ pages[n][k].global = regions[n][i].global + (l - regions[n][i].base)

\* As long as a node's page table has no duplicates, dsm_free removes the region
\* it is given and no other, although it searches by global address: behind
\* every address the application holds, and only those, is a region.
FreesWhatItIsGiven ==
  \A n \in Nodes : Distinct(n) =>
    {regions[n][i].base : i \in 2..Len(regions[n])} = held[n]

\* Whatever a node can read in one of its regions is what its owner put there.
RightBytes ==
  \A n \in Nodes : \A i \in DOMAIN regions[n] : \A l \in LocalPages :
    LET r == regions[n][i]
    IN  Contains(r, l) /\ prot[n][l] \in {"READ", "RW"} =>
          bytes[n][l] = <<IF Own(n, r) THEN n ELSE Master, r.global + (l - r.base)>>

\* That is so as long as no page table has two entries for one address: pages
\* asked for by global address and pages that fault by local address are then
\* found right, on both sides, also after frees and with several pages mapped.
RightBytesIfDistinct == Orderly => RightBytes

\* The owner of an allocation of the master is found under its first page,
\* with other allocations, older and newer, in the same bucket.
OwnerFound ==
  \A i \in DOMAIN regions[Master] : OwnershipGet(regions[Master][i].global) = id[Master]

\* Is the page the worker wants one the master has in a region?
Served(w) == RegionFind(Master, LocalToGlobal(w, want[w])) # 0

\* A read of a page the master has allocated completes, unless a page table
\* has two entries for one address.
ReadsComplete ==
  \A w \in Workers : \A l \in LocalPages :
    want[w] = l ~> (want[w] = None \/ ~Orderly \/ ~Served(w))

-----------------------------------------------------------------------------
(* The inductive invariant behind the safety properties *)

\* Page l of region r has its entry in the page table.
Registered(n, r, l) ==
  \E k \in DOMAIN pages[n] :
    /\ pages[n][k].local = l /\ pages[n][k].owner = r.owner
    /\ pages[n][k].global = r.global + (l - r.base)

\* Regions lie in the address space, are mapped and registered, and do not
\* overlap; nothing else is mapped.
SpaceInv(n) ==
  /\ \A i \in DOMAIN regions[n] :
       LET r == regions[n][i]
       IN  \A l \in r.base..r.base + r.count - 1 :
             l \in LocalPages /\ prot[n][l] # "UNMAPPED" /\ Registered(n, r, l)
  /\ \A i, j \in DOMAIN regions[n] : \A l \in LocalPages :
       Contains(regions[n][i], l) /\ Contains(regions[n][j], l) => i = j
  /\ \A l \in LocalPages : prot[n][l] # "UNMAPPED" =>
       \E i \in DOMAIN regions[n] : Contains(regions[n][i], l)

\* A node has regions between dsm_mem_init and dsm_mem_shutdown; its first one, that
\* of dsm_mem_init, is not the application's and stays.
PhaseInv(n) ==
  /\ phase[n] \in {"start", "gone"} => regions[n] = <<>> /\ pages[n] = <<>> /\ held[n] = {}
  /\ phase[n] \in {"up", "killed"} /\ Distinct(n) => regions[n] # <<>>

IdInv == id[Master] = 1 /\ \A w \in Workers : id[w] \in {0, IdOf[w]}

\* Only the master's own allocations are in the ownership table, each of its regions
\* under its first page.
OwnerInv ==
  /\ \A b \in DOMAIN ownership : \A j \in DOMAIN ownership[b] : ownership[b][j].owner = 1
  /\ \A i \in DOMAIN regions[Master] :
       LET g == regions[Master][i].global
       IN  \E j \in DOMAIN ownership[Hash(g)] : Covers(ownership[Hash(g)][j], g)

\* What a page of region r holds and how it may be accessed, as long as all is orderly.
PageInv(n, r, l) ==
  IF Own(n, r) THEN prot[n][l] = "RW" /\ bytes[n][l] = <<n, r.global + (l - r.base)>>
  ELSE /\ prot[n][l] \in {"NONE", "READ"}
       /\ prot[n][l] = "READ" => bytes[n][l] = <<Master, r.global + (l - r.base)>>
BytesInv(n) ==
  \A i \in DOMAIN regions[n] : \A l \in LocalPages :
    Contains(regions[n][i], l) => PageInv(n, regions[n][i], l)

\* A worker asks only for pages it has registered as the master's, and is sent those.
Asked(w, g) == \E k \in DOMAIN pages[w] : pages[w][k].global = g /\ pages[w][k].owner = 1
FlightInv(w) ==
  /\ \A i \in DOMAIN toMaster[w] : Asked(w, toMaster[w][i].global)
  /\ \A i \in DOMAIN toWorker[w] : /\ Asked(w, toWorker[w][i].global)
                                   /\ toWorker[w][i].data = <<Master, toWorker[w][i].global>>

MemoryInv ==
  /\ TypeOK /\ IdInv /\ OwnerInv /\ FreesWhatItIsGiven
  /\ \A n \in Nodes : SpaceInv(n) /\ PhaseInv(n)
  /\ Orderly => /\ \A n \in Nodes : BytesInv(n)
                /\ \A w \in Workers : FlightInv(w)
=============================================================================
