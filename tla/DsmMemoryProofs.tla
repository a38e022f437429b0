--------------------------- MODULE DsmMemoryProofs ---------------------------
(***************************************************************************)
(* Theorems about DsmMemory: regions, mappings, page tables and the        *)
(* ownership table agree, dsm_free removes the region it is given, and an  *)
(* orderly program reads its owner's bytes.                                *)
(***************************************************************************)
EXTENDS DsmMemory, FiniteSetTheorems, SequenceTheorems, WellFoundedInduction, TLAPS

-----------------------------------------------------------------------------
(* Searches *)

\* Every non-empty set of numbers has a least one: the intervals below its members
\* are ordered by inclusion, which is well-founded.
LEMMA LeastNumber ==
  ASSUME NEW S \in SUBSET Nat, S # {}
  PROVE  \E m \in S : \A k \in S : m <= k
<1> DEFINE T == {0..n : n \in S}
<1>1. T \subseteq FiniteSubsetsOf(Nat) /\ T # {}
  <2>1. \A n \in S : IsFiniteSet(0..n) /\ 0..n \in SUBSET Nat
    BY FS_Interval
  <2> QED
    BY <2>1 DEF FiniteSubsetsOf
<1>2. IsWellFoundedOn(StrictSubsetOrdering(Nat), FiniteSubsetsOf(Nat))
  BY FS_StrictSubsetOrderingWellFounded
<1> HIDE DEF T
<1>3. PICK x \in T : \A y \in T : ~(<<y, x>> \in StrictSubsetOrdering(Nat))
  BY <1>1, <1>2, WFMin
<1>4. PICK m \in S : x = 0..m
  BY DEF T
<1>5. ASSUME NEW k \in S, ~(m <= k) PROVE FALSE
  <2>1. 0..k \in T
    BY DEF T
  <2>2. 0..k \subseteq 0..m /\ 0..k # 0..m
    <3>1. m \in 0..m /\ m \notin 0..k
      BY <1>5
    <3>2. 0..k \subseteq 0..m
      BY <1>5
    <3> QED
      BY <3>1, <3>2
  <2>3. <<0..k, 0..m>> \in StrictSubsetOrdering(Nat)
    BY <2>2 DEF StrictSubsetOrdering
  <2> QED
    BY <1>3, <1>4, <2>1, <2>3
<1> QED
  BY <1>5

\* A search from the front finds something if there is anything to find.
LEMMA SearchFacts ==
  ASSUME NEW S \in SUBSET Nat, 0 \notin S
  PROVE  /\ S # {} => FirstOr0(S) \in S
         /\ FirstOr0(S) = 0 <=> S = {}
<1>1. ASSUME S # {} PROVE First(S) \in S
  <2>1. \E m \in S : \A k \in S : m <= k
    BY <1>1, LeastNumber
  <2> QED
    BY <2>1 DEF First
<1> QED
  BY <1>1 DEF FirstOr0

-----------------------------------------------------------------------------
(* What the operations do to the lists *)

LEMMA ListFacts ==
  ASSUME TypeOK, NEW n \in Nodes
  PROVE  /\ regions[n] \in Seq(Region) /\ Len(regions[n]) \in Nat
         /\ DOMAIN regions[n] = 1..Len(regions[n])
         /\ \A i \in DOMAIN regions[n] : regions[n][i] \in Region
         /\ pages[n] \in Seq(Page) /\ Len(pages[n]) \in Nat
         /\ DOMAIN pages[n] = 1..Len(pages[n])
         /\ \A i \in DOMAIN pages[n] : pages[n][i] \in Page
<1>1. regions[n] \in Seq(Region) /\ pages[n] \in Seq(Page)
  BY DEF TypeOK
<1> QED
  BY <1>1, LenProperties, ElementOfSeq

\* Taking the i-th element out of a list.
LEMMA RemoveFacts ==
  ASSUME NEW T, NEW s \in Seq(T), NEW i \in 1..Len(s)
  PROVE  LET u == SubSeq(s, 1, i - 1) \o SubSeq(s, i + 1, Len(s))
         IN  /\ u \in Seq(T) /\ Len(u) = Len(s) - 1 /\ DOMAIN u = 1..Len(s) - 1
             /\ \A k \in 1..Len(s) - 1 : u[k] = IF k < i THEN s[k] ELSE s[k + 1]
<1> DEFINE a == SubSeq(s, 1, i - 1)
<1> DEFINE b == SubSeq(s, i + 1, Len(s))
<1>1. PICK n \in Nat : n = Len(s)
  BY LenProperties
<1>2. \A k \in 1..n : s[k] \in T
  BY <1>1, ElementOfSeq
<1>3. /\ i \in Nat /\ 1 <= i /\ i <= n /\ i - 1 \in Int /\ i + 1 \in Int /\ n \in Int /\ 1 \in Int
      /\ i - 1 \in Nat /\ n - i \in Nat
  BY <1>1
<1>4. /\ \A k \in 1..i - 1 : s[k] \in T
      /\ \A k \in i + 1..n : s[k] \in T
  BY <1>2, <1>3
<1>5. /\ a \in Seq(T) /\ Len(a) = i - 1
      /\ \A k \in 1..i - 1 : a[k] = s[k]
  <2>1. /\ a \in Seq(T) /\ Len(a) = IF 1 <= i - 1 THEN (i - 1) - 1 + 1 ELSE 0
        /\ \A k \in 1..(i - 1) - 1 + 1 : a[k] = s[1 + k - 1]
    BY <1>3, <1>4, SubSeqProperties
  <2> HIDE DEF a
  <2>2. (i - 1) - 1 + 1 = i - 1 /\ \A k \in 1..i - 1 : 1 + k - 1 = k
    BY <1>3
  <2> QED
    BY <1>3, <2>1, <2>2
<1>6. /\ b \in Seq(T) /\ Len(b) = n - i
      /\ \A k \in 1..n - i : b[k] = s[i + k]
  <2>1. /\ b \in Seq(T) /\ Len(b) = IF i + 1 <= n THEN n - (i + 1) + 1 ELSE 0
        /\ \A k \in 1..n - (i + 1) + 1 : b[k] = s[(i + 1) + k - 1]
    BY <1>1, <1>3, <1>4, SubSeqProperties
  <2> HIDE DEF b
  <2>2. n - (i + 1) + 1 = n - i /\ \A k \in 1..n - i : (i + 1) + k - 1 = i + k
    BY <1>3
  <2> QED
    BY <1>3, <2>1, <2>2
<1> HIDE DEF a, b
<1>7. /\ a \o b \in Seq(T) /\ Len(a \o b) = (i - 1) + (n - i)
      /\ \A k \in 1..(i - 1) + (n - i) :
           (a \o b)[k] = IF k <= i - 1 THEN a[k] ELSE b[k - (i - 1)]
  BY <1>5, <1>6, ConcatProperties, SMTT(30)
<1>8. (i - 1) + (n - i) = n - 1
  BY <1>3
<1>9. ASSUME NEW k \in 1..n - 1 PROVE (a \o b)[k] = IF k < i THEN s[k] ELSE s[k + 1]
  <2>1. (a \o b)[k] = IF k <= i - 1 THEN a[k] ELSE b[k - (i - 1)]
    BY <1>7, <1>8
  <2>2. CASE k < i
    <3>1. k <= i - 1 /\ k \in 1..i - 1
      BY <1>3, <2>2
    <3> QED
      BY <1>5, <2>1, <2>2, <3>1
  <2>3. CASE ~(k < i)
    <3>1. ~(k <= i - 1) /\ k - (i - 1) \in 1..n - i /\ i + (k - (i - 1)) = k + 1
      BY <1>3, <2>3
    <3> QED
      BY <1>6, <2>1, <2>3, <3>1
  <2> QED
    BY <2>2, <2>3
<1>10. DOMAIN (a \o b) = 1..n - 1
  BY <1>7, <1>8, LenProperties
<1> QED
  BY <1>1, <1>7, <1>8, <1>9, <1>10 DEF a, b

States == {"INVALID", "PENDING", "SHARED", "MODIFIED"}

\* Two entries that differ at most in their state.
Alike(e, f) == e.global = f.global /\ e.local = f.local /\ e.owner = f.owner

\* The page table of node n keeps its entries, up to their state.
TableKept(n) ==
  /\ DOMAIN pages[n] \subseteq DOMAIN pages'[n]
  /\ \A k \in DOMAIN pages[n] : Alike(pages'[n][k], pages[n][k])

\* Page l of region r has its entry afterwards.
RegisteredNext(n, r, l) ==
  \E k \in DOMAIN pages'[n] :
    /\ pages'[n][k].local = l /\ pages'[n][k].owner = r.owner
    /\ pages'[n][k].global = r.global + (l - r.base)

LEMMA KeptFacts ==
  ASSUME NEW n, TableKept(n)
  PROVE  /\ Distinct(n)' => Distinct(n)
         /\ \A r, l : Registered(n, r, l) => RegisteredNext(n, r, l)
         /\ \A g : Asked(n, g) => Asked(n, g)'
<1>1. Distinct(n)' => Distinct(n)
  BY DEF Distinct, TableKept, Alike
<1>2. \A r, l : Registered(n, r, l) => RegisteredNext(n, r, l)
  BY DEF Registered, RegisteredNext, TableKept, Alike
<1>3. \A g : Asked(n, g) => Asked(n, g)'
  BY DEF Asked, TableKept, Alike
<1> QED
  BY <1>1, <1>2, <1>3

LEMMA SameTableKept ==
  ASSUME NEW n, pages'[n] = pages[n]
  PROVE  TableKept(n)
  BY DEF TableKept, Alike

\* A state is written into an entry.
LEMMA StateFacts ==
  ASSUME TypeOK, NEW n \in Nodes, NEW i \in DOMAIN pages[n], NEW s \in States,
         pages' = [pages EXCEPT ![n][i].state = s]
  PROVE  /\ pages' \in [Nodes -> Seq(Page)]
         /\ \A d \in Nodes : TableKept(d) /\ DOMAIN pages'[d] = DOMAIN pages[d]
<1>1. pages[n] \in Seq(Page) /\ pages[n][i] \in Page /\ DOMAIN pages[n] = 1..Len(pages[n])
      /\ Len(pages[n]) \in Nat /\ \A k \in DOMAIN pages[n] : pages[n][k] \in Page
  BY ListFacts
<1> DEFINE e == [pages[n][i] EXCEPT !.state = s]
<1> DEFINE t == [pages[n] EXCEPT ![i] = e]
<1>2. e \in Page /\ Alike(e, pages[n][i])
  BY <1>1 DEF Page, States, Alike
<1> HIDE DEF e
<1>3. /\ DOMAIN t = DOMAIN pages[n] /\ t \in Seq(Page)
      /\ \A k \in DOMAIN pages[n] : Alike(t[k], pages[n][k])
  <2>1. DOMAIN t = DOMAIN pages[n] /\ \A k \in DOMAIN pages[n] : t[k] \in Page
    BY <1>1, <1>2
  <2>2. t \in Seq(Page)
    BY <1>1, <1>2
  <2>3. \A k \in DOMAIN pages[n] : Alike(t[k], pages[n][k])
    BY <1>1, <1>2 DEF Alike
  <2> QED
    BY <2>1, <2>2, <2>3
<1>4. pages' = [pages EXCEPT ![n] = t]
  BY DEF e
<1> HIDE DEF t
<1>5. pages' \in [Nodes -> Seq(Page)] /\ pages'[n] = t /\ \A d \in Nodes \ {n} : pages'[d] = pages[d]
  <2>1. pages \in [Nodes -> Seq(Page)]
    BY DEF TypeOK
  <2> QED
    BY <1>3, <1>4, <2>1
<1> QED
  BY <1>3, <1>5, SameTableKept DEF TableKept

-----------------------------------------------------------------------------
(* dsm_region_create *)

NewRegion(l, count, owner, g) == [base |-> l, global |-> g, count |-> count, owner |-> owner]

\* The kernel gives a range that nothing is mapped in.
LEMMA HoleFacts ==
  ASSUME NEW n \in Nodes, NEW count \in Nat \ {0}, NEW l \in Holes(n, count)
  PROVE  /\ l \in LocalPages /\ l \in Nat
         /\ \A k \in l..l + count - 1 : k \in LocalPages /\ prot[n][k] = "UNMAPPED"
<1>1. l \in LocalPages /\ \A k \in l..l + count - 1 : k \in LocalPages /\ prot[n][k] = "UNMAPPED"
  BY DEF Holes
<1> QED
  BY <1>1, MemoryAssumptions

LEMMA RangeFacts ==
  ASSUME NEW l \in Nat, NEW count \in Nat \ {0}, NEW owner, NEW g, NEW k \in Nat
  PROVE  Contains(NewRegion(l, count, owner, g), k) <=> k \in l..l + count - 1
  BY DEF Contains, NewRegion

\* The region is the last one of the list.
LEMMA CreateRegions ==
  ASSUME TypeOK, NEW n \in Nodes, NEW count \in Nat \ {0}, NEW owner \in Nat, NEW g \in Nat,
         NEW st \in States, NEW l \in Holes(n, count), RegionCreate(n, l, count, owner, g, st)
  PROVE  /\ regions' \in [Nodes -> Seq(Region)]
         /\ \A d \in Nodes \ {n} : regions'[d] = regions[d]
         /\ DOMAIN regions'[n] = 1..Len(regions[n]) + 1
         /\ Len(regions'[n]) = Len(regions[n]) + 1
         /\ regions'[n][Len(regions[n]) + 1] = NewRegion(l, count, owner, g)
         /\ \A i \in DOMAIN regions[n] : regions'[n][i] = regions[n][i]
         /\ NewRegion(l, count, owner, g) \in Region
<1> DEFINE r == NewRegion(l, count, owner, g)
<1>1. r \in Region
  BY HoleFacts DEF Region, NewRegion
<1>2. regions' = [regions EXCEPT ![n] = Append(regions[n], r)]
  BY DEF RegionCreate, NewRegion
<1> HIDE DEF r
<1>3. regions[n] \in Seq(Region) /\ DOMAIN regions[n] = 1..Len(regions[n]) /\ Len(regions[n]) \in Nat
  BY ListFacts
<1>4. /\ Append(regions[n], r) \in Seq(Region)
      /\ Len(Append(regions[n], r)) = Len(regions[n]) + 1
      /\ \A i \in 1..Len(regions[n]) : Append(regions[n], r)[i] = regions[n][i]
      /\ Append(regions[n], r)[Len(regions[n]) + 1] = r
  BY <1>1, <1>3, AppendProperties
<1>5. /\ regions' \in [Nodes -> Seq(Region)] /\ regions'[n] = Append(regions[n], r)
      /\ \A d \in Nodes \ {n} : regions'[d] = regions[d]
  BY <1>2, <1>4 DEF TypeOK
<1>6. DOMAIN regions'[n] = 1..Len(regions[n]) + 1
  BY <1>4, <1>5, LenProperties
<1> QED
  BY <1>1, <1>3, <1>4, <1>5, <1>6 DEF r

\* Its pages are registered behind the others.
LEMMA CreatePages ==
  ASSUME TypeOK, NEW n \in Nodes, NEW count \in Nat \ {0}, NEW owner \in Nat, NEW g \in Nat,
         NEW st \in States, NEW l \in Holes(n, count), RegionCreate(n, l, count, owner, g, st)
  PROVE  /\ pages' \in [Nodes -> Seq(Page)]
         /\ \A d \in Nodes \ {n} : pages'[d] = pages[d]
         /\ \A d \in Nodes : TableKept(d)
         /\ \A k \in l..l + count - 1 : RegisteredNext(n, NewRegion(l, count, owner, g), k)
<1> DEFINE new == [k \in 1..count |-> PageRegister(n, g + k - 1, l + k - 1, owner)]
<1> DEFINE table == pages[n] \o new
<1> DEFINE touched == {First({i \in DOMAIN table : table[i].global = a}) : a \in g..g + count - 1}
<1> DEFINE t == IF st = "SHARED"
                THEN [i \in DOMAIN table |-> IF i \in touched
                                             THEN [table[i] EXCEPT !.state = st]
                                             ELSE table[i]]
                ELSE table
<1>1. pages' = [pages EXCEPT ![n] = t]
  BY DEF RegionCreate
<1>2. l \in Nat /\ \A k \in l..l + count - 1 : k \in LocalPages
  BY HoleFacts
<1>3. ASSUME NEW k \in 1..count
      PROVE  /\ PageRegister(n, g + k - 1, l + k - 1, owner) \in Page
             /\ new[k].global = g + k - 1 /\ new[k].local = l + k - 1 /\ new[k].owner = owner
  <2>1. g + k - 1 \in Nat /\ l + k - 1 \in l..l + count - 1
    BY <1>2
  <2> QED
    BY <1>2, <2>1 DEF PageRegister, Page
<1>4. new \in Seq(Page) /\ Len(new) = count /\ DOMAIN new = 1..count
  <2>1. new \in [1..count -> Page]
    BY <1>3
  <2>2. new \in Seq(Page)
    BY <2>1, SeqDef
  <2> QED
    BY <2>1, <2>2, LenProperties
<1>5. PICK p \in Nat : /\ p = Len(pages[n]) /\ pages[n] \in Seq(Page) /\ DOMAIN pages[n] = 1..p
  BY ListFacts
<1> HIDE DEF new
<1>6. /\ table \in Seq(Page) /\ Len(table) = p + count
      /\ \A i \in 1..p + count : table[i] = IF i <= p THEN pages[n][i] ELSE new[i - p]
  BY <1>4, <1>5, ConcatProperties, ZenonT(60)
<1>7. DOMAIN table = 1..p + count /\ \A i \in 1..p + count : table[i] \in Page
  BY <1>6, LenProperties, ElementOfSeq
<1> HIDE DEF table
<1>8. /\ t \in Seq(Page) /\ DOMAIN t = 1..p + count
      /\ \A i \in 1..p + count : Alike(t[i], table[i])
  <2>1. ASSUME NEW i \in 1..p + count
        PROVE  [table[i] EXCEPT !.state = st] \in Page /\ Alike([table[i] EXCEPT !.state = st], table[i])
    BY <1>7 DEF Page, States, Alike
  <2>2. CASE st = "SHARED"
    <3> HIDE DEF touched
    <3>1. DOMAIN t = 1..p + count /\ \A i \in 1..p + count : t[i] \in Page /\ Alike(t[i], table[i])
      BY <1>7, <2>1, <2>2 DEF Alike
    <3>2. t = [i \in 1..p + count |-> t[i]]
      BY <1>7, <2>2
    <3>3. t \in [1..p + count -> Page]
      BY <3>1, <3>2
    <3>4. t \in Seq(Page)
      <4>1. p + count \in Nat
        OBVIOUS
      <4> HIDE DEF t
      <4> QED
        BY <3>3, <4>1, SeqDef
    <3> QED
      BY <3>1, <3>4
  <2>3. CASE st # "SHARED"
    BY <1>6, <1>7, <2>3 DEF Alike
  <2> QED
    BY <2>2, <2>3
<1> HIDE DEF t
<1>9. /\ pages' \in [Nodes -> Seq(Page)] /\ pages'[n] = t
      /\ \A d \in Nodes \ {n} : pages'[d] = pages[d]
  BY <1>1, <1>8 DEF TypeOK
<1>10. TableKept(n)
  <2>1. \A k \in 1..p : k \in 1..p + count /\ k <= p
    BY <1>5
  <2> QED
    BY <1>5, <1>6, <1>8, <1>9, <2>1 DEF TableKept
<1>11. ASSUME NEW k \in l..l + count - 1
       PROVE  RegisteredNext(n, NewRegion(l, count, owner, g), k)
  <2> DEFINE j == k - l + 1
  <2>1. /\ k \in Nat /\ j \in 1..count /\ p + j \in 1..p + count /\ ~(p + j <= p) /\ (p + j) - p = j
        /\ g + j - 1 = g + (k - l) /\ l + j - 1 = k
    <3>1. k \in Nat /\ l <= k /\ k <= l + count - 1
      BY <1>2
    <3>2. j \in Nat /\ 1 <= j /\ j <= count /\ g + j - 1 = g + (k - l) /\ l + j - 1 = k
      BY <1>2, <3>1
    <3> HIDE DEF j
    <3>3. p + j \in 1..p + count /\ ~(p + j <= p) /\ (p + j) - p = j
      BY <3>2
    <3> QED
      BY <3>1, <3>2, <3>3
  <2>2. table[p + j] = new[j]
    BY <1>6, <2>1
  <2>3. new[j].global = g + (k - l) /\ new[j].local = k /\ new[j].owner = owner
    BY <1>3, <2>1 DEF new
  <2> HIDE DEF j
  <2>4. Alike(t[p + j], new[j]) /\ p + j \in DOMAIN t
    BY <1>8, <2>1, <2>2
  <2> QED
    BY <1>9, <2>3, <2>4 DEF RegisteredNext, Alike, NewRegion
<1> QED
  BY <1>9, <1>10, <1>11, SameTableKept

\* It is mapped, and accessible and filled if it is the node's own.
LEMMA CreateSpace ==
  ASSUME TypeOK, NEW n \in Nodes, NEW count \in Nat \ {0}, NEW owner \in Nat, NEW g \in Nat,
         NEW st \in States, NEW l \in Holes(n, count), RegionCreate(n, l, count, owner, g, st)
  PROVE  /\ prot' \in [Nodes -> [LocalPages -> {"UNMAPPED", "NONE", "READ", "RW"}]]
         /\ bytes' \in [Nodes -> [LocalPages -> Bytes]]
         /\ \A d \in Nodes \ {n} : prot'[d] = prot[d] /\ bytes'[d] = bytes[d]
         /\ \A k \in LocalPages \ (l..l + count - 1) :
              prot'[n][k] = prot[n][k] /\ bytes'[n][k] = bytes[n][k]
         /\ \A k \in l..l + count - 1 : IF owner = id[n]
              THEN prot'[n][k] = "RW" /\ bytes'[n][k] = <<n, g + (k - l)>>
              ELSE prot'[n][k] = "NONE"
<1>0. l \in Nat /\ \A k \in l..l + count - 1 : k \in LocalPages
  BY HoleFacts
<1> DEFINE range == l..l + count - 1
<1> DEFINE p == [k \in LocalPages |->
                   IF k \in range THEN (IF owner = id[n] THEN "RW" ELSE "NONE") ELSE prot[n][k]]
<1> DEFINE b == [k \in LocalPages |->
                   IF k \in range THEN (IF owner = id[n] THEN <<n, g + k - l>> ELSE Zero)
                   ELSE bytes[n][k]]
<1>1. prot' = [prot EXCEPT ![n] = p] /\ bytes' = [bytes EXCEPT ![n] = b]
  BY DEF RegionCreate
<1>2. p \in [LocalPages -> {"UNMAPPED", "NONE", "READ", "RW"}]
  BY DEF TypeOK
<1>3. ASSUME NEW k \in range PROVE g + k - l \in Nat /\ g + k - l = g + (k - l)
  BY <1>0
<1>4. b \in [LocalPages -> Bytes]
  <2>1. ASSUME NEW k \in LocalPages PROVE b[k] \in Bytes
    <3>1. CASE k \in range
      BY <1>3, <3>1 DEF Bytes
    <3>2. CASE k \notin range
      BY <3>2 DEF TypeOK
    <3> QED
      BY <3>1, <3>2
  <2> QED
    BY <2>1
<1>5. \A k \in LocalPages : /\ k \notin range => p[k] = prot[n][k] /\ b[k] = bytes[n][k]
                            /\ k \in range /\ owner = id[n] => p[k] = "RW" /\ b[k] = <<n, g + k - l>>
                            /\ k \in range /\ owner # id[n] => p[k] = "NONE"
  OBVIOUS
<1> HIDE DEF p, b, range
<1>6. /\ prot' \in [Nodes -> [LocalPages -> {"UNMAPPED", "NONE", "READ", "RW"}]] /\ prot'[n] = p
      /\ \A d \in Nodes \ {n} : prot'[d] = prot[d]
  BY <1>1, <1>2 DEF TypeOK
<1>7. /\ bytes' \in [Nodes -> [LocalPages -> Bytes]] /\ bytes'[n] = b
      /\ \A d \in Nodes \ {n} : bytes'[d] = bytes[d]
  BY <1>1, <1>4 DEF TypeOK
<1>8. \A k \in range : k \in LocalPages
  BY <1>0 DEF range
<1> QED
  BY <1>3, <1>5, <1>6, <1>7, <1>8 DEF range

-----------------------------------------------------------------------------
(* Regions, mappings and page table *)

LEMMA ContainsFacts ==
  ASSUME NEW r \in Region
  PROVE  /\ r.base \in LocalPages /\ r.base \in Nat /\ r.count \in Nat \ {0}
         /\ r.global \in Nat /\ r.owner \in Nat
         /\ \A l \in Nat : Contains(r, l) <=> l \in r.base..r.base + r.count - 1
         /\ Contains(r, r.base)
         /\ r.base..r.base + r.count - 1 \subseteq Nat
<1>1. /\ r.base \in LocalPages /\ r.base \in Nat /\ r.count \in Nat \ {0}
      /\ r.global \in Nat /\ r.owner \in Nat
  BY MemoryAssumptions DEF Region
<1> QED
  BY <1>1 DEF Contains

\* What is in a region is mapped and registered; the region is the only one.
LEMMA SpaceFacts ==
  ASSUME TypeOK, NEW n \in Nodes, SpaceInv(n), NEW i \in DOMAIN regions[n], NEW l \in Nat,
         Contains(regions[n][i], l)
  PROVE  /\ l \in LocalPages /\ prot[n][l] # "UNMAPPED" /\ Registered(n, regions[n][i], l)
         /\ \A j \in DOMAIN regions[n] : Contains(regions[n][j], l) => j = i
<1>1. regions[n][i] \in Region
  BY ListFacts
<1>2. l \in regions[n][i].base..regions[n][i].base + regions[n][i].count - 1
  BY <1>1, ContainsFacts
<1> QED
  BY <1>2 DEF SpaceInv

LEMMA SpaceFrame ==
  ASSUME NEW n \in Nodes, SpaceInv(n), regions'[n] = regions[n], TableKept(n),
         \A l \in LocalPages : prot'[n][l] = "UNMAPPED" <=> prot[n][l] = "UNMAPPED"
  PROVE  SpaceInv(n)'
<1>1. ASSUME NEW i \in DOMAIN regions[n],
             NEW l \in regions[n][i].base..regions[n][i].base + regions[n][i].count - 1
      PROVE  l \in LocalPages /\ prot'[n][l] # "UNMAPPED" /\ RegisteredNext(n, regions[n][i], l)
  <2>1. l \in LocalPages /\ prot[n][l] # "UNMAPPED" /\ Registered(n, regions[n][i], l)
    BY DEF SpaceInv
  <2>2. RegisteredNext(n, regions[n][i], l)
    BY <2>1, KeptFacts
  <2> QED
    BY <2>1, <2>2
<1>2. \A i, j \in DOMAIN regions[n] : \A l \in LocalPages :
        Contains(regions[n][i], l) /\ Contains(regions[n][j], l) => i = j
  BY DEF SpaceInv
<1>3. \A l \in LocalPages : prot'[n][l] # "UNMAPPED" =>
        \E i \in DOMAIN regions[n] : Contains(regions[n][i], l)
  BY DEF SpaceInv
<1> QED
  BY <1>1, <1>2, <1>3 DEF SpaceInv, Registered, RegisteredNext, Contains

LEMMA CreateSpaceInv ==
  ASSUME TypeOK, NEW n \in Nodes, NEW count \in Nat \ {0}, NEW owner \in Nat, NEW g \in Nat,
         NEW st \in States, NEW l \in Holes(n, count), RegionCreate(n, l, count, owner, g, st),
         SpaceInv(n)
  PROVE  SpaceInv(n)'
<1> DEFINE r == NewRegion(l, count, owner, g)
<1>1. PICK L \in Nat : L = Len(regions[n]) /\ DOMAIN regions[n] = 1..L
  BY ListFacts
<1>2. /\ DOMAIN regions'[n] = 1..L + 1 /\ regions'[n][L + 1] = r /\ r \in Region
      /\ \A i \in 1..L : regions'[n][i] = regions[n][i] /\ regions[n][i] \in Region
  <2>1. /\ DOMAIN regions'[n] = 1..Len(regions[n]) + 1
        /\ regions'[n][Len(regions[n]) + 1] = r /\ r \in Region
        /\ \A i \in DOMAIN regions[n] : regions'[n][i] = regions[n][i]
    BY CreateRegions
  <2>2. \A i \in DOMAIN regions[n] : regions[n][i] \in Region
    BY ListFacts
  <2> HIDE DEF r
  <2> QED
    BY <1>1, <2>1, <2>2
<1>3. /\ TableKept(n)
      /\ \A k \in l..l + count - 1 : RegisteredNext(n, r, k)
  BY CreatePages
<1>4. /\ \A k \in LocalPages \ (l..l + count - 1) : prot'[n][k] = prot[n][k]
      /\ \A k \in l..l + count - 1 : prot'[n][k] # "UNMAPPED"
  BY CreateSpace
<1>5. /\ l \in Nat
      /\ \A k \in l..l + count - 1 : k \in LocalPages /\ prot[n][k] = "UNMAPPED"
  BY HoleFacts
<1>6. r.base = l /\ r.count = count /\ \A k \in Nat : Contains(r, k) <=> k \in l..l + count - 1
  BY <1>5, RangeFacts DEF NewRegion
<1> HIDE DEF r
<1>7. \A i \in 1..L + 1 : i \in 1..L \/ i = L + 1
  BY <1>1
<1>8. ASSUME NEW i \in 1..L, NEW k \in Nat, Contains(regions[n][i], k)
      PROVE  /\ k \in LocalPages /\ k \notin l..l + count - 1
             /\ prot'[n][k] # "UNMAPPED" /\ RegisteredNext(n, regions[n][i], k)
  <2>1. k \in LocalPages /\ prot[n][k] # "UNMAPPED" /\ Registered(n, regions[n][i], k)
    BY <1>1, <1>8, SpaceFacts
  <2>2. k \notin l..l + count - 1
    BY <1>5, <2>1
  <2>3. RegisteredNext(n, regions[n][i], k)
    BY <1>3, <2>1, KeptFacts
  <2> QED
    BY <1>4, <2>1, <2>2, <2>3
<1>9. ASSUME NEW i \in 1..L + 1,
             NEW k \in regions'[n][i].base..regions'[n][i].base + regions'[n][i].count - 1
      PROVE  k \in LocalPages /\ prot'[n][k] # "UNMAPPED" /\ RegisteredNext(n, regions'[n][i], k)
  <2>1. CASE i \in 1..L
    <3>1. k \in Nat /\ Contains(regions[n][i], k)
      BY <1>2, <2>1, ContainsFacts
    <3> QED
      BY <1>2, <1>8, <2>1, <3>1
  <2>2. CASE i = L + 1
    <3>1. k \in l..l + count - 1
      BY <1>2, <1>6, <2>2
    <3> QED
      BY <1>2, <1>3, <1>4, <1>5, <2>2, <3>1
  <2> QED
    BY <1>7, <2>1, <2>2
<1>10. ASSUME NEW i \in 1..L + 1, NEW j \in 1..L + 1, NEW k \in LocalPages,
              Contains(regions'[n][i], k), Contains(regions'[n][j], k)
       PROVE  i = j
  <2>0. k \in Nat
    BY MemoryAssumptions
  <2>1. CASE i \in 1..L /\ j \in 1..L
    BY <1>1, <1>2, <1>10, <2>0, <2>1, SpaceFacts
  <2>2. CASE i = L + 1 /\ j \in 1..L
    BY <1>2, <1>6, <1>8, <1>10, <2>0, <2>2
  <2>3. CASE i \in 1..L /\ j = L + 1
    BY <1>2, <1>6, <1>8, <1>10, <2>0, <2>3
  <2>4. CASE i = L + 1 /\ j = L + 1
    BY <2>4
  <2> QED
    BY <1>7, <2>1, <2>2, <2>3, <2>4
<1>11. ASSUME NEW k \in LocalPages, prot'[n][k] # "UNMAPPED"
       PROVE  \E i \in 1..L + 1 : Contains(regions'[n][i], k)
  <2>0. k \in Nat
    BY MemoryAssumptions
  <2>1. CASE k \in l..l + count - 1
    <3>1. L + 1 \in 1..L + 1 /\ Contains(regions'[n][L + 1], k)
      BY <1>1, <1>2, <1>6, <2>0, <2>1
    <3> QED
      BY <3>1
  <2>2. CASE k \notin l..l + count - 1
    <3>1. prot[n][k] # "UNMAPPED"
      BY <1>4, <1>11, <2>2
    <3>2. PICK i \in 1..L : Contains(regions[n][i], k)
      BY <1>1, <3>1 DEF SpaceInv
    <3>3. i \in 1..L + 1 /\ Contains(regions'[n][i], k)
      BY <1>1, <1>2, <3>2
    <3> QED
      BY <3>3
  <2> QED
    BY <2>1, <2>2
<1> QED
  BY <1>2, <1>9, <1>10, <1>11 DEF SpaceInv, Registered, RegisteredNext, Contains

\* dsm_region_destroy: the region leaves the list, and what it covers is unmapped.
LEMMA DestroyFacts ==
  ASSUME TypeOK, NEW n \in Nodes, SpaceInv(n), NEW i \in DOMAIN regions[n], RegionDestroy(n, i)
  PROVE  /\ regions' \in [Nodes -> Seq(Region)]
         /\ prot' \in [Nodes -> [LocalPages -> {"UNMAPPED", "NONE", "READ", "RW"}]]
         /\ \A d \in Nodes \ {n} : regions'[d] = regions[d] /\ prot'[d] = prot[d]
         /\ Len(regions'[n]) = Len(regions[n]) - 1 /\ DOMAIN regions'[n] = 1..Len(regions[n]) - 1
         /\ \A k \in 1..Len(regions[n]) - 1 :
              regions'[n][k] = IF k < i THEN regions[n][k] ELSE regions[n][k + 1]
         /\ \A k \in LocalPages :
              prot'[n][k] = IF Contains(regions[n][i], k) THEN "UNMAPPED" ELSE prot[n][k]
<1> DEFINE u == SubSeq(regions[n], 1, i - 1) \o SubSeq(regions[n], i + 1, Len(regions[n]))
<1> DEFINE p == [k \in LocalPages |->
                   IF Contains(regions[n][i], k) THEN "UNMAPPED" ELSE prot[n][k]]
<1>1. regions' = [regions EXCEPT ![n] = u] /\ prot' = [prot EXCEPT ![n] = p]
  BY DEF RegionDestroy
<1>2. regions[n] \in Seq(Region) /\ i \in 1..Len(regions[n])
  BY ListFacts
<1>3. /\ u \in Seq(Region) /\ Len(u) = Len(regions[n]) - 1 /\ DOMAIN u = 1..Len(regions[n]) - 1
      /\ \A k \in 1..Len(regions[n]) - 1 :
           u[k] = IF k < i THEN regions[n][k] ELSE regions[n][k + 1]
  BY <1>2, RemoveFacts
<1>4. /\ p \in [LocalPages -> {"UNMAPPED", "NONE", "READ", "RW"}]
      /\ \A k \in LocalPages :
           p[k] = IF Contains(regions[n][i], k) THEN "UNMAPPED" ELSE prot[n][k]
  BY DEF TypeOK
<1> HIDE DEF u, p
<1>5. /\ regions' \in [Nodes -> Seq(Region)] /\ regions'[n] = u
      /\ \A d \in Nodes \ {n} : regions'[d] = regions[d]
  BY <1>1, <1>3 DEF TypeOK
<1>6. /\ prot' \in [Nodes -> [LocalPages -> {"UNMAPPED", "NONE", "READ", "RW"}]] /\ prot'[n] = p
      /\ \A d \in Nodes \ {n} : prot'[d] = prot[d]
  BY <1>1, <1>4 DEF TypeOK
<1> QED
  BY <1>3, <1>4, <1>5, <1>6

\* Where the regions that stay were in the list.
Moved(k, i) == IF k < i THEN k ELSE k + 1

LEMMA MovedFacts ==
  ASSUME NEW L \in Nat, NEW i \in 1..L
  PROVE  /\ \A k \in 1..L - 1 : Moved(k, i) \in 1..L /\ Moved(k, i) # i
         /\ \A j, k \in 1..L - 1 : Moved(j, i) = Moved(k, i) => j = k
         /\ \A j \in 1..L : j # i => \E k \in 1..L - 1 : Moved(k, i) = j
<1>1. \A k \in 1..L - 1 : Moved(k, i) \in 1..L /\ Moved(k, i) # i
  BY DEF Moved
<1>2. \A j, k \in 1..L - 1 : Moved(j, i) = Moved(k, i) => j = k
  BY DEF Moved
<1>3. ASSUME NEW j \in 1..L, j # i PROVE \E k \in 1..L - 1 : Moved(k, i) = j
  <2>1. CASE j < i
    BY <2>1 DEF Moved
  <2>2. CASE ~(j < i)
    <3>1. j - 1 \in 1..L - 1 /\ ~(j - 1 < i) /\ (j - 1) + 1 = j
      BY <1>3, <2>2
    <3> QED
      BY <3>1 DEF Moved
  <2> QED
    BY <2>1, <2>2
<1> QED
  BY <1>1, <1>2, <1>3

LEMMA DestroySpaceInv ==
  ASSUME TypeOK, NEW n \in Nodes, SpaceInv(n), NEW i \in DOMAIN regions[n], RegionDestroy(n, i)
  PROVE  SpaceInv(n)'
<1>1. PICK L \in Nat : L = Len(regions[n]) /\ DOMAIN regions[n] = 1..L
  BY ListFacts
<1>2. /\ DOMAIN regions'[n] = 1..L - 1
      /\ \A k \in 1..L - 1 : regions'[n][k] = regions[n][Moved(k, i)]
      /\ \A k \in LocalPages :
           prot'[n][k] = IF Contains(regions[n][i], k) THEN "UNMAPPED" ELSE prot[n][k]
  BY <1>1, DestroyFacts DEF Moved
<1>3. TableKept(n)
  BY SameTableKept DEF RegionDestroy
<1>4. /\ \A k \in 1..L - 1 : Moved(k, i) \in 1..L /\ Moved(k, i) # i
      /\ \A j, k \in 1..L - 1 : Moved(j, i) = Moved(k, i) => j = k
      /\ \A j \in 1..L : j # i => \E k \in 1..L - 1 : Moved(k, i) = j
  BY <1>1, MovedFacts
<1>5. ASSUME NEW j \in 1..L - 1,
             NEW k \in regions'[n][j].base..regions'[n][j].base + regions'[n][j].count - 1
      PROVE  k \in LocalPages /\ prot'[n][k] # "UNMAPPED" /\ RegisteredNext(n, regions'[n][j], k)
  <2> DEFINE o == Moved(j, i)
  <2>1. o \in 1..L /\ o # i /\ regions'[n][j] = regions[n][o] /\ regions[n][o] \in Region
    BY <1>1, <1>2, <1>4, ListFacts
  <2> HIDE DEF o
  <2>2. k \in Nat /\ Contains(regions[n][o], k)
    BY <2>1, ContainsFacts
  <2>3. /\ k \in LocalPages /\ prot[n][k] # "UNMAPPED" /\ Registered(n, regions[n][o], k)
        /\ ~Contains(regions[n][i], k)
    BY <1>1, <2>1, <2>2, SpaceFacts
  <2>4. RegisteredNext(n, regions[n][o], k)
    BY <1>3, <2>3, KeptFacts
  <2> QED
    BY <1>2, <2>1, <2>3, <2>4
<1>6. ASSUME NEW j \in 1..L - 1, NEW k \in 1..L - 1, NEW l \in LocalPages,
             Contains(regions'[n][j], l), Contains(regions'[n][k], l)
      PROVE  j = k
  <2>1. Moved(j, i) = Moved(k, i)
    <3>1. Moved(j, i) \in DOMAIN regions[n] /\ Moved(k, i) \in DOMAIN regions[n]
      BY <1>1, <1>4
    <3>2. Contains(regions[n][Moved(j, i)], l) /\ Contains(regions[n][Moved(k, i)], l)
      BY <1>2, <1>6
    <3> QED
      BY <3>1, <3>2 DEF SpaceInv
  <2> QED
    BY <1>4, <2>1
<1>7. ASSUME NEW l \in LocalPages, prot'[n][l] # "UNMAPPED"
      PROVE  \E j \in 1..L - 1 : Contains(regions'[n][j], l)
  <2>1. prot[n][l] # "UNMAPPED" /\ ~Contains(regions[n][i], l)
    BY <1>2, <1>7
  <2>2. PICK o \in 1..L : Contains(regions[n][o], l)
    BY <1>1, <2>1 DEF SpaceInv
  <2>3. PICK j \in 1..L - 1 : Moved(j, i) = o
    BY <1>4, <2>1, <2>2
  <2> QED
    BY <1>2, <2>2, <2>3
<1> QED
  BY <1>2, <1>5, <1>6, <1>7 DEF SpaceInv, Registered, RegisteredNext, Contains

-----------------------------------------------------------------------------
(* What the steps do, in one form each *)

Entry == [global : Nat, count : Nat, owner : Nat]

\* dsm_ownership_register: an entry is added in front of its bucket.
LEMMA RegisterFacts ==
  ASSUME TypeOK, NEW g \in Nat, NEW count \in Nat \ {0}, NEW owner \in Nat,
         ownership' = OwnershipRegister(ownership, g, count, owner)
  PROVE  /\ ownership' \in [0..Buckets - 1 -> Seq(Entry)]
         /\ DOMAIN ownership' = DOMAIN ownership
         /\ \A b \in DOMAIN ownership : \A j \in DOMAIN ownership'[b] :
              \/ ownership'[b][j].owner = owner
              \/ \E i \in DOMAIN ownership[b] : ownership'[b][j] = ownership[b][i]
         /\ \A b \in DOMAIN ownership : \A i \in DOMAIN ownership[b] :
              \E j \in DOMAIN ownership'[b] : ownership'[b][j] = ownership[b][i]
         /\ \E j \in DOMAIN ownership'[Hash(g)] : Covers(ownership'[Hash(g)][j], g)
<1> DEFINE e == [global |-> g, count |-> count, owner |-> owner]
<1> DEFINE h == Hash(g)
<1>1. h \in 0..Buckets - 1
  BY MemoryAssumptions DEF Hash
<1>2. ownership \in [0..Buckets - 1 -> Seq(Entry)]
  BY DEF TypeOK, Entry
<1>3. ownership' = [ownership EXCEPT ![h] = <<e>> \o ownership[h]]
  BY DEF OwnershipRegister
<1>4. e \in Entry /\ Covers(e, g) /\ e.owner = owner
  BY DEF Entry, Covers
<1> HIDE DEF e, h
<1>5. PICK p \in Nat : /\ p = Len(ownership[h]) /\ ownership[h] \in Seq(Entry)
                       /\ DOMAIN ownership[h] = 1..p
  BY <1>1, <1>2, LenProperties
<1>6. <<e>> \in Seq(Entry) /\ Len(<<e>>) = 1 /\ <<e>>[1] = e
  BY <1>4
<1> DEFINE u == <<e>> \o ownership[h]
<1>7. /\ u \in Seq(Entry) /\ Len(u) = 1 + p
      /\ \A i \in 1..1 + p : u[i] = IF i <= 1 THEN <<e>>[i] ELSE ownership[h][i - 1]
  BY <1>5, <1>6, ConcatProperties
<1>8. DOMAIN u = 1..1 + p
  BY <1>7, LenProperties
<1> HIDE DEF u
<1>9. u[1] = e /\ 1 \in 1..1 + p
  BY <1>5, <1>6, <1>7
<1>10. /\ \A i \in 1..1 + p : i = 1 \/ (i - 1 \in 1..p /\ u[i] = ownership[h][i - 1])
       /\ \A i \in 1..p : i + 1 \in 1..1 + p /\ u[i + 1] = ownership[h][i]
  <2>1. ASSUME NEW i \in 1..1 + p, i # 1
        PROVE  i - 1 \in 1..p /\ u[i] = ownership[h][i - 1]
    <3>1. i - 1 \in 1..p /\ ~(i <= 1)
      BY <1>5, <2>1
    <3> QED
      BY <1>7, <3>1
  <2>2. ASSUME NEW i \in 1..p PROVE i + 1 \in 1..1 + p /\ u[i + 1] = ownership[h][i]
    <3>1. i + 1 \in 1..1 + p /\ ~(i + 1 <= 1) /\ (i + 1) - 1 = i
      BY <1>5
    <3> QED
      BY <1>7, <3>1
  <2> QED
    BY <2>1, <2>2
<1>11. /\ ownership' \in [0..Buckets - 1 -> Seq(Entry)] /\ ownership'[h] = u
       /\ \A b \in 0..Buckets - 1 : b # h => ownership'[b] = ownership[b]
  BY <1>1, <1>2, <1>3, <1>7 DEF u
<1>12. ASSUME NEW b \in DOMAIN ownership, NEW j \in DOMAIN ownership'[b]
       PROVE  \/ ownership'[b][j].owner = owner
              \/ \E i \in DOMAIN ownership[b] : ownership'[b][j] = ownership[b][i]
  <2>1. CASE b = h
    <3>1. j \in 1..1 + p /\ ownership'[b] = u /\ ownership[b] = ownership[h]
      BY <1>8, <1>11, <2>1
    <3>2. CASE j = 1
      BY <1>4, <1>9, <3>1, <3>2
    <3>3. CASE j # 1
      <4>1. j - 1 \in 1..p /\ u[j] = ownership[h][j - 1]
        BY <1>10, <3>1, <3>3
      <4> QED
        BY <1>5, <3>1, <4>1
    <3> QED
      BY <3>2, <3>3
  <2>2. CASE b # h
    BY <1>2, <1>11, <2>2
  <2> QED
    BY <2>1, <2>2
<1>13. ASSUME NEW b \in DOMAIN ownership, NEW i \in DOMAIN ownership[b]
       PROVE  \E j \in DOMAIN ownership'[b] : ownership'[b][j] = ownership[b][i]
  <2>1. CASE b = h
    <3>1. i \in 1..p /\ ownership'[b] = u /\ ownership[b] = ownership[h]
      BY <1>5, <1>11, <2>1
    <3>2. i + 1 \in DOMAIN u /\ u[i + 1] = ownership[h][i]
      BY <1>8, <1>10, <3>1
    <3> QED
      BY <3>1, <3>2
  <2>2. CASE b # h
    BY <1>2, <1>11, <2>2
  <2> QED
    BY <2>1, <2>2
<1>14. \E j \in DOMAIN ownership'[Hash(g)] : Covers(ownership'[Hash(g)][j], g)
  BY <1>4, <1>8, <1>9, <1>11 DEF h
<1> QED
  BY <1>2, <1>11, <1>12, <1>13, <1>14

\* A region is created, in dsm_mem_init or by a call of the application.
Created(n, l, count, owner, g, st) ==
  /\ RegionCreate(n, l, count, owner, g, st)
  /\ owner = id[n] <=> (n = Master \/ owner # 1)
  /\ IF n = Master THEN ownership' = OwnershipRegister(ownership, g, count, 1)
                   ELSE ownership' = ownership
  /\ \/ phase[n] = "start" /\ phase' = [phase EXCEPT ![n] = "up"] /\ held' = held
     \/ phase[n] = "up" /\ phase' = phase /\ held' = [held EXCEPT ![n] = held[n] \cup {l}]
  /\ next' \in [Nodes -> Nat] /\ calls' \in [Nodes -> Nat]
  /\ UNCHANGED <<id, want, waiting, netVars>>

Creates(n) == \E count \in Nat \ {0}, owner \in Nat, g \in Nat, st \in States :
                \E l \in Holes(n, count) : Created(n, l, count, owner, g, st)

LEMMA CreatesFacts ==
  ASSUME TypeOK, IdInv, NEW n \in Nodes,
         \/ MemInit(n)
         \/ \E count \in Sizes : \/ Malloc(n, count)
                                 \/ \E g \in Fixed : MallocAt(n, g, count) \/ MapRemote(n, g, count)
  PROVE  Creates(n)
<1>0. /\ next[n] \in Nat /\ id[n] \in Nat /\ next \in [Nodes -> Nat] /\ calls \in [Nodes -> Nat]
      /\ Chunks \in Nat \ {0} /\ Sizes \subseteq Nat \ {0} /\ Fixed \subseteq Nat
      /\ 1 \in Nat
  BY MemoryAssumptions DEF TypeOK
<1>1. /\ id[n] = id[n] <=> (n = Master \/ id[n] # 1)
      /\ n \in Workers => (1 = id[n] <=> (n = Master \/ 1 # 1))
      /\ n = Master => id[n] = 1
      /\ n \in Workers => n # Master
  BY MemoryAssumptions DEF IdInv, Nodes
<1>2. CASE MemInit(n)
  <2> DEFINE g == IF n = Master THEN next[n] ELSE next[n] + id[n] * Chunks
  <2>1. g \in Nat
    <3>1. id[n] * Chunks \in Nat
      BY <1>0
    <3> QED
      BY <1>0, <3>1
  <2>2. PICK l \in Holes(n, Chunks) : RegionCreate(n, l, Chunks, id[n], g, "MODIFIED")
    BY <1>2 DEF MemInit
  <2>3. /\ phase[n] = "start" /\ phase' = [phase EXCEPT ![n] = "up"]
        /\ next' = IF n = Master THEN [next EXCEPT ![n] = @ + Chunks] ELSE next
        /\ ownership' = IF n = Master THEN OwnershipRegister(ownership, g, Chunks, 1) ELSE ownership
        /\ UNCHANGED <<id, want, waiting, netVars, appVars>>
    BY <1>2 DEF MemInit
  <2> HIDE DEF g
  <2>4. next' \in [Nodes -> Nat] /\ calls' = calls /\ held' = held
    BY <1>0, <2>3 DEF appVars
  <2>5. Created(n, l, Chunks, id[n], g, "MODIFIED")
    BY <1>0, <1>1, <2>2, <2>3, <2>4 DEF Created
  <2> QED
    BY <1>0, <2>1, <2>5 DEF Creates, States
<1>3. ASSUME Call(n)
      PROVE  /\ phase[n] = "up" /\ phase' = phase /\ calls' \in [Nodes -> Nat]
             /\ UNCHANGED <<id, want, waiting, netVars>>
  <2>1. calls' = [calls EXCEPT ![n] = calls[n] + 1] /\ calls[n] + 1 \in Nat
    BY <1>0, <1>3 DEF Call
  <2>2. calls' \in [Nodes -> Nat]
    BY <1>0, <2>1
  <2> QED
    BY <1>3, <2>2 DEF Call
<1>4. ASSUME NEW count \in Sizes, Malloc(n, count) PROVE Creates(n)
  <2>1. count \in Nat \ {0} /\ Call(n)
    BY <1>0, <1>4 DEF Malloc
  <2>2. PICK l \in Holes(n, count) : /\ RegionCreate(n, l, count, id[n], next[n], "MODIFIED")
                                     /\ Returns(n, l)
    BY <1>4 DEF Malloc
  <2>3. /\ next' = [next EXCEPT ![n] = next[n] + count] /\ next[n] + count \in Nat
        /\ ownership' = IF n = Master THEN OwnershipRegister(ownership, next[n], count, id[n])
                                      ELSE ownership
    BY <1>0, <1>4, <2>1 DEF Malloc
  <2>4. next' \in [Nodes -> Nat]
    BY <1>0, <2>3
  <2>5. Created(n, l, count, id[n], next[n], "MODIFIED")
    BY <1>1, <1>3, <2>1, <2>2, <2>3, <2>4 DEF Created, Returns
  <2> QED
    BY <1>0, <2>1, <2>5 DEF Creates, States
<1>5. ASSUME NEW count \in Sizes, NEW g \in Fixed, MallocAt(n, g, count) PROVE Creates(n)
  <2>1. count \in Nat \ {0} /\ g \in Nat /\ Call(n)
    BY <1>0, <1>5 DEF MallocAt
  <2>2. PICK l \in Holes(n, count) : RegionCreate(n, l, count, id[n], g, "SHARED") /\ Returns(n, l)
    BY <1>5 DEF MallocAt
  <2>3. /\ next' = next
        /\ ownership' = IF n = Master THEN OwnershipRegister(ownership, g, count, id[n])
                                      ELSE ownership
    BY <1>5 DEF MallocAt
  <2>5. Created(n, l, count, id[n], g, "SHARED")
    BY <1>0, <1>1, <1>3, <2>1, <2>2, <2>3 DEF Created, Returns
  <2> QED
    BY <1>0, <2>1, <2>5 DEF Creates, States
<1>6. ASSUME NEW count \in Sizes, NEW g \in Fixed, MapRemote(n, g, count) PROVE Creates(n)
  <2>1. count \in Nat \ {0} /\ g \in Nat /\ Call(n) /\ n \in Workers
    BY <1>0, <1>6 DEF MapRemote
  <2>2. PICK l \in Holes(n, count) : RegionCreate(n, l, count, 1, g, "INVALID") /\ Returns(n, l)
    BY <1>6 DEF MapRemote
  <2>3. next' = next /\ ownership' = ownership
    BY <1>6 DEF MapRemote
  <2>5. Created(n, l, count, 1, g, "INVALID")
    BY <1>0, <1>1, <1>3, <2>1, <2>2, <2>3 DEF Created, Returns
  <2> QED
    BY <1>0, <2>1, <2>5 DEF Creates, States
<1> QED
  BY <1>2, <1>4, <1>5, <1>6

\* dsm_free translates the address with a region that contains it, and destroys a
\* region that covers the result.
FreeFinds(n, l, i, j) ==
  /\ i \in DOMAIN regions[n] /\ Contains(regions[n][i], l)
  /\ j \in DOMAIN regions[n]
  /\ Covers(regions[n][j], regions[n][i].global + (l - regions[n][i].base))

LEMMA FreeFacts ==
  ASSUME TypeOK, NEW n \in Nodes, NEW l \in LocalPages, Free(n, l)
  PROVE  /\ phase[n] = "up" /\ l \in held[n] /\ held' = [held EXCEPT ![n] = held[n] \ {l}]
         /\ UNCHANGED <<nodeVars, want, waiting, netVars, calls>>
         /\ \/ /\ UNCHANGED spaceVars
               /\ \A i \in DOMAIN regions[n] : ~Contains(regions[n][i], l)
            \/ \E i, j \in DOMAIN regions[n] : FreeFinds(n, l, i, j) /\ RegionDestroy(n, j)
<1>1. /\ phase[n] = "up" /\ l \in held[n] /\ held' = [held EXCEPT ![n] = held[n] \ {l}]
      /\ UNCHANGED <<nodeVars, want, waiting, netVars, calls>>
  BY DEF Free
<1> DEFINE S == {j \in DOMAIN regions[n] : Contains(regions[n][j], l)}
<1> DEFINE i == FirstOr0(S)
<1>2. DOMAIN regions[n] \subseteq Nat /\ 0 \notin DOMAIN regions[n]
  BY ListFacts
<1>3. S \in SUBSET Nat /\ 0 \notin S
  BY <1>2
<1> HIDE DEF S
<1>4. (S # {} => i \in S) /\ (i = 0 <=> S = {})
  BY <1>3, SearchFacts
<1> HIDE DEF i
<1>5. CASE i = 0
  <2>1. LocalToGlobal(n, l) = None
    BY <1>5 DEF LocalToGlobal, i, S
  <2>2. UNCHANGED spaceVars
    BY <2>1 DEF Free
  <2> QED
    BY <1>1, <1>4, <1>5, <2>2 DEF S
<1>6. CASE i # 0
  <2> DEFINE g == regions[n][i].global + (l - regions[n][i].base)
  <2>1. i \in DOMAIN regions[n] /\ Contains(regions[n][i], l)
    BY <1>4, <1>6 DEF S
  <2>2. LocalToGlobal(n, l) = g
    BY <1>6 DEF LocalToGlobal, i, S
  <2>3. regions[n][i] \in Region /\ l \in Nat
    BY <2>1, ListFacts, MemoryAssumptions
  <2>4. g \in Nat /\ Covers(regions[n][i], g)
    <3>1. PICK a \in Nat, b \in Nat, c \in Nat \ {0} :
            a = regions[n][i].global /\ b = regions[n][i].base /\ c = regions[n][i].count
      BY <2>3, ContainsFacts
    <3>2. l >= b /\ l < b + c
      BY <2>1, <3>1 DEF Contains
    <3>3. a + (l - b) \in Nat /\ a + (l - b) >= a /\ a + (l - b) < a + c
      BY <2>3, <3>2
    <3> QED
      BY <3>1, <3>3 DEF Covers
  <2> HIDE DEF g
  <2>5. g # None
    BY <2>4 DEF None
  <2>6. RegionDestroy(n, RegionFind(n, g))
    BY <2>2, <2>5 DEF Free
  <2> DEFINE T == {j \in DOMAIN regions[n] : Covers(regions[n][j], g)}
  <2>7. T \in SUBSET Nat /\ 0 \notin T /\ T # {}
    BY <1>2, <2>1, <2>4
  <2> HIDE DEF T
  <2>8. FirstOr0(T) \in T
    BY <2>7, SearchFacts
  <2>9. RegionFind(n, g) \in DOMAIN regions[n] /\ Covers(regions[n][RegionFind(n, g)], g)
    BY <2>8 DEF RegionFind, T
  <2>10. FreeFinds(n, l, i, RegionFind(n, g))
    BY <2>1, <2>9 DEF FreeFinds, g
  <2> QED
    BY <1>1, <2>1, <2>6, <2>9, <2>10
<1> QED
  BY <1>5, <1>6

\* A fault is on a page of a region, and its entry is found.
LEMMA FaultFacts ==
  ASSUME TypeOK, NEW n \in Nodes, SpaceInv(n), Faulting(n)
  PROVE  /\ want[n] \in LocalPages /\ FaultEntry(n) \in DOMAIN pages[n]
         /\ pages[n][FaultEntry(n)].local = want[n]
<1>1. want[n] \in LocalPages /\ prot[n][want[n]] # "UNMAPPED"
  BY DEF Faulting, TypeOK
<1>2. PICK i \in DOMAIN regions[n] : Contains(regions[n][i], want[n])
  BY <1>1 DEF SpaceInv
<1>3. Registered(n, regions[n][i], want[n])
  BY <1>1, <1>2, SpaceFacts, MemoryAssumptions
<1> DEFINE S == {k \in DOMAIN pages[n] : pages[n][k].local = want[n]}
<1>4. S \in SUBSET Nat /\ 0 \notin S /\ S # {}
  BY <1>3, ListFacts DEF Registered
<1> HIDE DEF S
<1>5. FirstOr0(S) \in S
  BY <1>4, SearchFacts
<1> QED
  BY <1>1, <1>5 DEF FaultEntry, PageLookupLocal, S

\* A page is searched by its global address.
LEMMA LookupFacts ==
  ASSUME TypeOK, NEW n \in Nodes, NEW g
  PROVE  PageLookup(n, g) # 0 =>
           PageLookup(n, g) \in DOMAIN pages[n] /\ pages[n][PageLookup(n, g)].global = g
<1> DEFINE S == {k \in DOMAIN pages[n] : pages[n][k].global = g}
<1>1. S \in SUBSET Nat /\ 0 \notin S
  BY ListFacts
<1> HIDE DEF S
<1>2. (S # {} => FirstOr0(S) \in S) /\ (FirstOr0(S) = 0 <=> S = {})
  BY <1>1, SearchFacts
<1> QED
  BY <1>2 DEF PageLookup, S

-----------------------------------------------------------------------------
(* Steps that leave the regions as they are *)

\* Lists keep their entries and mappings stay; the master may be killed.
Quiet ==
  /\ regions' = regions /\ ownership' = ownership /\ held' = held
  /\ \A d \in Nodes : /\ TableKept(d) /\ DOMAIN pages'[d] = DOMAIN pages[d]
                      /\ \A l \in LocalPages :
                           prot'[d][l] = "UNMAPPED" <=> prot[d][l] = "UNMAPPED"
                      /\ phase'[d] = phase[d] \/ (phase[d] = "up" /\ phase'[d] = "killed")

\* Nothing at all happens to the address spaces.
LEMMA StillQuiet ==
  ASSUME UNCHANGED <<phase, ownership, spaceVars, held>>
  PROVE  Quiet
<1>1. \A d \in Nodes : pages'[d] = pages[d] /\ prot'[d] = prot[d] /\ phase'[d] = phase[d]
  BY DEF spaceVars
<1> QED
  BY <1>1, SameTableKept DEF Quiet, spaceVars

LEMMA JoinQuiet ==
  ASSUME TypeOK, IdInv, NEW w \in Workers, JoinResponse(w)
  PROVE  TypeOK' /\ IdInv' /\ Quiet
<1>1. w \in Nodes /\ w # Master /\ IdOf[w] \in Nat /\ Master \in Nodes /\ Workers \subseteq Nodes
  BY MemoryAssumptions DEF Nodes
<1>2. id \in [Nodes -> Nat] /\ id' = [id EXCEPT ![w] = IdOf[w]]
  BY DEF TypeOK, JoinResponse
<1>3. id' \in [Nodes -> Nat] /\ id'[Master] = id[Master]
      /\ \A v \in Workers : id'[v] = IF v = w THEN IdOf[w] ELSE id[v]
  BY <1>1, <1>2
<1>4. TypeOK'
  BY <1>3 DEF TypeOK, JoinResponse, spaceVars, netVars, appVars
<1>5. IdInv'
  BY <1>3 DEF IdInv
<1>6. Quiet
  BY StillQuiet DEF JoinResponse, spaceVars, appVars
<1> QED
  BY <1>4, <1>5, <1>6

LEMMA ReadQuiet ==
  ASSUME TypeOK, IdInv, NEW n \in Nodes, Complete(n) \/ \E l \in LocalPages : Access(n, l)
  PROVE  TypeOK' /\ IdInv' /\ Quiet
<1>1. PICK l \in LocalPages \cup {None} : want' = [want EXCEPT ![n] = l]
  BY DEF Complete, Access
<1>2. UNCHANGED <<nodeVars, spaceVars, waiting, netVars, appVars>>
  BY DEF Complete, Access
<1>3. want' \in [Nodes -> LocalPages \cup {None}]
  BY <1>1 DEF TypeOK
<1>4. TypeOK'
  BY <1>2, <1>3 DEF TypeOK, nodeVars, spaceVars, netVars, appVars
<1>5. Quiet
  BY <1>2, StillQuiet DEF nodeVars, spaceVars, appVars
<1> QED
  BY <1>2, <1>4, <1>5 DEF IdInv, nodeVars

LEMMA FaultOwnQuiet ==
  ASSUME TypeOK, IdInv, NEW n \in Nodes, SpaceInv(n), FaultOwn(n)
  PROVE  TypeOK' /\ IdInv' /\ Quiet
<1>1. PICK k \in DOMAIN pages[n] : k = FaultEntry(n)
  BY FaultFacts DEF FaultOwn
<1>2. PICK l \in LocalPages : l = want[n] /\ prot[n][l] = "NONE"
  BY FaultFacts DEF FaultOwn, Faulting
<1>3. /\ pages' = [pages EXCEPT ![n][k].state = "MODIFIED"]
      /\ prot' = [prot EXCEPT ![n][l] = "RW"]
      /\ UNCHANGED <<nodeVars, regions, bytes, want, waiting, netVars, appVars>>
  BY <1>1, <1>2 DEF FaultOwn
<1>4. pages' \in [Nodes -> Seq(Page)] /\ \A d \in Nodes : TableKept(d) /\ DOMAIN pages'[d] = DOMAIN pages[d]
  BY <1>3, StateFacts DEF States
<1>5. /\ prot' \in [Nodes -> [LocalPages -> {"UNMAPPED", "NONE", "READ", "RW"}]]
      /\ \A d \in Nodes : \A m \in LocalPages : prot'[d][m] = "UNMAPPED" <=> prot[d][m] = "UNMAPPED"
  BY <1>2, <1>3 DEF TypeOK
<1>6. TypeOK'
  BY <1>3, <1>4, <1>5 DEF TypeOK, nodeVars, netVars, appVars
<1> QED
  BY <1>3, <1>4, <1>5, <1>6 DEF IdInv, nodeVars, appVars, Quiet

\* A PAGE_REQUEST: an address and the id of the sender.
Requests == [global : Nat, src : Nat]

LEMMA RequestFacts ==
  ASSUME TypeOK, NEW n \in Nodes, NEW k \in DOMAIN pages[n]
  PROVE  [global |-> pages[n][k].global, src |-> id[n]] \in Requests
<1>1. pages[n][k].global \in Nat
  BY ListFacts DEF Page
<1>2. id[n] \in Nat
  BY DEF TypeOK
<1> QED
  BY <1>1, <1>2 DEF Requests

LEMMA FaultFetchQuiet ==
  ASSUME TypeOK, IdInv, NEW n \in Workers, SpaceInv(n), FaultFetch(n)
  PROVE  TypeOK' /\ IdInv' /\ Quiet
<1>0. n \in Nodes
  BY DEF Nodes
<1>1. PICK k \in DOMAIN pages[n] : k = FaultEntry(n)
  BY <1>0, FaultFacts DEF FaultFetch
<1>2. PICK q \in Requests : q = [global |-> pages[n][k].global, src |-> id[n]]
  BY <1>0, <1>1, RequestFacts
<1>3. /\ pages' = [pages EXCEPT ![n][k].state = "PENDING"]
      /\ waiting' = [waiting EXCEPT ![n] = k]
      /\ toMaster' = [toMaster EXCEPT ![n] = Append(toMaster[n], q)]
      /\ UNCHANGED <<nodeVars, regions, prot, bytes, want, toWorker, appVars>>
  BY <1>1, <1>2 DEF FaultFetch
<1>4. pages' \in [Nodes -> Seq(Page)] /\ \A d \in Nodes : TableKept(d) /\ DOMAIN pages'[d] = DOMAIN pages[d]
  BY <1>0, <1>3, StateFacts DEF States
<1>5. toMaster' \in [Workers -> Seq(Requests)]
  <2>1. toMaster \in [Workers -> Seq(Requests)]
    BY DEF TypeOK, Requests
  <2>2. Append(toMaster[n], q) \in Seq(Requests)
    BY <2>1, AppendProperties
  <2> QED
    BY <1>3, <2>1, <2>2
<1>6. /\ waiting' \in [Nodes -> Nat]
      /\ \A d \in Nodes : waiting'[d] \in {0} \cup DOMAIN pages'[d]
  <2>1. k \in Nat
    BY <1>0, ListFacts
  <2> QED
    BY <1>0, <1>3, <1>4, <2>1 DEF TypeOK
<1>7. TypeOK'
  BY <1>3, <1>4, <1>5, <1>6 DEF TypeOK, nodeVars, appVars, Requests
<1> QED
  BY <1>3, <1>4, <1>7 DEF IdInv, nodeVars, appVars, Quiet

LEMMA FaultTimeoutQuiet ==
  ASSUME TypeOK, IdInv, NEW n \in Nodes, FaultTimeout(n)
  PROVE  TypeOK' /\ IdInv' /\ Quiet
<1>1. PICK k \in DOMAIN pages[n] : k = waiting[n]
  BY DEF FaultTimeout, TypeOK
<1>2. /\ pages' = [pages EXCEPT ![n][k].state = "INVALID"]
      /\ waiting' = [waiting EXCEPT ![n] = 0]
      /\ UNCHANGED <<nodeVars, regions, prot, bytes, want, netVars, appVars>>
  BY <1>1 DEF FaultTimeout
<1>3. pages' \in [Nodes -> Seq(Page)] /\ \A d \in Nodes : TableKept(d) /\ DOMAIN pages'[d] = DOMAIN pages[d]
  BY <1>2, StateFacts DEF States
<1>4. /\ waiting' \in [Nodes -> Nat]
      /\ \A d \in Nodes : waiting'[d] \in {0} \cup DOMAIN pages'[d]
  BY <1>2, <1>3 DEF TypeOK
<1>5. TypeOK'
  BY <1>2, <1>3, <1>4 DEF TypeOK, nodeVars, netVars, appVars
<1> QED
  BY <1>2, <1>3, <1>5 DEF IdInv, nodeVars, appVars, Quiet

\* A message leaves its queue.
LEMMA TailFacts ==
  ASSUME NEW T, NEW s \in Seq(T), s # <<>>
  PROVE  /\ Head(s) \in T /\ Tail(s) \in Seq(T) /\ 1 \in DOMAIN s /\ Head(s) = s[1]
         /\ \A i \in DOMAIN Tail(s) : i + 1 \in DOMAIN s /\ Tail(s)[i] = s[i + 1]
<1>1. PICK p \in Nat : p = Len(s) /\ DOMAIN s = 1..p /\ p # 0
  BY LenProperties, EmptySeq
<1>2. /\ Head(s) \in T /\ Tail(s) \in Seq(T) /\ Len(Tail(s)) = p - 1
      /\ \A i \in 1..p - 1 : Tail(s)[i] = s[i + 1]
  BY <1>1, HeadTailProperties
<1>3. DOMAIN Tail(s) = 1..p - 1
  BY <1>2, LenProperties
<1>4. \A i \in 1..p - 1 : i + 1 \in 1..p
  BY <1>1
<1>5. Head(s) = s[1] /\ 1 \in 1..p
  BY <1>1
<1> QED
  BY <1>1, <1>2, <1>3, <1>4, <1>5

\* dsm_page_send found an entry, and sends the page behind it.
Sends(w, g, i) ==
  /\ phase[Master] = "up" /\ i \in DOMAIN pages[Master] /\ pages[Master][i].global = g
  /\ prot[Master][pages[Master][i].local] # "UNMAPPED"
  /\ toWorker' = [toWorker EXCEPT ![w] =
        Append(toWorker[w], [global |-> g, data |-> bytes[Master][pages[Master][i].local]])]
  /\ phase' = phase

LEMMA PageSendFacts ==
  ASSUME TypeOK, NEW w \in Workers, PageSend(w)
  PROVE  /\ toMaster' = [toMaster EXCEPT ![w] = Tail(toMaster[w])]
         /\ UNCHANGED <<id, next, ownership, spaceVars, want, waiting, appVars>>
         /\ \/ /\ toWorker' = toWorker
               /\ phase' = phase \/ (phase[Master] = "up" /\ phase' = [phase EXCEPT ![Master] = "killed"])
            \/ \E i \in DOMAIN pages[Master] : Sends(w, Head(toMaster[w]).global, i)
<1>1. PICK g : g = Head(toMaster[w]).global
  OBVIOUS
<1>2. PICK i : i = PageLookup(Master, g)
  OBVIOUS
<1>3. Master \in Nodes
  BY DEF Nodes
<1>4. i # 0 => i \in DOMAIN pages[Master] /\ pages[Master][i].global = g
  BY <1>2, <1>3, LookupFacts
<1>5. /\ toMaster' = [toMaster EXCEPT ![w] = Tail(toMaster[w])]
      /\ UNCHANGED <<id, next, ownership, spaceVars, want, waiting, appVars>>
  BY DEF PageSend
<1>6. \/ toWorker' = toWorker /\ phase' = phase
      \/ /\ phase[Master] = "up" /\ i # 0
         /\ IF prot[Master][pages[Master][i].local] = "UNMAPPED"
            THEN phase' = [phase EXCEPT ![Master] = "killed"] /\ toWorker' = toWorker
            ELSE /\ \/ toWorker' = toWorker
                    \/ toWorker' = [toWorker EXCEPT ![w] =
                         Append(toWorker[w], [global |-> g, data |-> bytes[Master][pages[Master][i].local]])]
                 /\ phase' = phase
  BY <1>1, <1>2 DEF PageSend
<1>7. CASE toWorker' = toWorker /\ phase' = phase
  BY <1>5, <1>7
<1>8. CASE phase[Master] = "up" /\ i # 0 /\ prot[Master][pages[Master][i].local] = "UNMAPPED"
  BY <1>5, <1>6, <1>8
<1>9. CASE phase[Master] = "up" /\ i # 0 /\ prot[Master][pages[Master][i].local] # "UNMAPPED"
  <2>1. (toWorker' = toWorker /\ phase' = phase) \/ Sends(w, g, i)
    BY <1>4, <1>6, <1>9 DEF Sends
  <2> QED
    BY <1>1, <1>4, <1>5, <1>9, <2>1
<1> QED
  BY <1>6, <1>7, <1>8, <1>9

LEMMA PageSendQuiet ==
  ASSUME TypeOK, IdInv, NEW w \in Workers, PageSend(w)
  PROVE  TypeOK' /\ IdInv' /\ Quiet
<1>0. Master \in Nodes
  BY DEF Nodes
<1>1. /\ toMaster' = [toMaster EXCEPT ![w] = Tail(toMaster[w])]
      /\ UNCHANGED <<id, next, ownership, spaceVars, want, waiting, appVars>>
      /\ \/ /\ toWorker' = toWorker
            /\ phase' = phase \/ (phase[Master] = "up" /\ phase' = [phase EXCEPT ![Master] = "killed"])
         \/ \E i \in DOMAIN pages[Master] : Sends(w, Head(toMaster[w]).global, i)
  BY PageSendFacts
<1>2. toMaster[w] \in Seq(Requests) /\ toMaster[w] # <<>>
  BY DEF TypeOK, PageSend, Requests
<1>3. Tail(toMaster[w]) \in Seq(Requests) /\ Head(toMaster[w]) \in Requests
  BY <1>2, TailFacts
<1>4. toMaster' \in [Workers -> Seq(Requests)]
  BY <1>1, <1>3 DEF TypeOK, Requests
<1>5. toWorker' \in [Workers -> Seq([global : Nat, data : Bytes])]
  <2>1. ASSUME NEW i \in DOMAIN pages[Master], Sends(w, Head(toMaster[w]).global, i)
        PROVE  toWorker' \in [Workers -> Seq([global : Nat, data : Bytes])]
    <3> DEFINE m == [global |-> Head(toMaster[w]).global, data |-> bytes[Master][pages[Master][i].local]]
    <3>1. pages[Master][i].local \in LocalPages
      BY <1>0, ListFacts DEF Page
    <3>2. m \in [global : Nat, data : Bytes]
      BY <1>0, <1>3, <3>1 DEF TypeOK, Requests
    <3>3. toWorker' = [toWorker EXCEPT ![w] = Append(toWorker[w], m)]
      BY <2>1 DEF Sends
    <3> HIDE DEF m
    <3>4. toWorker[w] \in Seq([global : Nat, data : Bytes])
      BY DEF TypeOK
    <3>5. Append(toWorker[w], m) \in Seq([global : Nat, data : Bytes])
      BY <3>2, <3>4, AppendProperties
    <3> QED
      BY <3>3, <3>5 DEF TypeOK
  <2> QED
    BY <1>1, <2>1 DEF TypeOK
<1>6. /\ phase' \in [Nodes -> {"start", "up", "gone", "killed"}]
      /\ \A d \in Nodes : phase'[d] = phase[d] \/ (phase[d] = "up" /\ phase'[d] = "killed")
  BY <1>0, <1>1 DEF TypeOK, Sends
<1>7. TypeOK'
  BY <1>1, <1>4, <1>5, <1>6 DEF TypeOK, spaceVars, appVars, Requests
<1>8. \A d \in Nodes : pages'[d] = pages[d] /\ prot'[d] = prot[d]
  BY <1>1 DEF spaceVars
<1>9. Quiet
  BY <1>1, <1>6, <1>8, SameTableKept DEF Quiet, spaceVars, appVars
<1> QED
  BY <1>1, <1>7, <1>9 DEF IdInv

\* dsm_page_install found the entry of a mapped page, and fills it.
Installs(w, msg, i) ==
  /\ i \in DOMAIN pages[w] /\ pages[w][i].global = msg.global
  /\ prot[w][pages[w][i].local] # "UNMAPPED"
  /\ pages' = [pages EXCEPT ![w][i].state = "SHARED"]
  /\ prot' = [prot EXCEPT ![w][pages[w][i].local] = "READ"]
  /\ bytes' = [bytes EXCEPT ![w][pages[w][i].local] = msg.data]
  /\ waiting' = [waiting EXCEPT ![w] = IF waiting[w] = i THEN 0 ELSE waiting[w]]

LEMMA PageInstallFacts ==
  ASSUME TypeOK, NEW w \in Workers, PageInstall(w)
  PROVE  /\ toWorker' = [toWorker EXCEPT ![w] = Tail(toWorker[w])]
         /\ UNCHANGED <<nodeVars, regions, want, toMaster, appVars>>
         /\ \/ UNCHANGED <<pages, prot, bytes, waiting>>
            \/ \E i \in DOMAIN pages[w] : Installs(w, Head(toWorker[w]), i)
<1>1. PICK msg : msg = Head(toWorker[w])
  OBVIOUS
<1>2. PICK i : i = PageLookup(w, msg.global)
  OBVIOUS
<1>3. w \in Nodes
  BY DEF Nodes
<1>4. i # 0 => i \in DOMAIN pages[w] /\ pages[w][i].global = msg.global
  BY <1>2, <1>3, LookupFacts
<1>5. /\ toWorker' = [toWorker EXCEPT ![w] = Tail(toWorker[w])]
      /\ UNCHANGED <<nodeVars, regions, want, toMaster, appVars>>
  BY DEF PageInstall
<1>6. CASE i = 0 \/ prot[w][pages[w][i].local] = "UNMAPPED"
  BY <1>1, <1>2, <1>5, <1>6 DEF PageInstall
<1>7. CASE ~(i = 0 \/ prot[w][pages[w][i].local] = "UNMAPPED")
  <2>1. Installs(w, msg, i)
    BY <1>1, <1>2, <1>4, <1>7 DEF PageInstall, Installs
  <2> QED
    BY <1>1, <1>4, <1>5, <1>7, <2>1
<1> QED
  BY <1>6, <1>7

LEMMA PageInstallQuiet ==
  ASSUME TypeOK, IdInv, NEW w \in Workers, PageInstall(w)
  PROVE  TypeOK' /\ IdInv' /\ Quiet
<1>0. w \in Nodes
  BY DEF Nodes
<1>1. /\ toWorker' = [toWorker EXCEPT ![w] = Tail(toWorker[w])]
      /\ UNCHANGED <<nodeVars, regions, want, toMaster, appVars>>
      /\ \/ UNCHANGED <<pages, prot, bytes, waiting>>
         \/ \E i \in DOMAIN pages[w] : Installs(w, Head(toWorker[w]), i)
  BY PageInstallFacts
<1>2. toWorker[w] \in Seq([global : Nat, data : Bytes]) /\ toWorker[w] # <<>>
  BY DEF TypeOK, PageInstall
<1>3. Tail(toWorker[w]) \in Seq([global : Nat, data : Bytes]) /\ Head(toWorker[w]) \in [global : Nat, data : Bytes]
  BY <1>2, TailFacts
<1>4. toWorker' \in [Workers -> Seq([global : Nat, data : Bytes])]
  BY <1>1, <1>3 DEF TypeOK
<1>5. CASE UNCHANGED <<pages, prot, bytes, waiting>>
  <2>1. TypeOK'
    BY <1>1, <1>4, <1>5 DEF TypeOK, nodeVars, appVars
  <2>2. Quiet
    BY <1>1, <1>5, StillQuiet DEF nodeVars, appVars, spaceVars
  <2> QED
    BY <1>1, <2>1, <2>2 DEF IdInv, nodeVars
<1>6. ASSUME NEW i \in DOMAIN pages[w], Installs(w, Head(toWorker[w]), i) PROVE TypeOK' /\ IdInv' /\ Quiet
  <2>1. PICK l \in LocalPages, data \in Bytes : l = pages[w][i].local /\ data = Head(toWorker[w]).data
    BY <1>0, <1>3, ListFacts DEF Page
  <2>2. /\ pages' = [pages EXCEPT ![w][i].state = "SHARED"]
        /\ prot[w][l] # "UNMAPPED" /\ prot' = [prot EXCEPT ![w][l] = "READ"]
        /\ bytes' = [bytes EXCEPT ![w][l] = data]
        /\ waiting' = [waiting EXCEPT ![w] = IF waiting[w] = i THEN 0 ELSE waiting[w]]
    BY <1>6, <2>1 DEF Installs
  <2>3. pages' \in [Nodes -> Seq(Page)] /\ \A d \in Nodes : TableKept(d) /\ DOMAIN pages'[d] = DOMAIN pages[d]
    BY <1>0, <2>2, StateFacts DEF States
  <2>4. /\ prot' \in [Nodes -> [LocalPages -> {"UNMAPPED", "NONE", "READ", "RW"}]]
        /\ \A d \in Nodes : \A m \in LocalPages : prot'[d][m] = "UNMAPPED" <=> prot[d][m] = "UNMAPPED"
    BY <1>0, <2>2 DEF TypeOK
  <2>5. bytes' \in [Nodes -> [LocalPages -> Bytes]]
    BY <1>0, <2>2 DEF TypeOK
  <2>6. /\ waiting' \in [Nodes -> Nat]
        /\ \A d \in Nodes : waiting'[d] \in {0} \cup DOMAIN pages'[d]
    BY <1>0, <2>2, <2>3 DEF TypeOK
  <2>7. TypeOK'
    BY <1>1, <1>4, <2>3, <2>4, <2>5, <2>6 DEF TypeOK, nodeVars, appVars
  <2> QED
    BY <1>1, <2>3, <2>4, <2>7 DEF IdInv, nodeVars, appVars, Quiet
<1> QED
  BY <1>1, <1>5, <1>6

-----------------------------------------------------------------------------
(* Address spaces, page tables and what the application holds *)

Bases(n) == {regions[n][i].base : i \in 2..Len(regions[n])}

\* FreesWhatItIsGiven for one node.
Freed(n) == Distinct(n) => Bases(n) = held[n]

NodeInv(n) == SpaceInv(n) /\ PhaseInv(n) /\ Freed(n)

SpacesInv == TypeOK /\ IdInv /\ OwnerInv /\ \A n \in Nodes : NodeInv(n)

\* A node that a step does not touch.
LEMMA OtherNode ==
  ASSUME NEW d \in Nodes, NodeInv(d), regions'[d] = regions[d], pages'[d] = pages[d],
         prot'[d] = prot[d], phase'[d] = phase[d], held'[d] = held[d]
  PROVE  NodeInv(d)'
<1>1. SpaceInv(d)'
  BY SameTableKept, SpaceFrame DEF NodeInv
<1>2. Distinct(d)' <=> Distinct(d)
  BY DEF Distinct
<1>3. PhaseInv(d)'
  BY <1>2 DEF NodeInv, PhaseInv
<1>4. Freed(d)'
  BY <1>2 DEF NodeInv, Freed, Bases
<1> QED
  BY <1>1, <1>3, <1>4 DEF NodeInv

LEMMA QuietSpaces ==
  ASSUME SpacesInv, TypeOK', IdInv', Quiet
  PROVE  SpacesInv'
<1>1. OwnerInv'
  BY DEF SpacesInv, OwnerInv, Quiet
<1>2. ASSUME NEW d \in Nodes PROVE NodeInv(d)'
  <2>1. /\ NodeInv(d) /\ TableKept(d) /\ DOMAIN pages'[d] = DOMAIN pages[d]
        /\ regions'[d] = regions[d] /\ held'[d] = held[d]
        /\ \A l \in LocalPages : prot'[d][l] = "UNMAPPED" <=> prot[d][l] = "UNMAPPED"
        /\ phase'[d] = phase[d] \/ (phase[d] = "up" /\ phase'[d] = "killed")
    BY DEF SpacesInv, Quiet
  <2>2. SpaceInv(d)'
    BY <2>1, SpaceFrame DEF NodeInv
  <2>3. Distinct(d)' => Distinct(d)
    BY <2>1, KeptFacts
  <2>4. pages[d] = <<>> => pages'[d] = <<>>
    <3>1. pages'[d] \in Seq(Page)
      BY DEF TypeOK
    <3>2. DOMAIN pages'[d] = 1..Len(pages'[d]) /\ Len(pages'[d]) \in Nat
      BY <3>1, LenProperties
    <3>3. ASSUME pages[d] = <<>> PROVE Len(pages'[d]) = 0
      <4>1. DOMAIN pages[d] = {}
        BY <3>3
      <4>2. 1..Len(pages'[d]) = {}
        BY <2>1, <3>2, <4>1
      <4>3. PICK q \in Nat : q = Len(pages'[d])
        BY <3>2
      <4>4. 1 \notin 1..q
        BY <4>2, <4>3
      <4> QED
        BY <4>3, <4>4
    <3> QED
      BY <3>1, <3>3, EmptySeq
  <2>5. PhaseInv(d)'
    BY <2>1, <2>3, <2>4 DEF NodeInv, PhaseInv
  <2>6. Freed(d)'
    BY <2>1, <2>3 DEF NodeInv, Freed, Bases
  <2> QED
    BY <2>2, <2>5, <2>6 DEF NodeInv
<1> QED
  BY <1>1, <1>2 DEF SpacesInv

\* A node is given another region.
LEMMA CreatedSpaces ==
  ASSUME SpacesInv, NEW n \in Nodes, NEW count \in Nat \ {0}, NEW owner \in Nat, NEW g \in Nat,
         NEW st \in States, NEW l \in Holes(n, count), Created(n, l, count, owner, g, st)
  PROVE  SpacesInv'
<1>1. TypeOK /\ IdInv /\ OwnerInv /\ NodeInv(n) /\ RegionCreate(n, l, count, owner, g, st)
  BY DEF SpacesInv, Created
<1>2. PICK L \in Nat : L = Len(regions[n]) /\ DOMAIN regions[n] = 1..L
  BY <1>1, ListFacts
<1>3. /\ regions' \in [Nodes -> Seq(Region)]
      /\ \A d \in Nodes \ {n} : regions'[d] = regions[d]
      /\ DOMAIN regions'[n] = 1..L + 1 /\ Len(regions'[n]) = L + 1
      /\ regions'[n][L + 1] = NewRegion(l, count, owner, g)
      /\ \A i \in 1..L : regions'[n][i] = regions[n][i]
  BY <1>1, <1>2, CreateRegions
<1>4. /\ pages' \in [Nodes -> Seq(Page)] /\ \A d \in Nodes \ {n} : pages'[d] = pages[d]
      /\ \A d \in Nodes : TableKept(d)
  BY <1>1, CreatePages
<1>5. /\ prot' \in [Nodes -> [LocalPages -> {"UNMAPPED", "NONE", "READ", "RW"}]]
      /\ bytes' \in [Nodes -> [LocalPages -> Bytes]]
      /\ \A d \in Nodes \ {n} : prot'[d] = prot[d]
  BY <1>1, CreateSpace
<1>6. /\ \/ phase[n] = "start" /\ phase' = [phase EXCEPT ![n] = "up"] /\ held' = held
         \/ phase[n] = "up" /\ phase' = phase /\ held' = [held EXCEPT ![n] = held[n] \cup {l}]
      /\ next' \in [Nodes -> Nat] /\ calls' \in [Nodes -> Nat]
      /\ UNCHANGED <<id, want, waiting, toMaster, toWorker>>
  BY DEF Created, netVars
<1>7. l \in LocalPages
  BY HoleFacts
<1>8. /\ phase' \in [Nodes -> {"start", "up", "gone", "killed"}] /\ held' \in [Nodes -> SUBSET LocalPages]
      /\ phase'[n] = "up" /\ \A d \in Nodes \ {n} : phase'[d] = phase[d] /\ held'[d] = held[d]
  <2>1. phase \in [Nodes -> {"start", "up", "gone", "killed"}] /\ held \in [Nodes -> SUBSET LocalPages]
    BY <1>1 DEF TypeOK
  <2>2. CASE phase[n] = "start" /\ phase' = [phase EXCEPT ![n] = "up"] /\ held' = held
    BY <2>1, <2>2
  <2>3. CASE phase[n] = "up" /\ phase' = phase /\ held' = [held EXCEPT ![n] = held[n] \cup {l}]
    <3>1. held[n] \cup {l} \in SUBSET LocalPages
      BY <1>7, <2>1
    <3> QED
      BY <2>1, <2>3, <3>1
  <2> QED
    BY <1>6, <2>2, <2>3
<1>9. IF n = Master THEN ownership' = OwnershipRegister(ownership, g, count, 1)
                    ELSE ownership' = ownership
  BY DEF Created
<1>10. ownership' \in [0..Buckets - 1 -> Seq(Entry)]
  <2>1. CASE n = Master
    BY <1>1, <1>9, <2>1, RegisterFacts
  <2>2. CASE n # Master
    BY <1>1, <1>9, <2>2 DEF TypeOK, Entry
  <2> QED
    BY <2>1, <2>2
<1>11. \A d \in Nodes : waiting'[d] \in {0} \cup DOMAIN pages'[d]
  BY <1>1, <1>4, <1>6 DEF TypeOK, TableKept
<1>12. TypeOK'
  BY <1>1, <1>3, <1>4, <1>5, <1>6, <1>8, <1>10, <1>11 DEF TypeOK, Entry
<1>13. IdInv'
  BY <1>1, <1>6 DEF IdInv
<1>14. OwnerInv'
  <2>1. CASE n = Master
    <3>1. /\ DOMAIN ownership' = DOMAIN ownership
          /\ \A b \in DOMAIN ownership : \A j \in DOMAIN ownership'[b] :
               \/ ownership'[b][j].owner = 1
               \/ \E i \in DOMAIN ownership[b] : ownership'[b][j] = ownership[b][i]
          /\ \A b \in DOMAIN ownership : \A i \in DOMAIN ownership[b] :
               \E j \in DOMAIN ownership'[b] : ownership'[b][j] = ownership[b][i]
          /\ \E j \in DOMAIN ownership'[Hash(g)] : Covers(ownership'[Hash(g)][j], g)
      BY <1>1, <1>9, <2>1, RegisterFacts
    <3>2. \A b \in DOMAIN ownership' : \A j \in DOMAIN ownership'[b] : ownership'[b][j].owner = 1
      BY <1>1, <3>1 DEF OwnerInv
    <3>3. ASSUME NEW i \in DOMAIN regions'[Master], NEW a, a = regions'[Master][i].global
          PROVE  \E j \in DOMAIN ownership'[Hash(a)] : Covers(ownership'[Hash(a)][j], a)
      <4>1. CASE i \in 1..L
        <5>1. a = regions[Master][i].global /\ regions[Master][i] \in Region
          BY <1>1, <1>2, <1>3, <2>1, <3>3, <4>1, ListFacts
        <5>2. Hash(a) \in DOMAIN ownership
          <6>1. a \in Nat
            BY <5>1, ContainsFacts
          <6>2. Hash(a) \in 0..Buckets - 1
            BY <6>1, MemoryAssumptions DEF Hash
          <6> QED
            BY <1>1, <6>2 DEF TypeOK
        <5>3. PICK k \in DOMAIN ownership[Hash(a)] : Covers(ownership[Hash(a)][k], a)
          BY <1>1, <1>2, <2>1, <4>1, <5>1 DEF OwnerInv
        <5> QED
          BY <3>1, <5>2, <5>3
      <4>2. CASE i = L + 1
        <5>1. a = g
          BY <1>3, <2>1, <3>3, <4>2 DEF NewRegion
        <5> QED
          BY <3>1, <5>1
      <4> QED
        BY <1>2, <1>3, <2>1, <4>1, <4>2
    <3> QED
      BY <3>2, <3>3 DEF OwnerInv, Hash, Covers
  <2>2. CASE n # Master
    <3>1. regions'[Master] = regions[Master] /\ ownership' = ownership
      BY <1>3, <1>9, <2>2 DEF Nodes
    <3> QED
      BY <1>1, <3>1 DEF OwnerInv
  <2> QED
    BY <2>1, <2>2
<1>15. NodeInv(n)'
  <2>1. SpaceInv(n)'
    BY <1>1, CreateSpaceInv DEF NodeInv
  <2>2. Distinct(n)' => Distinct(n)
    BY <1>4, KeptFacts
  <2>3. PhaseInv(n)'
    <3>1. regions'[n] # <<>>
      <4>1. L + 1 \in DOMAIN regions'[n]
        BY <1>2, <1>3
      <4> QED
        BY <4>1
    <3> QED
      BY <1>8, <3>1 DEF PhaseInv
  <2>4. ASSUME Distinct(n)' PROVE {regions'[n][i].base : i \in 2..L + 1} = held'[n]
    <3>1. CASE phase[n] = "start" /\ held' = held
      <4>1. regions[n] = <<>> /\ held[n] = {}
        BY <1>1, <3>1 DEF NodeInv, PhaseInv
      <4>2. L = 0
        BY <1>2, <4>1
      <4>3. 2..L + 1 = {}
        BY <4>2
      <4> QED
        BY <3>1, <4>1, <4>3
    <3>2. CASE phase[n] = "up" /\ held' = [held EXCEPT ![n] = held[n] \cup {l}]
      <4>1. Distinct(n) /\ regions[n] # <<>> /\ Bases(n) = held[n]
        BY <1>1, <2>2, <2>4, <3>2 DEF NodeInv, PhaseInv, Freed
      <4>2. L # 0 /\ regions[n] \in Seq(Region)
        <5>1. regions[n] \in Seq(Region)
          BY <1>1, ListFacts
        <5> QED
          BY <1>2, <4>1, <5>1, EmptySeq
      <4>3. /\ \A i \in 2..L + 1 : i \in 2..L \/ i = L + 1
            /\ \A i \in 2..L : i \in 2..L + 1 /\ i \in 1..L
            /\ L + 1 \in 2..L + 1
        BY <4>2
      <4>4. held'[n] = held[n] \cup {l}
        BY <1>1, <3>2 DEF TypeOK
      <4>5. Bases(n) = {regions[n][i].base : i \in 2..L}
        BY <1>2 DEF Bases
      <4>6. regions'[n][L + 1].base = l
        BY <1>3 DEF NewRegion
      <4> QED
        <5>1. ASSUME NEW x \in {regions'[n][i].base : i \in 2..L + 1} PROVE x \in held[n] \cup {l}
          <6>1. PICK i \in 2..L + 1 : x = regions'[n][i].base
            BY <5>1
          <6>2. CASE i \in 2..L
            BY <1>3, <4>1, <4>3, <4>5, <6>1, <6>2
          <6>3. CASE i = L + 1
            BY <4>6, <6>1, <6>3
          <6> QED
            BY <4>3, <6>2, <6>3
        <5>2. ASSUME NEW x \in held[n] PROVE x \in {regions'[n][i].base : i \in 2..L + 1}
          <6>1. PICK i \in 2..L : x = regions[n][i].base
            BY <4>1, <4>5
          <6>2. i \in 2..L + 1 /\ x = regions'[n][i].base
            BY <1>3, <4>3, <6>1
          <6> QED
            BY <6>2
        <5>3. l \in {regions'[n][i].base : i \in 2..L + 1}
          BY <4>3, <4>6
        <5> QED
          BY <4>4, <5>1, <5>2, <5>3
    <3> QED
      BY <1>6, <3>1, <3>2
  <2>5. Freed(n)'
    BY <1>3, <2>4 DEF Freed, Bases
  <2> QED
    BY <2>1, <2>3, <2>5 DEF NodeInv
<1>16. ASSUME NEW d \in Nodes \ {n} PROVE NodeInv(d)'
  BY <1>3, <1>4, <1>5, <1>8, OtherNode DEF SpacesInv
<1> QED
  BY <1>12, <1>13, <1>14, <1>15, <1>16 DEF SpacesInv

\* dsm_finalize.
LEMMA ShutdownSpaces ==
  ASSUME SpacesInv, NEW n \in Nodes, MemShutdown(n)
  PROVE  SpacesInv'
<1>1. TypeOK /\ IdInv /\ OwnerInv
  BY DEF SpacesInv
<1>2. /\ phase' \in [Nodes -> {"start", "up", "gone", "killed"}] /\ phase'[n] = "gone"
      /\ \A d \in Nodes \ {n} : phase'[d] = phase[d]
  BY <1>1 DEF TypeOK, MemShutdown
<1>3. /\ regions' \in [Nodes -> Seq(Region)] /\ regions'[n] = <<>>
      /\ \A d \in Nodes \ {n} : regions'[d] = regions[d]
  BY <1>1 DEF TypeOK, MemShutdown
<1>4. /\ pages' \in [Nodes -> Seq(Page)] /\ pages'[n] = <<>>
      /\ \A d \in Nodes \ {n} : pages'[d] = pages[d]
  BY <1>1 DEF TypeOK, MemShutdown
<1>5. /\ prot' \in [Nodes -> [LocalPages -> {"UNMAPPED", "NONE", "READ", "RW"}]]
      /\ \A l \in LocalPages : prot'[n][l] = "UNMAPPED"
      /\ \A d \in Nodes \ {n} : prot'[d] = prot[d]
  <2> DEFINE p == [l \in LocalPages |-> "UNMAPPED"]
  <2>1. p \in [LocalPages -> {"UNMAPPED", "NONE", "READ", "RW"}] /\ \A l \in LocalPages : p[l] = "UNMAPPED"
    OBVIOUS
  <2>2. prot' = [prot EXCEPT ![n] = p]
    BY DEF MemShutdown
  <2> HIDE DEF p
  <2>3. prot' \in [Nodes -> [LocalPages -> {"UNMAPPED", "NONE", "READ", "RW"}]] /\ prot'[n] = p
    BY <1>1, <2>1, <2>2 DEF TypeOK
  <2> QED
    BY <1>1, <2>1, <2>2, <2>3 DEF TypeOK
<1>6. /\ held' \in [Nodes -> SUBSET LocalPages] /\ held'[n] = {}
      /\ \A d \in Nodes \ {n} : held'[d] = held[d]
  BY <1>1 DEF TypeOK, MemShutdown
<1>7. /\ waiting' \in [Nodes -> Nat]
      /\ \A d \in Nodes : waiting'[d] \in {0} \cup DOMAIN pages'[d]
  BY <1>1, <1>4 DEF TypeOK, MemShutdown
<1>8. /\ ownership' \in [0..Buckets - 1 -> Seq(Entry)]
      /\ IF n = Master THEN \A b \in DOMAIN ownership' : DOMAIN ownership'[b] = {}
                       ELSE ownership' = ownership
  <2>1. CASE n = Master
    <3>1. ownership' = [b \in 0..Buckets - 1 |-> <<>>]
      BY <1>1, <2>1 DEF TypeOK, MemShutdown
    <3> QED
      BY <2>1, <3>1
  <2>2. CASE n # Master
    BY <1>1, <2>2 DEF TypeOK, MemShutdown, Entry
  <2> QED
    BY <2>1, <2>2
<1>9. TypeOK'
  BY <1>1, <1>2, <1>3, <1>4, <1>5, <1>6, <1>7, <1>8 DEF TypeOK, MemShutdown, Entry, netVars
<1>10. IdInv'
  BY <1>1 DEF IdInv, MemShutdown
<1>11. OwnerInv'
  <2>1. CASE n = Master
    BY <1>3, <1>8, <2>1 DEF OwnerInv
  <2>2. CASE n # Master
    <3>1. regions'[Master] = regions[Master] /\ ownership' = ownership
      BY <1>3, <1>8, <2>2 DEF Nodes
    <3> QED
      BY <1>1, <3>1 DEF OwnerInv
  <2> QED
    BY <2>1, <2>2
<1>12. NodeInv(n)'
  <2>0. DOMAIN regions'[n] = {} /\ Len(regions'[n]) = 0
    BY <1>3
  <2>1. SpaceInv(n)'
    BY <1>5, <2>0 DEF SpaceInv
  <2>2. PhaseInv(n)'
    BY <1>2, <1>3, <1>4, <1>6 DEF PhaseInv
  <2>3. Freed(n)'
    <3>1. 2..0 = {}
      OBVIOUS
    <3> QED
      BY <1>6, <2>0, <3>1 DEF Freed, Bases
  <2> QED
    BY <2>1, <2>2, <2>3 DEF NodeInv
<1>13. ASSUME NEW d \in Nodes \ {n} PROVE NodeInv(d)'
  BY <1>2, <1>3, <1>4, <1>5, <1>6, OtherNode DEF SpacesInv
<1> QED
  BY <1>9, <1>10, <1>11, <1>12, <1>13 DEF SpacesInv

\* With a page table without duplicates the region that dsm_free destroys is the one
\* that was asked for: both have an entry for the same global address.
LEMMA FreeFindsIt ==
  ASSUME TypeOK, NEW n \in Nodes, NodeInv(n), Distinct(n), NEW l \in held[n],
         NEW i \in DOMAIN regions[n], NEW j \in DOMAIN regions[n], FreeFinds(n, l, i, j)
  PROVE  j = i /\ i \in 2..Len(regions[n]) /\ regions[n][i].base = l
<1>1. PICK m \in 2..Len(regions[n]) : regions[n][m].base = l
  BY DEF NodeInv, Freed, Bases
<1>2. m \in DOMAIN regions[n] /\ \A k \in DOMAIN regions[n] : regions[n][k] \in Region
  <2>1. DOMAIN regions[n] = 1..Len(regions[n]) /\ Len(regions[n]) \in Nat
    BY ListFacts
  <2>2. m \in 1..Len(regions[n])
    BY <2>1
  <2> QED
    BY <2>1, <2>2, ListFacts
<1>3. l \in Nat /\ Contains(regions[n][m], l)
  BY <1>1, <1>2, ContainsFacts
<1>4. m = i
  BY <1>2, <1>3, SpaceFacts DEF NodeInv, FreeFinds
<1>5. PICK g \in Nat, a \in Nat, b \in Nat, c \in Nat \ {0} :
        /\ g = regions[n][i].global /\ a = regions[n][j].global
        /\ b = regions[n][j].base /\ c = regions[n][j].count
  BY <1>2, ContainsFacts
<1>6. g >= a /\ g < a + c
  <2>1. g + (l - l) = g
    BY <1>3, <1>5
  <2> QED
    BY <1>1, <1>4, <1>5, <2>1 DEF FreeFinds, Covers
<1>7. PICK o \in Nat : o >= b /\ o < b + c /\ a + (o - b) = g
  <2>1. PICK e \in Nat : g = a + e /\ e < c
    <3>1. g - a \in Nat /\ g = a + (g - a) /\ g - a < c
      BY <1>6
    <3> QED
      BY <3>1
  <2>2. b + e \in Nat /\ b + e >= b /\ b + e < b + c /\ a + ((b + e) - b) = g
    BY <2>1
  <2> QED
    BY <2>2
<1>8. Contains(regions[n][j], o)
  BY <1>5, <1>7 DEF Contains
<1>9. Registered(n, regions[n][j], o) /\ Registered(n, regions[n][i], l)
  BY <1>3, <1>4, <1>7, <1>8, SpaceFacts DEF NodeInv
<1>10. PICK k \in DOMAIN pages[n] : pages[n][k].local = o /\ pages[n][k].global = g
  BY <1>5, <1>7, <1>9 DEF Registered
<1>11. PICK q \in DOMAIN pages[n] : pages[n][q].local = l /\ pages[n][q].global = g
  <2>1. g + (l - l) = g
    BY <1>3, <1>5
  <2> QED
    BY <1>1, <1>4, <1>5, <1>9, <2>1 DEF Registered
<1>12. o = l
  BY <1>10, <1>11 DEF Distinct
<1>13. j = i
  BY <1>3, <1>4, <1>8, <1>12, SpaceFacts DEF NodeInv
<1> QED
  BY <1>1, <1>4, <1>13

\* dsm_free destroys the i-th region.
LEMMA DestroyBases ==
  ASSUME TypeOK, NEW n \in Nodes, SpaceInv(n), NEW i \in 2..Len(regions[n]), RegionDestroy(n, i)
  PROVE  /\ {regions'[n][k].base : k \in 2..Len(regions'[n])} = Bases(n) \ {regions[n][i].base}
         /\ regions'[n] # <<>>
<1>1. PICK L \in Nat : L = Len(regions[n]) /\ DOMAIN regions[n] = 1..L
  BY ListFacts
<1>2. i \in 1..L /\ L >= 2 /\ i >= 2 /\ i <= L
  BY <1>1
<1>3. /\ Len(regions'[n]) = L - 1 /\ DOMAIN regions'[n] = 1..L - 1
      /\ \A k \in 1..L - 1 : regions'[n][k] = regions[n][Moved(k, i)]
  BY <1>1, <1>2, DestroyFacts DEF Moved
<1>4. /\ \A k \in 2..L - 1 : k \in 1..L - 1 /\ Moved(k, i) \in 2..L /\ Moved(k, i) # i
      /\ \A o \in 2..L : o # i => \E k \in 2..L - 1 : Moved(k, i) = o
  <2>1. \A k \in 2..L - 1 : k \in 1..L - 1 /\ Moved(k, i) \in 2..L /\ Moved(k, i) # i
    BY <1>2 DEF Moved
  <2>2. ASSUME NEW o \in 2..L, o # i PROVE \E k \in 2..L - 1 : Moved(k, i) = o
    <3>1. CASE o < i
      BY <1>2, <3>1 DEF Moved
    <3>2. CASE ~(o < i)
      <4>1. o - 1 \in 2..L - 1 /\ ~(o - 1 < i) /\ (o - 1) + 1 = o
        BY <1>2, <2>2, <3>2
      <4> QED
        BY <4>1 DEF Moved
    <3> QED
      BY <3>1, <3>2
  <2> QED
    BY <2>1, <2>2
<1>5. ASSUME NEW o \in 2..L, o # i PROVE regions[n][o].base # regions[n][i].base
  <2>1. o \in 1..L
    BY <1>1
  <2>2. /\ regions[n][o] \in Region /\ regions[n][i] \in Region
    BY <1>1, <1>2, <2>1, ListFacts
  <2>3. /\ Contains(regions[n][o], regions[n][o].base) /\ regions[n][o].base \in Nat
        /\ Contains(regions[n][i], regions[n][i].base)
    BY <2>2, ContainsFacts
  <2> QED
    BY <1>1, <1>2, <1>5, <2>1, <2>3, SpaceFacts
<1>6. Bases(n) = {regions[n][k].base : k \in 2..L}
  BY <1>1 DEF Bases
<1>7. {regions'[n][k].base : k \in 2..L - 1} = Bases(n) \ {regions[n][i].base}
  <2>1. ASSUME NEW x \in {regions'[n][k].base : k \in 2..L - 1}
        PROVE  x \in Bases(n) \ {regions[n][i].base}
    <3>1. PICK k \in 2..L - 1 : x = regions'[n][k].base
      BY <2>1
    <3>2. Moved(k, i) \in 2..L /\ Moved(k, i) # i /\ x = regions[n][Moved(k, i)].base
      BY <1>3, <1>4, <3>1
    <3> QED
      BY <1>5, <1>6, <3>2
  <2>2. ASSUME NEW x \in Bases(n) \ {regions[n][i].base}
        PROVE  x \in {regions'[n][k].base : k \in 2..L - 1}
    <3>1. PICK o \in 2..L : x = regions[n][o].base
      BY <1>6
    <3>2. PICK k \in 2..L - 1 : Moved(k, i) = o
      BY <1>4, <2>2, <3>1
    <3> QED
      BY <1>3, <1>4, <3>1, <3>2
  <2> QED
    BY <2>1, <2>2
<1>8. regions'[n] # <<>>
  <2>1. 1 \in DOMAIN regions'[n]
    BY <1>2, <1>3
  <2> QED
    BY <2>1
<1>9. 2..Len(regions'[n]) = 2..L - 1
  BY <1>3
<1> QED
  BY <1>7, <1>8, <1>9

LEMMA FreeSpaces ==
  ASSUME SpacesInv, NEW n \in Nodes, NEW l \in LocalPages, Free(n, l)
  PROVE  SpacesInv'
<1>1. TypeOK /\ IdInv /\ OwnerInv /\ NodeInv(n)
  BY DEF SpacesInv
<1>2. /\ phase[n] = "up" /\ l \in held[n] /\ held' = [held EXCEPT ![n] = held[n] \ {l}]
      /\ UNCHANGED <<nodeVars, want, waiting, netVars, calls>>
      /\ \/ /\ UNCHANGED spaceVars
            /\ \A i \in DOMAIN regions[n] : ~Contains(regions[n][i], l)
         \/ \E i, j \in DOMAIN regions[n] : FreeFinds(n, l, i, j) /\ RegionDestroy(n, j)
  BY <1>1, FreeFacts
<1>3. /\ held' \in [Nodes -> SUBSET LocalPages] /\ held'[n] = held[n] \ {l}
      /\ \A d \in Nodes \ {n} : held'[d] = held[d]
  BY <1>1, <1>2 DEF TypeOK
<1>4. IdInv' /\ phase' = phase /\ ownership' = ownership
  BY <1>1, <1>2 DEF IdInv, nodeVars
<1>5. CASE /\ UNCHANGED spaceVars
           /\ \A i \in DOMAIN regions[n] : ~Contains(regions[n][i], l)
  <2>1. UNCHANGED <<regions, pages, prot, bytes>>
    BY <1>5 DEF spaceVars
  <2>2. TypeOK'
    BY <1>1, <1>2, <1>3, <2>1 DEF TypeOK, nodeVars, netVars
  <2>3. OwnerInv'
    BY <1>1, <1>4, <2>1 DEF OwnerInv
  <2>4. SpaceInv(n)'
    BY <1>1, <2>1, SameTableKept, SpaceFrame DEF NodeInv
  <2>5. ~Distinct(n)
    <3>1. SUFFICES ASSUME Distinct(n) PROVE FALSE
      OBVIOUS
    <3>2. PICK m \in 2..Len(regions[n]) : regions[n][m].base = l
      BY <1>1, <1>2, <3>1 DEF NodeInv, Freed, Bases
    <3>3. m \in DOMAIN regions[n]
      BY <1>1, ListFacts
    <3>4. Contains(regions[n][m], l)
      BY <1>1, <3>2, <3>3, ListFacts, ContainsFacts
    <3> QED
      BY <1>5, <3>3, <3>4
  <2>6. ~Distinct(n)'
    BY <2>1, <2>5 DEF Distinct
  <2>7. NodeInv(n)'
    BY <1>2, <1>4, <2>4, <2>6 DEF NodeInv, PhaseInv, Freed
  <2>8. \A d \in Nodes \ {n} : NodeInv(d)'
    BY <1>3, <1>4, <2>1, OtherNode DEF SpacesInv
  <2> QED
    BY <1>4, <2>2, <2>3, <2>7, <2>8 DEF SpacesInv
<1>6. ASSUME NEW i \in DOMAIN regions[n], NEW j \in DOMAIN regions[n],
             FreeFinds(n, l, i, j), RegionDestroy(n, j)
      PROVE  SpacesInv'
  <2>1. /\ regions' \in [Nodes -> Seq(Region)]
        /\ prot' \in [Nodes -> [LocalPages -> {"UNMAPPED", "NONE", "READ", "RW"}]]
        /\ \A d \in Nodes \ {n} : regions'[d] = regions[d] /\ prot'[d] = prot[d]
        /\ DOMAIN regions'[n] = 1..Len(regions[n]) - 1
        /\ \A k \in 1..Len(regions[n]) - 1 :
             regions'[n][k] = IF k < j THEN regions[n][k] ELSE regions[n][k + 1]
    BY <1>1, <1>6, DestroyFacts DEF NodeInv
  <2>2. UNCHANGED <<pages, bytes>>
    BY <1>6 DEF RegionDestroy
  <2>3. TypeOK'
    BY <1>1, <1>2, <1>3, <2>1, <2>2 DEF TypeOK, nodeVars, netVars
  <2>4. \A k \in DOMAIN regions'[n] : \E o \in DOMAIN regions[n] : regions'[n][k] = regions[n][o]
    <3>1. PICK L \in Nat : L = Len(regions[n]) /\ DOMAIN regions[n] = 1..L
      BY <1>1, ListFacts
    <3>2. \A k \in 1..L - 1 : k \in 1..L /\ k + 1 \in 1..L
      BY <3>1
    <3> QED
      BY <2>1, <3>1, <3>2
  <2>5. OwnerInv'
    <3>1. \A k \in DOMAIN regions'[Master] : \E o \in DOMAIN regions[Master] :
            regions'[Master][k] = regions[Master][o]
      BY <2>1, <2>4 DEF Nodes
    <3> QED
      BY <1>1, <1>4, <3>1 DEF OwnerInv
  <2>6. SpaceInv(n)'
    BY <1>1, <1>6, DestroySpaceInv DEF NodeInv
  <2>7. Distinct(n)' <=> Distinct(n)
    BY <2>2 DEF Distinct
  <2>8. ASSUME Distinct(n)
        PROVE  regions'[n] # <<>> /\ {regions'[n][k].base : k \in 2..Len(regions'[n])} = held'[n]
    <3>1. j = i /\ i \in 2..Len(regions[n]) /\ regions[n][i].base = l
      BY <1>1, <1>2, <1>6, <2>8, FreeFindsIt
    <3>2. /\ {regions'[n][k].base : k \in 2..Len(regions'[n])} = Bases(n) \ {l}
          /\ regions'[n] # <<>>
      BY <1>1, <1>6, <3>1, DestroyBases DEF NodeInv
    <3>3. Bases(n) = held[n]
      BY <1>1, <2>8 DEF NodeInv, Freed
    <3> QED
      BY <1>3, <3>2, <3>3
  <2>9. NodeInv(n)'
    <3>1. PhaseInv(n)'
      BY <1>2, <1>4, <2>7, <2>8 DEF PhaseInv
    <3>2. Freed(n)'
      BY <2>7, <2>8 DEF Freed, Bases
    <3> QED
      BY <2>6, <3>1, <3>2 DEF NodeInv
  <2>10. \A d \in Nodes \ {n} : NodeInv(d)'
    BY <1>3, <1>4, <2>1, <2>2, OtherNode DEF SpacesInv
  <2> QED
    BY <1>4, <2>3, <2>5, <2>9, <2>10 DEF SpacesInv
<1> QED
  BY <1>2, <1>5, <1>6

-----------------------------------------------------------------------------
(* The bytes, as long as all is orderly *)

OrderInv == (\A n \in Nodes : BytesInv(n)) /\ (\A w \in Workers : FlightInv(w))

\* PageInv afterwards.
PageInvNext(n, r, l) ==
  IF Own(n, r) THEN prot'[n][l] = "RW" /\ bytes'[n][l] = <<n, r.global + (l - r.base)>>
  ELSE /\ prot'[n][l] \in {"NONE", "READ"}
       /\ prot'[n][l] = "READ" => bytes'[n][l] = <<Master, r.global + (l - r.base)>>

LEMMA BytesNext ==
  ASSUME NEW n \in Nodes,
         \A i \in DOMAIN regions'[n] : \A l \in LocalPages :
           Contains(regions'[n][i], l) => PageInvNext(n, regions'[n][i], l)
  PROVE  BytesInv(n)'
  BY DEF BytesInv, PageInv, PageInvNext, Contains, Own

\* A node's regions, its mappings and their contents stay.
LEMMA BytesFrame ==
  ASSUME NEW n \in Nodes, BytesInv(n), regions'[n] = regions[n], prot'[n] = prot[n],
         bytes'[n] = bytes[n]
  PROVE  BytesInv(n)'
  BY DEF BytesInv, PageInv, Contains, Own

LEMMA FlightFrame ==
  ASSUME NEW w \in Workers, FlightInv(w), TableKept(w), toMaster'[w] = toMaster[w],
         toWorker'[w] = toWorker[w]
  PROVE  FlightInv(w)'
<1>1. \A g : Asked(w, g) => Asked(w, g)'
  BY KeptFacts
<1>2. ASSUME NEW i \in DOMAIN toMaster[w], NEW x, x = toMaster[w][i].global PROVE Asked(w, x)'
  BY <1>1, <1>2 DEF FlightInv
<1>3. ASSUME NEW i \in DOMAIN toWorker[w], NEW x, x = toWorker[w][i].global PROVE Asked(w, x)'
  BY <1>1, <1>3 DEF FlightInv
<1>4. \A i \in DOMAIN toWorker[w] : toWorker[w][i].data = <<Master, toWorker[w][i].global>>
  BY DEF FlightInv
<1> QED
  BY <1>2, <1>3, <1>4 DEF FlightInv, Asked

\* Steps that touch neither mappings nor messages.
LEMMA StillOrder ==
  ASSUME OrderInv, UNCHANGED <<regions, prot, bytes, toMaster, toWorker>>, \A d \in Nodes : TableKept(d)
  PROVE  OrderInv'
<1>1. \A d \in Nodes : BytesInv(d)'
  BY BytesFrame DEF OrderInv
<1>2. \A w \in Workers : FlightInv(w)'
  BY FlightFrame DEF OrderInv, Nodes
<1> QED
  BY <1>1, <1>2 DEF OrderInv

LEMMA CreatedOrder ==
  ASSUME SpacesInv, OrderInv, NEW n \in Nodes, NEW count \in Nat \ {0}, NEW owner \in Nat,
         NEW g \in Nat, NEW st \in States, NEW l \in Holes(n, count),
         Created(n, l, count, owner, g, st)
  PROVE  OrderInv'
<1> DEFINE r == NewRegion(l, count, owner, g)
<1>1. TypeOK /\ NodeInv(n) /\ RegionCreate(n, l, count, owner, g, st) /\ BytesInv(n)
  BY DEF SpacesInv, OrderInv, Created
<1>2. PICK L \in Nat : L = Len(regions[n]) /\ DOMAIN regions[n] = 1..L
  BY <1>1, ListFacts
<1>3. /\ \A d \in Nodes \ {n} : regions'[d] = regions[d]
      /\ DOMAIN regions'[n] = 1..L + 1 /\ regions'[n][L + 1] = r
      /\ \A i \in 1..L : regions'[n][i] = regions[n][i]
  BY <1>1, <1>2, CreateRegions
<1>4. \A d \in Nodes : TableKept(d)
  BY <1>1, CreatePages
<1>5. /\ prot' \in [Nodes -> [LocalPages -> {"UNMAPPED", "NONE", "READ", "RW"}]]
      /\ bytes' \in [Nodes -> [LocalPages -> Bytes]]
      /\ \A d \in Nodes \ {n} : prot'[d] = prot[d] /\ bytes'[d] = bytes[d]
      /\ \A k \in LocalPages \ (l..l + count - 1) :
           prot'[n][k] = prot[n][k] /\ bytes'[n][k] = bytes[n][k]
      /\ \A k \in l..l + count - 1 : IF owner = id[n]
           THEN prot'[n][k] = "RW" /\ bytes'[n][k] = <<n, g + (k - l)>>
           ELSE prot'[n][k] = "NONE"
  BY <1>1, CreateSpace
<1>6. l \in Nat /\ \A k \in l..l + count - 1 : prot[n][k] = "UNMAPPED"
  BY HoleFacts
<1>7. /\ \A k \in Nat : Contains(r, k) <=> k \in l..l + count - 1
      /\ r.global = g /\ r.base = l /\ (Own(n, r) <=> owner = id[n])
  <2>1. Own(n, r) <=> owner = id[n]
    BY DEF Own, NewRegion, Created
  <2>2. \A k \in Nat : Contains(r, k) <=> k \in l..l + count - 1
    BY <1>6, RangeFacts
  <2> QED
    BY <2>1, <2>2 DEF NewRegion
<1> HIDE DEF r
<1>8. ASSUME NEW i \in DOMAIN regions'[n], NEW k \in LocalPages, Contains(regions'[n][i], k)
      PROVE  PageInvNext(n, regions'[n][i], k)
  <2>0. k \in Nat
    BY MemoryAssumptions
  <2>1. CASE i \in 1..L
    <3>1. regions'[n][i] = regions[n][i] /\ Contains(regions[n][i], k)
      BY <1>3, <1>8, <2>1
    <3>2. prot[n][k] # "UNMAPPED"
      BY <1>1, <1>2, <2>0, <2>1, <3>1, SpaceFacts DEF NodeInv
    <3>3. prot'[n][k] = prot[n][k] /\ bytes'[n][k] = bytes[n][k]
      BY <1>5, <1>6, <3>2
    <3>4. PageInv(n, regions[n][i], k)
      BY <1>1, <1>2, <2>1, <3>1 DEF BytesInv
    <3> QED
      BY <3>1, <3>3, <3>4 DEF PageInv, PageInvNext
  <2>2. CASE i = L + 1
    <3>1. regions'[n][i] = r /\ k \in l..l + count - 1
      BY <1>3, <1>7, <1>8, <2>0, <2>2
    <3> QED
      BY <1>5, <1>7, <3>1 DEF PageInvNext
  <2> QED
    BY <1>2, <1>3, <2>1, <2>2
<1>9. BytesInv(n)'
  BY <1>8, BytesNext
<1>10. \A d \in Nodes \ {n} : BytesInv(d)'
  BY <1>3, <1>5, BytesFrame DEF OrderInv
<1>11. \A w \in Workers : FlightInv(w)'
  BY <1>4, FlightFrame DEF OrderInv, Nodes, Created, netVars
<1> QED
  BY <1>9, <1>10, <1>11 DEF OrderInv

LEMMA FreeOrder ==
  ASSUME SpacesInv, OrderInv, NEW n \in Nodes, NEW l \in LocalPages, Free(n, l)
  PROVE  OrderInv'
<1>1. TypeOK /\ NodeInv(n) /\ BytesInv(n)
  BY DEF SpacesInv, OrderInv
<1>2. /\ UNCHANGED <<nodeVars, want, waiting, netVars, calls>>
      /\ \/ UNCHANGED spaceVars
         \/ \E i, j \in DOMAIN regions[n] : FreeFinds(n, l, i, j) /\ RegionDestroy(n, j)
  BY <1>1, FreeFacts
<1>3. CASE UNCHANGED spaceVars
  <2>1. UNCHANGED <<regions, pages, prot, bytes, toMaster, toWorker>>
    BY <1>2, <1>3 DEF spaceVars, netVars
  <2> QED
    BY <2>1, SameTableKept, StillOrder
<1>4. ASSUME NEW j \in DOMAIN regions[n], RegionDestroy(n, j) PROVE OrderInv'
  <2>1. PICK L \in Nat : L = Len(regions[n]) /\ DOMAIN regions[n] = 1..L
    BY <1>1, ListFacts
  <2>2. /\ \A d \in Nodes \ {n} : regions'[d] = regions[d] /\ prot'[d] = prot[d]
        /\ DOMAIN regions'[n] = 1..L - 1
        /\ \A k \in 1..L - 1 : regions'[n][k] = regions[n][Moved(k, j)]
        /\ \A k \in LocalPages :
             prot'[n][k] = IF Contains(regions[n][j], k) THEN "UNMAPPED" ELSE prot[n][k]
    BY <1>1, <1>4, <2>1, DestroyFacts DEF NodeInv, Moved
  <2>3. pages' = pages /\ bytes' = bytes
    BY <1>4 DEF RegionDestroy
  <2>4. \A k \in 1..L - 1 : Moved(k, j) \in 1..L /\ Moved(k, j) # j
    BY <2>1, MovedFacts
  <2>5. ASSUME NEW i \in DOMAIN regions'[n], NEW k \in LocalPages, Contains(regions'[n][i], k)
        PROVE  PageInvNext(n, regions'[n][i], k)
    <3>1. PICK o \in 1..L : o # j /\ regions'[n][i] = regions[n][o]
      BY <2>2, <2>4
    <3>2. Contains(regions[n][o], k) /\ k \in Nat
      BY <2>5, <3>1, MemoryAssumptions
    <3>3. ~Contains(regions[n][j], k)
      BY <1>1, <2>1, <3>1, <3>2, SpaceFacts DEF NodeInv
    <3>4. prot'[n][k] = prot[n][k] /\ bytes'[n][k] = bytes[n][k]
      BY <2>2, <2>3, <3>3
    <3>5. PageInv(n, regions[n][o], k)
      BY <1>1, <2>1, <3>1, <3>2 DEF BytesInv
    <3> QED
      BY <3>1, <3>4, <3>5 DEF PageInv, PageInvNext
  <2>6. BytesInv(n)'
    BY <2>5, BytesNext
  <2>7. \A d \in Nodes \ {n} : BytesInv(d)'
    BY <2>2, <2>3, BytesFrame DEF OrderInv
  <2>8. \A w \in Workers : FlightInv(w)'
    BY <1>2, <2>3, SameTableKept, FlightFrame DEF OrderInv, netVars
  <2> QED
    BY <2>6, <2>7, <2>8 DEF OrderInv
<1> QED
  BY <1>2, <1>3, <1>4

\* Without duplicates the entry of a page that is mapped is that of its region.
LEMMA EntryOfRegion ==
  ASSUME TypeOK, NEW n \in Nodes, SpaceInv(n), Distinct(n), NEW k \in DOMAIN pages[n],
         NEW l \in LocalPages, l = pages[n][k].local, prot[n][l] # "UNMAPPED"
  PROVE  \E i \in DOMAIN regions[n] :
           /\ Contains(regions[n][i], l) /\ regions[n][i].owner = pages[n][k].owner
           /\ regions[n][i].global + (l - regions[n][i].base) = pages[n][k].global
<1>1. PICK i \in DOMAIN regions[n] : Contains(regions[n][i], l)
  BY DEF SpaceInv
<1>2. Registered(n, regions[n][i], l)
  BY <1>1, SpaceFacts, MemoryAssumptions
<1>3. PICK m \in DOMAIN pages[n] : /\ pages[n][m].local = l /\ pages[n][m].owner = regions[n][i].owner
                                   /\ pages[n][m].global = regions[n][i].global + (l - regions[n][i].base)
  BY <1>2 DEF Registered
<1>4. m = k
  BY <1>3 DEF Distinct
<1> QED
  BY <1>1, <1>3, <1>4

\* A node's own pages do not fault.
LEMMA FaultOwnOrder ==
  ASSUME TypeOK, IdInv, NEW n \in Workers, SpaceInv(n), BytesInv(n), Distinct(n), FaultOwn(n)
  PROVE  FALSE
<1>0. n \in Nodes /\ n # Master
  BY MemoryAssumptions DEF Nodes
<1>1. /\ want[n] \in LocalPages /\ FaultEntry(n) \in DOMAIN pages[n]
      /\ pages[n][FaultEntry(n)].local = want[n]
      /\ prot[n][want[n]] = "NONE" /\ pages[n][FaultEntry(n)].owner = id[n]
  BY <1>0, FaultFacts DEF FaultOwn, Faulting
<1>2. PICK i \in DOMAIN regions[n] : Contains(regions[n][i], want[n]) /\ regions[n][i].owner = id[n]
  BY <1>0, <1>1, EntryOfRegion
<1>3. PageInv(n, regions[n][i], want[n])
  BY <1>1, <1>2 DEF BytesInv
<1>4. id[n] # 1
  BY MemoryAssumptions DEF IdInv
<1> QED
  BY <1>1, <1>2, <1>3, <1>4 DEF PageInv, Own

LEMMA FaultFetchOrder ==
  ASSUME SpacesInv, OrderInv, NEW w \in Workers, FaultFetch(w), Quiet
  PROVE  OrderInv'
<1>0. w \in Nodes /\ TypeOK /\ SpaceInv(w) /\ FlightInv(w)
  BY DEF SpacesInv, NodeInv, OrderInv, Nodes
<1>1. PICK k \in DOMAIN pages[w] : k = FaultEntry(w)
  BY <1>0, FaultFacts DEF FaultFetch
<1>2. PICK q \in Requests : q = [global |-> pages[w][k].global, src |-> id[w]]
  BY <1>0, <1>1, RequestFacts
<1>3. /\ toMaster' = [toMaster EXCEPT ![w] = Append(toMaster[w], q)]
      /\ UNCHANGED <<regions, prot, bytes, toWorker>> /\ pages[w][k].owner = 1
  BY <1>1, <1>2 DEF FaultFetch
<1>4. \A d \in Nodes : TableKept(d)
  BY DEF Quiet
<1>5. \A d \in Nodes : BytesInv(d)'
  BY <1>3, BytesFrame DEF OrderInv
<1>6. \A x : Asked(w, x) => Asked(w, x)'
  BY <1>0, <1>4, KeptFacts
<1>7. Asked(w, q.global)
  BY <1>2, <1>3 DEF Asked
<1>8. PICK p \in Nat : p = Len(toMaster[w]) /\ DOMAIN toMaster[w] = 1..p /\ toMaster[w] \in Seq(Requests)
  BY <1>0, LenProperties DEF TypeOK, Requests
<1>9. /\ DOMAIN toMaster'[w] = 1..p + 1 /\ toMaster'[w][p + 1] = q
      /\ \A i \in 1..p : toMaster'[w][i] = toMaster[w][i]
  <2>1. toMaster'[w] = Append(toMaster[w], q)
    BY <1>0, <1>3 DEF TypeOK
  <2>2. /\ Append(toMaster[w], q) \in Seq(Requests) /\ Len(Append(toMaster[w], q)) = p + 1
        /\ \A i \in 1..p : Append(toMaster[w], q)[i] = toMaster[w][i]
        /\ Append(toMaster[w], q)[p + 1] = q
    BY <1>8, AppendProperties
  <2> QED
    BY <2>1, <2>2, LenProperties
<1>10. ASSUME NEW i \in DOMAIN toMaster'[w], NEW x, x = toMaster'[w][i].global PROVE Asked(w, x)'
  <2>1. CASE i \in 1..p
    BY <1>0, <1>6, <1>8, <1>9, <1>10, <2>1 DEF FlightInv
  <2>2. CASE i = p + 1
    BY <1>6, <1>7, <1>9, <1>10, <2>2
  <2> QED
    BY <1>8, <1>9, <2>1, <2>2
<1>11. FlightInv(w)'
  <2>1. \A i \in DOMAIN toWorker[w] : /\ Asked(w, toWorker[w][i].global)
                                      /\ toWorker[w][i].data = <<Master, toWorker[w][i].global>>
    BY <1>0 DEF FlightInv
  <2>2. ASSUME NEW i \in DOMAIN toWorker[w], NEW x, x = toWorker[w][i].global PROVE Asked(w, x)'
    BY <1>6, <2>1, <2>2
  <2> QED
    BY <1>3, <1>10, <2>1, <2>2 DEF FlightInv, Asked
<1>12. \A v \in Workers \ {w} : FlightInv(v)'
  <2>1. \A v \in Workers \ {w} : toMaster'[v] = toMaster[v] /\ toWorker'[v] = toWorker[v]
    BY <1>0, <1>3 DEF TypeOK
  <2> QED
    BY <1>4, <2>1, FlightFrame DEF OrderInv, Nodes
<1> QED
  BY <1>5, <1>11, <1>12 DEF OrderInv

\* What the master sends is its own page at that address.
LEMMA PageSendOrder ==
  ASSUME SpacesInv, OrderInv, Distinct(Master), NEW w \in Workers, PageSend(w)
  PROVE  OrderInv'
<1>0. /\ w \in Nodes /\ Master \in Nodes /\ TypeOK /\ SpaceInv(Master) /\ BytesInv(Master)
      /\ FlightInv(w)
  BY DEF SpacesInv, NodeInv, OrderInv, Nodes
<1>1. /\ toMaster' = [toMaster EXCEPT ![w] = Tail(toMaster[w])]
      /\ UNCHANGED <<id, next, ownership, spaceVars, want, waiting, appVars>>
      /\ \/ toWorker' = toWorker
         \/ \E i \in DOMAIN pages[Master] : Sends(w, Head(toMaster[w]).global, i)
  BY <1>0, PageSendFacts
<1>2. UNCHANGED <<regions, pages, prot, bytes>>
  BY <1>1 DEF spaceVars
<1>3. \A d \in Nodes : BytesInv(d)'
  BY <1>2, BytesFrame DEF OrderInv
<1>4. toMaster[w] \in Seq(Requests) /\ toMaster[w] # <<>>
  BY <1>0 DEF PageSend, TypeOK, Requests
<1>5. /\ Head(toMaster[w]) \in Requests /\ 1 \in DOMAIN toMaster[w] /\ Head(toMaster[w]) = toMaster[w][1]
      /\ \A i \in DOMAIN Tail(toMaster[w]) :
           i + 1 \in DOMAIN toMaster[w] /\ Tail(toMaster[w])[i] = toMaster[w][i + 1]
  BY <1>4, TailFacts
<1>6. toMaster'[w] = Tail(toMaster[w])
  BY <1>0, <1>1 DEF TypeOK
<1>7. PICK g \in Nat : g = Head(toMaster[w]).global /\ Asked(w, g)
  BY <1>0, <1>5 DEF FlightInv, Requests
<1>8. \A i \in DOMAIN toMaster'[w] : Asked(w, toMaster'[w][i].global)
  BY <1>0, <1>5, <1>6 DEF FlightInv
<1>9. ASSUME NEW i \in DOMAIN pages[Master], Sends(w, g, i)
      PROVE  bytes[Master][pages[Master][i].local] = <<Master, g>>
  <2>1. PICK l \in LocalPages : l = pages[Master][i].local
    BY <1>0, ListFacts DEF Page
  <2>2. prot[Master][l] # "UNMAPPED" /\ pages[Master][i].global = g
    BY <1>9, <2>1 DEF Sends
  <2>3. PICK j \in DOMAIN regions[Master] :
          /\ Contains(regions[Master][j], l)
          /\ regions[Master][j].global + (l - regions[Master][j].base) = g
    BY <1>0, <2>1, <2>2, EntryOfRegion
  <2>4. PageInv(Master, regions[Master][j], l)
    BY <1>0, <2>3 DEF BytesInv
  <2> QED
    BY <2>1, <2>3, <2>4 DEF PageInv, Own
<1>10. \A i \in DOMAIN toWorker'[w] : /\ Asked(w, toWorker'[w][i].global)
                                      /\ toWorker'[w][i].data = <<Master, toWorker'[w][i].global>>
  <2>1. CASE toWorker' = toWorker
    BY <1>0, <2>1 DEF FlightInv
  <2>2. ASSUME NEW i \in DOMAIN pages[Master], Sends(w, g, i)
        PROVE  \A k \in DOMAIN toWorker'[w] : /\ Asked(w, toWorker'[w][k].global)
                                              /\ toWorker'[w][k].data = <<Master, toWorker'[w][k].global>>
    <3> DEFINE m == [global |-> g, data |-> <<Master, g>>]
    <3>1. toWorker' = [toWorker EXCEPT ![w] = Append(toWorker[w], m)]
      BY <1>9, <2>2 DEF Sends
    <3>2. m \in [global : Nat, data : Bytes] /\ m.global = g /\ m.data = <<Master, g>>
      <4>1. <<Master, g>> \in Bytes
        BY <1>0 DEF Bytes
      <4> QED
        BY <4>1
    <3> HIDE DEF m
    <3>3. PICK p \in Nat : /\ p = Len(toWorker[w]) /\ DOMAIN toWorker[w] = 1..p
                           /\ toWorker[w] \in Seq([global : Nat, data : Bytes])
      BY <1>0, LenProperties DEF TypeOK
    <3>4. /\ Append(toWorker[w], m) \in Seq([global : Nat, data : Bytes])
          /\ Len(Append(toWorker[w], m)) = p + 1
          /\ \A k \in 1..p : Append(toWorker[w], m)[k] = toWorker[w][k]
          /\ Append(toWorker[w], m)[p + 1] = m
      BY <3>2, <3>3, AppendProperties
    <3>5. toWorker'[w] = Append(toWorker[w], m)
      BY <1>0, <3>1 DEF TypeOK
    <3>6. DOMAIN toWorker'[w] = 1..p + 1
      BY <3>4, <3>5, LenProperties
    <3>7. \A k \in 1..p + 1 : k \in 1..p \/ k = p + 1
      BY <3>3
    <3>8. \A k \in 1..p : /\ Asked(w, toWorker'[w][k].global)
                          /\ toWorker'[w][k].data = <<Master, toWorker'[w][k].global>>
      BY <1>0, <3>3, <3>4, <3>5 DEF FlightInv
    <3>9. /\ Asked(w, toWorker'[w][p + 1].global)
          /\ toWorker'[w][p + 1].data = <<Master, toWorker'[w][p + 1].global>>
      BY <1>7, <3>2, <3>4, <3>5
    <3> QED
      BY <3>6, <3>7, <3>8, <3>9
  <2> QED
    BY <1>1, <1>7, <2>1, <2>2
<1>11. FlightInv(w)'
  BY <1>2, <1>8, <1>10 DEF FlightInv, Asked
<1>12. \A v \in Workers \ {w} : FlightInv(v)'
  <2>1. \A v \in Workers \ {w} : toMaster'[v] = toMaster[v] /\ toWorker'[v] = toWorker[v]
    BY <1>0, <1>1 DEF TypeOK, Sends
  <2> QED
    BY <1>2, <2>1, SameTableKept, FlightFrame DEF OrderInv
<1> QED
  BY <1>3, <1>11, <1>12 DEF OrderInv

\* What a worker installs goes to a page that it has mapped at that address.
LEMMA PageInstallOrder ==
  ASSUME SpacesInv, OrderInv, NEW w \in Workers, Distinct(w), PageInstall(w), Quiet
  PROVE  OrderInv'
<1>0. /\ w \in Nodes /\ w # Master /\ TypeOK /\ SpaceInv(w) /\ BytesInv(w) /\ FlightInv(w)
  BY MemoryAssumptions DEF SpacesInv, NodeInv, OrderInv, Nodes
<1>1. /\ toWorker' = [toWorker EXCEPT ![w] = Tail(toWorker[w])]
      /\ UNCHANGED <<nodeVars, regions, want, toMaster, appVars>>
      /\ \/ UNCHANGED <<pages, prot, bytes, waiting>>
         \/ \E i \in DOMAIN pages[w] : Installs(w, Head(toWorker[w]), i)
  BY <1>0, PageInstallFacts
<1>2. \A d \in Nodes : TableKept(d)
  BY DEF Quiet
<1>3. toWorker[w] \in Seq([global : Nat, data : Bytes]) /\ toWorker[w] # <<>>
  BY <1>0 DEF PageInstall, TypeOK
<1>4. /\ 1 \in DOMAIN toWorker[w] /\ Head(toWorker[w]) = toWorker[w][1]
      /\ \A i \in DOMAIN Tail(toWorker[w]) :
           i + 1 \in DOMAIN toWorker[w] /\ Tail(toWorker[w])[i] = toWorker[w][i + 1]
  BY <1>3, TailFacts
<1>5. PICK msg : msg = Head(toWorker[w])
  OBVIOUS
<1>6. Asked(w, msg.global) /\ msg.data = <<Master, msg.global>>
  BY <1>0, <1>4, <1>5 DEF FlightInv
<1>7. FlightInv(w)'
  <2>1. toWorker'[w] = Tail(toWorker[w]) /\ toMaster'[w] = toMaster[w]
    BY <1>0, <1>1 DEF TypeOK
  <2>2. \A x : Asked(w, x) => Asked(w, x)'
    BY <1>0, <1>2, KeptFacts
  <2>3. ASSUME NEW i \in DOMAIN toMaster[w], NEW x, x = toMaster[w][i].global PROVE Asked(w, x)'
    BY <1>0, <2>2, <2>3 DEF FlightInv
  <2>4. ASSUME NEW i \in DOMAIN toWorker'[w], NEW x, x = toWorker'[w][i].global
        PROVE  Asked(w, x)' /\ toWorker'[w][i].data = <<Master, x>>
    <3>1. i + 1 \in DOMAIN toWorker[w] /\ toWorker'[w][i] = toWorker[w][i + 1]
      BY <1>4, <2>1
    <3>2. Asked(w, x) /\ toWorker'[w][i].data = <<Master, x>>
      BY <1>0, <2>4, <3>1 DEF FlightInv
    <3> QED
      BY <2>2, <3>2
  <2> QED
    BY <2>1, <2>3, <2>4 DEF FlightInv, Asked
<1>8. \A v \in Workers \ {w} : FlightInv(v)'
  <2>1. \A v \in Workers \ {w} : toMaster'[v] = toMaster[v] /\ toWorker'[v] = toWorker[v]
    BY <1>0, <1>1 DEF TypeOK
  <2> QED
    BY <1>2, <2>1, FlightFrame DEF OrderInv, Nodes
<1>9. CASE UNCHANGED <<pages, prot, bytes, waiting>>
  <2>1. \A d \in Nodes : BytesInv(d)'
    BY <1>1, <1>9, BytesFrame DEF OrderInv
  <2> QED
    BY <1>7, <1>8, <2>1 DEF OrderInv
<1>10. ASSUME NEW i \in DOMAIN pages[w], Installs(w, msg, i) PROVE OrderInv'
  <2>1. PICK l \in LocalPages : l = pages[w][i].local
    BY <1>0, ListFacts DEF Page
  <2>2. /\ pages[w][i].global = msg.global /\ prot[w][l] # "UNMAPPED"
        /\ prot' = [prot EXCEPT ![w][l] = "READ"] /\ bytes' = [bytes EXCEPT ![w][l] = msg.data]
    BY <1>10, <2>1 DEF Installs
  <2>3. /\ prot'[w][l] = "READ" /\ bytes'[w][l] = <<Master, msg.global>>
        /\ \A k \in LocalPages : k # l => prot'[w][k] = prot[w][k] /\ bytes'[w][k] = bytes[w][k]
        /\ \A d \in Nodes \ {w} : prot'[d] = prot[d] /\ bytes'[d] = bytes[d]
    BY <1>0, <1>6, <2>2 DEF TypeOK
  <2>4. pages[w][i].owner = 1
    BY <1>6, <2>2 DEF Asked, Distinct
  <2>5. PICK j \in DOMAIN regions[w] :
          /\ Contains(regions[w][j], l) /\ regions[w][j].owner = 1
          /\ regions[w][j].global + (l - regions[w][j].base) = msg.global
    BY <1>0, <2>1, <2>2, <2>4, EntryOfRegion
  <2>6. ASSUME NEW o \in DOMAIN regions'[w], NEW k \in LocalPages, Contains(regions'[w][o], k)
        PROVE  PageInvNext(w, regions'[w][o], k)
    <3>1. regions' = regions
      BY <1>1
    <3>2. CASE k = l
      <4>1. o = j
        BY <1>0, <2>5, <2>6, <3>1, <3>2, SpaceFacts, MemoryAssumptions
      <4> QED
        BY <1>0, <2>3, <2>5, <3>1, <3>2, <4>1 DEF PageInvNext, Own
    <3>3. CASE k # l
      <4>1. PageInv(w, regions[w][o], k)
        BY <1>0, <2>6, <3>1 DEF BytesInv
      <4> QED
        BY <2>3, <3>1, <3>3, <4>1 DEF PageInv, PageInvNext
    <3> QED
      BY <3>2, <3>3
  <2>7. BytesInv(w)'
    BY <1>0, <2>6, BytesNext
  <2>8. \A d \in Nodes \ {w} : BytesInv(d)'
    BY <1>1, <2>3, BytesFrame DEF OrderInv
  <2> QED
    BY <1>7, <1>8, <2>7, <2>8 DEF OrderInv
<1> QED
  BY <1>1, <1>5, <1>9, <1>10

-----------------------------------------------------------------------------
(* The theorems *)

LEMMA InvParts == MemoryInv <=> SpacesInv /\ (Orderly => OrderInv)
<1>1. FreesWhatItIsGiven <=> \A n \in Nodes : Freed(n)
  BY DEF FreesWhatItIsGiven, Freed, Bases
<1> QED
  BY <1>1 DEF MemoryInv, SpacesInv, NodeInv, OrderInv

\* Order is never restored.
LEMMA OrderLost ==
  ASSUME \A d \in Nodes : TableKept(d) /\ (phase[d] = "gone" => phase'[d] = "gone"), Orderly'
  PROVE  Orderly
<1>1. \A d \in Nodes : Distinct(d)' => Distinct(d)
  BY KeptFacts
<1> QED
  BY <1>1 DEF Orderly

LEMMA QuietStep ==
  ASSUME SpacesInv, Orderly => OrderInv, TypeOK', IdInv', Quiet, Orderly => OrderInv'
  PROVE  SpacesInv' /\ (Orderly' => OrderInv')
<1>1. SpacesInv'
  BY QuietSpaces
<1>2. \A d \in Nodes : TableKept(d) /\ (phase[d] = "gone" => phase'[d] = "gone")
  BY DEF Quiet
<1> QED
  BY <1>1, <1>2, OrderLost

LEMMA MemoryStep ==
  ASSUME SpacesInv, Orderly => OrderInv, [Next]_vars
  PROVE  SpacesInv' /\ (Orderly' => OrderInv')
<1>0. /\ TypeOK /\ IdInv /\ (\A n \in Nodes : SpaceInv(n) /\ (Orderly => Distinct(n) /\ BytesInv(n)))
      /\ Workers \subseteq Nodes /\ Master \in Nodes
  BY DEF SpacesInv, NodeInv, OrderInv, Orderly, Nodes
<1>1. ASSUME NEW n \in Nodes, Creates(n) PROVE SpacesInv' /\ (Orderly' => OrderInv')
  <2>1. PICK count \in Nat \ {0}, owner \in Nat, g \in Nat, st \in States :
          \E l \in Holes(n, count) : Created(n, l, count, owner, g, st)
    BY <1>1 DEF Creates
  <2>2. PICK l \in Holes(n, count) : Created(n, l, count, owner, g, st)
    BY <2>1
  <2>3. SpacesInv'
    BY <2>2, CreatedSpaces
  <2>4. Orderly => OrderInv'
    BY <2>2, CreatedOrder
  <2>5. \A d \in Nodes : TableKept(d)
    BY <1>0, <2>2, CreatePages DEF Created
  <2>6. \A d \in Nodes : phase[d] = "gone" => phase'[d] = "gone"
    BY <1>0, <2>2 DEF Created, TypeOK
  <2>7. Orderly' => Orderly
    BY <2>5, <2>6, OrderLost
  <2> QED
    BY <2>3, <2>4, <2>7
<1>2. ASSUME NEW n \in Nodes, MemShutdown(n) PROVE SpacesInv' /\ (Orderly' => OrderInv')
  <2>1. phase'[n] = "gone"
    BY <1>0, <1>2 DEF MemShutdown, TypeOK
  <2>2. ~Orderly'
    BY <2>1 DEF Orderly
  <2> QED
    BY <1>2, <2>2, ShutdownSpaces
<1>3. ASSUME NEW n \in Nodes, NEW l \in LocalPages, Free(n, l) PROVE SpacesInv' /\ (Orderly' => OrderInv')
  <2>1. /\ UNCHANGED <<phase, pages>>
    BY <1>0, <1>3, FreeFacts DEF nodeVars, spaceVars, RegionDestroy
  <2>2. Orderly' => Orderly
    BY <2>1 DEF Orderly, Distinct
  <2> QED
    BY <1>3, <2>2, FreeSpaces, FreeOrder
<1>4. ASSUME NEW n \in Nodes, Complete(n) \/ \E l \in LocalPages : Access(n, l)
      PROVE  SpacesInv' /\ (Orderly' => OrderInv')
  <2>1. TypeOK' /\ IdInv' /\ Quiet
    BY <1>0, <1>4, ReadQuiet
  <2>2. UNCHANGED <<regions, prot, bytes, toMaster, toWorker>>
    BY <1>4 DEF Complete, Access, spaceVars, netVars
  <2>3. Orderly => OrderInv'
    BY <2>1, <2>2, StillOrder DEF Quiet
  <2> QED
    BY <2>1, <2>3, QuietStep
<1>5. ASSUME NEW w \in Workers, JoinResponse(w) PROVE SpacesInv' /\ (Orderly' => OrderInv')
  <2>1. TypeOK' /\ IdInv' /\ Quiet
    BY <1>0, <1>5, JoinQuiet
  <2>2. UNCHANGED <<regions, prot, bytes, toMaster, toWorker>>
    BY <1>5 DEF JoinResponse, spaceVars, netVars
  <2>3. Orderly => OrderInv'
    BY <2>1, <2>2, StillOrder DEF Quiet
  <2> QED
    BY <2>1, <2>3, QuietStep
<1>6. ASSUME NEW w \in Workers, FaultOwn(w) PROVE SpacesInv' /\ (Orderly' => OrderInv')
  <2>1. TypeOK' /\ IdInv' /\ Quiet
    BY <1>0, <1>6, FaultOwnQuiet
  <2>2. ~Orderly
    BY <1>0, <1>6, FaultOwnOrder
  <2> QED
    BY <2>1, <2>2, QuietStep
<1>7. ASSUME NEW w \in Workers, FaultFetch(w) PROVE SpacesInv' /\ (Orderly' => OrderInv')
  <2>1. TypeOK' /\ IdInv' /\ Quiet
    BY <1>0, <1>7, FaultFetchQuiet
  <2>2. Orderly => OrderInv'
    BY <1>7, <2>1, FaultFetchOrder
  <2> QED
    BY <2>1, <2>2, QuietStep
<1>8. ASSUME NEW w \in Workers, FaultTimeout(w) PROVE SpacesInv' /\ (Orderly' => OrderInv')
  <2>1. TypeOK' /\ IdInv' /\ Quiet
    BY <1>0, <1>8, FaultTimeoutQuiet
  <2>2. UNCHANGED <<regions, prot, bytes, toMaster, toWorker>>
    BY <1>8 DEF FaultTimeout, netVars
  <2>3. Orderly => OrderInv'
    BY <2>1, <2>2, StillOrder DEF Quiet
  <2> QED
    BY <2>1, <2>3, QuietStep
<1>9. ASSUME NEW w \in Workers, PageSend(w) PROVE SpacesInv' /\ (Orderly' => OrderInv')
  <2>1. TypeOK' /\ IdInv' /\ Quiet
    BY <1>0, <1>9, PageSendQuiet
  <2>2. Orderly => OrderInv'
    BY <1>0, <1>9, PageSendOrder
  <2> QED
    BY <2>1, <2>2, QuietStep
<1>10. ASSUME NEW w \in Workers, PageInstall(w) PROVE SpacesInv' /\ (Orderly' => OrderInv')
  <2>1. TypeOK' /\ IdInv' /\ Quiet
    BY <1>0, <1>10, PageInstallQuiet
  <2>2. Orderly => OrderInv'
    BY <1>0, <1>10, <2>1, PageInstallOrder
  <2> QED
    BY <2>1, <2>2, QuietStep
<1>11. CASE UNCHANGED vars
  <2>1. /\ UNCHANGED <<regions, prot, bytes, toMaster, toWorker, pages, phase, ownership, held>>
        /\ UNCHANGED spaceVars
    BY <1>11 DEF vars, spaceVars
  <2>2. TypeOK' /\ IdInv'
    BY <1>0, <1>11 DEF TypeOK, IdInv, vars
  <2>3. Quiet
    BY <2>1, StillQuiet
  <2>4. Orderly => OrderInv'
    BY <2>1, <2>3, StillOrder DEF Quiet
  <2> QED
    BY <2>2, <2>3, <2>4, QuietStep
<1>12. ASSUME NEW n \in Nodes, MemInit(n) \/ MemShutdown(n) \/ AppCall(n)
       PROVE  SpacesInv' /\ (Orderly' => OrderInv')
  <2>1. \/ MemShutdown(n) \/ (\E l \in LocalPages : Free(n, l) \/ Access(n, l))
        \/ MemInit(n)
        \/ \E count \in Sizes : \/ Malloc(n, count)
                                \/ \E g \in Fixed : MallocAt(n, g, count) \/ MapRemote(n, g, count)
    BY <1>12 DEF AppCall
  <2>2. CASE \/ MemInit(n)
             \/ \E count \in Sizes : \/ Malloc(n, count)
                                     \/ \E g \in Fixed : MallocAt(n, g, count) \/ MapRemote(n, g, count)
    BY <1>0, <1>1, <2>2, CreatesFacts
  <2> QED
    BY <1>2, <1>3, <1>4, <2>1, <2>2
<1> QED
  BY <1>0, <1>4, <1>5, <1>6, <1>7, <1>8, <1>9, <1>10, <1>11, <1>12 DEF Next, FaultStep

LEMMA MemoryStart ==
  ASSUME Init
  PROVE  SpacesInv /\ (Orderly => OrderInv)
<1>1. \A n \in Nodes : /\ regions[n] = <<>> /\ pages[n] = <<>> /\ held[n] = {} /\ phase[n] = "start"
                       /\ DOMAIN regions[n] = {} /\ waiting[n] = 0
                       /\ \A l \in LocalPages : prot[n][l] = "UNMAPPED"
  BY DEF Init
<1>2. TypeOK
  <2>1. /\ phase \in [Nodes -> {"start", "up", "gone", "killed"}]
        /\ id \in [Nodes -> Nat] /\ next \in [Nodes -> Nat]
        /\ want \in [Nodes -> LocalPages \cup {None}]
        /\ waiting \in [Nodes -> Nat] /\ calls \in [Nodes -> Nat]
        /\ held \in [Nodes -> SUBSET LocalPages]
    BY MemoryAssumptions DEF Init
  <2>2. /\ regions \in [Nodes -> Seq(Region)] /\ pages \in [Nodes -> Seq(Page)]
        /\ ownership \in [0..Buckets - 1 -> Seq(Entry)]
    BY DEF Init
  <2>3. /\ prot \in [Nodes -> [LocalPages -> {"UNMAPPED", "NONE", "READ", "RW"}]]
        /\ bytes \in [Nodes -> [LocalPages -> Bytes]]
    BY DEF Init, Bytes
  <2>4. toMaster \in [Workers -> Seq([global : Nat, src : Nat])] /\ toWorker \in [Workers -> Seq([global : Nat, data : Bytes])]
    BY DEF Init
  <2> QED
    BY <1>1, <2>1, <2>2, <2>3, <2>4 DEF TypeOK, Entry
<1>3. IdInv
  BY MemoryAssumptions DEF Init, IdInv, Nodes
<1>4. OwnerInv
  <2>1. \A b \in DOMAIN ownership : DOMAIN ownership[b] = {}
    BY DEF Init
  <2> QED
    BY <1>1, <2>1 DEF OwnerInv, Nodes
<1>5. ASSUME NEW n \in Nodes PROVE NodeInv(n)
  <2>1. SpaceInv(n)
    BY <1>1 DEF SpaceInv
  <2>2. PhaseInv(n)
    BY <1>1 DEF PhaseInv
  <2>3. Len(regions[n]) = 0 /\ 2..0 = {}
    BY <1>1
  <2>4. Freed(n)
    BY <1>1, <2>3 DEF Freed, Bases
  <2> QED
    BY <2>1, <2>2, <2>4 DEF NodeInv
<1>6. OrderInv
  <2>1. \A n \in Nodes : BytesInv(n)
    BY <1>1 DEF BytesInv
  <2>2. \A w \in Workers : toMaster[w] = <<>> /\ toWorker[w] = <<>>
    BY DEF Init
  <2>3. \A w \in Workers : FlightInv(w)
    BY <2>2 DEF FlightInv
  <2> QED
    BY <2>1, <2>3 DEF OrderInv
<1> QED
  BY <1>2, <1>3, <1>4, <1>5, <1>6 DEF SpacesInv

\* The inductive invariant: regions, mappings, page tables and what the application
\* holds agree on every node in every state, and, as long as all is orderly, so do the
\* bytes and the messages under way.
THEOREM MemoryInvariant == Spec => []MemoryInv
<1>1. Init => MemoryInv
  BY MemoryStart, InvParts
<1>2. MemoryInv /\ [Next]_vars => MemoryInv'
  <2>1. MemoryInv' <=> (SpacesInv' /\ (Orderly' => OrderInv'))
    BY InvParts, PTL
  <2> QED
    BY <2>1, MemoryStep, InvParts
<1> QED
  BY <1>1, <1>2, PTL DEF Spec

\* Every variable keeps its type; in particular a fault thread waits for an entry
\* that the page table has.
THEOREM MemoryTypeCorrect == Spec => []TypeOK
<1>1. MemoryInv => TypeOK
  BY DEF MemoryInv
<1> QED
  BY <1>1, MemoryInvariant, PTL

\* Whatever dsm_malloc, dsm_malloc_at, dsm_map_remote and dsm_free do in whatever
\* order: what is mapped is covered by exactly one region and has its entry in the page
\* table, and nothing else is mapped.
THEOREM MemoryRegionsBacked == Spec => []RegionsBacked
<1>1. ASSUME MemoryInv PROVE RegionsBacked
  <2>0. TypeOK /\ \A n \in Nodes : SpaceInv(n)
    BY <1>1 DEF MemoryInv
  <2>1. ASSUME NEW n \in Nodes, NEW l \in LocalPages, NEW rs,
               rs = {i \in DOMAIN regions[n] : Contains(regions[n][i], l)}
        PROVE  /\ Cardinality(rs) = IF prot[n][l] = "UNMAPPED" THEN 0 ELSE 1
               /\ \A i \in rs : Registered(n, regions[n][i], l)
    <3>0. l \in Nat
      BY MemoryAssumptions
    <3>1. \A i \in rs : prot[n][l] # "UNMAPPED" /\ Registered(n, regions[n][i], l) /\ \A j \in rs : j = i
      BY <2>0, <2>1, <3>0, SpaceFacts
    <3>2. CASE prot[n][l] = "UNMAPPED"
      <4>1. rs = {}
        BY <3>1, <3>2
      <4> QED
        BY <3>1, <3>2, <4>1, FS_EmptySet
    <3>3. CASE prot[n][l] # "UNMAPPED"
      <4>1. PICK i : i \in rs
        BY <2>0, <2>1, <3>3 DEF SpaceInv
      <4>2. rs = {i}
        BY <3>1, <4>1
      <4> QED
        BY <3>1, <3>3, <4>2, FS_Singleton
    <3> QED
      BY <3>2, <3>3
  <2>2. ASSUME NEW n \in Nodes, NEW l \in LocalPages
        PROVE  LET rs == {i \in DOMAIN regions[n] : Contains(regions[n][i], l)}
               IN  /\ Cardinality(rs) = IF prot[n][l] = "UNMAPPED" THEN 0 ELSE 1
                   /\ \A i \in rs : Registered(n, regions[n][i], l)
    BY <2>1
  <2> QED
    BY <2>2 DEF RegionsBacked, Registered
<1> QED
  BY <1>1, MemoryInvariant, PTL

\* dsm_free searches by global address and still removes the region that it is given,
\* on a node whose page table has no duplicates.
THEOREM MemoryFreesWhatItIsGiven == Spec => []FreesWhatItIsGiven
<1>1. MemoryInv => FreesWhatItIsGiven
  BY DEF MemoryInv
<1> QED
  BY <1>1, MemoryInvariant, PTL

\* As long as no page table has duplicates and no node is finalized, what a node can
\* read in a region is what its owner put there: faults, requests and installations
\* find the right page.
THEOREM MemoryRightBytes == Spec => []RightBytesIfDistinct
<1>1. ASSUME MemoryInv, Orderly PROVE RightBytes
  <2>1. ASSUME NEW n \in Nodes, NEW i \in DOMAIN regions[n], NEW l \in LocalPages,
               Contains(regions[n][i], l), prot[n][l] \in {"READ", "RW"}
        PROVE  bytes[n][l] = <<IF Own(n, regions[n][i]) THEN n ELSE Master,
                               regions[n][i].global + (l - regions[n][i].base)>>
    <3>1. PageInv(n, regions[n][i], l)
      BY <1>1, <2>1 DEF MemoryInv, BytesInv
    <3> QED
      BY <2>1, <3>1 DEF PageInv
  <2> QED
    BY <2>1 DEF RightBytes
<1>2. MemoryInv => RightBytesIfDistinct
  BY <1>1 DEF RightBytesIfDistinct
<1> QED
  BY <1>2, MemoryInvariant, PTL

\* dsm_ownership_get finds the owner of every allocation of the master under its first
\* page, whatever else is in the bucket and whatever was freed.
THEOREM MemoryOwnerFound == Spec => []OwnerFound
<1>1. ASSUME MemoryInv PROVE OwnerFound
  <2>0. TypeOK /\ IdInv /\ OwnerInv /\ Master \in Nodes
    BY <1>1 DEF MemoryInv, Nodes
  <2>1. ASSUME NEW i \in DOMAIN regions[Master] PROVE OwnershipGet(regions[Master][i].global) = id[Master]
    <3>1. PICK g \in Nat : g = regions[Master][i].global
      BY <2>0, ListFacts, ContainsFacts
    <3>2. Hash(g) \in 0..Buckets - 1
      BY MemoryAssumptions DEF Hash
    <3> DEFINE bucket == ownership[Hash(g)]
    <3> DEFINE S == {j \in DOMAIN bucket : Covers(bucket[j], g)}
    <3>3. bucket \in Seq(Entry)
      BY <2>0, <3>2 DEF TypeOK, Entry
    <3>4. DOMAIN bucket = 1..Len(bucket) /\ Len(bucket) \in Nat
      BY <3>3, LenProperties
    <3>5. S \in SUBSET Nat /\ 0 \notin S
      BY <3>4
    <3>6. S # {}
      BY <2>0, <3>1 DEF OwnerInv
    <3>7. \A j \in DOMAIN bucket : bucket[j].owner = 1
      BY <2>0, <3>2 DEF OwnerInv, TypeOK
    <3> HIDE DEF S
    <3>8. FirstOr0(S) \in S /\ FirstOr0(S) # 0
      BY <3>5, <3>6, SearchFacts
    <3>9. bucket[FirstOr0(S)].owner = 1
      BY <3>7, <3>8 DEF S
    <3>10. OwnershipGet(g) = bucket[FirstOr0(S)].owner
      BY <3>8 DEF OwnershipGet, S
    <3> QED
      BY <2>0, <3>1, <3>9, <3>10 DEF IdInv
  <2> QED
    BY <2>1 DEF OwnerFound
<1> QED
  BY <1>1, MemoryInvariant, PTL
=============================================================================
