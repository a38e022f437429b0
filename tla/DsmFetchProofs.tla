--------------------------- MODULE DsmFetchProofs ----------------------------
(***************************************************************************)
(* Theorems about DsmPaging for workers no wait of which has expired yet   *)
(* and that map a page after its owner has allocated it: it is fetched     *)
(* once, and a worker's first page is hidden while it is being filled.     *)
(***************************************************************************)
EXTENDS DsmPagingProofs

WorkerStep(w) == \/ AppCalls(w) \/ AppStep(w) \/ FaultStep(w) \/ FaultSpurious(w)
                 \/ FaultTimeout(w) \/ TcpStep(w) \/ PageSend(w)

\* What worker v keeps, but for the owner's side.
Untouched(v) ==
  /\ state'[v] = state[v] /\ prot'[v] = prot[v] /\ copy'[v] = copy[v]
  /\ pending'[v] = pending[v] /\ handled'[v] = handled[v] /\ eventfd'[v] = eventfd[v]
  /\ app'[v] = app[v] /\ want'[v] = want[v] /\ appStores'[v] = appStores[v]
  /\ ft'[v] = ft[v] /\ fpage'[v] = fpage[v] /\ ftStores'[v] = ftStores[v]
  /\ tcp'[v] = tcp[v] /\ toMaster'[v] = toMaster[v] /\ toWorker'[v] = toWorker[v]

-----------------------------------------------------------------------------
\* Workers do not meet: a step of one leaves the others' state alone.
LEMMA OthersUntouched ==
  ASSUME TypeOK, NEW w \in Workers, NEW v \in Workers, v # w, WorkerStep(w)
  PROVE  Untouched(v)
<1> USE DEF handOver, appVars, ftVars, netVars, pageVars, masterVars
<1>1. ASSUME NEW p \in Pages, MapRemote(w, p) PROVE Untouched(v)
  BY <1>1 DEF MapRemote, TypeOK, Untouched
<1>2. ASSUME NEW p \in Pages, NEW k \in Kinds, Access(w, p, k) PROVE Untouched(v)
  BY <1>2 DEF Access, TypeOK, Untouched
<1>3. CASE Complete(w)
  BY <1>3 DEF Complete, TypeOK, Untouched
<1>4. CASE Fault(w)
  BY <1>4 DEF Fault, TypeOK, Untouched
<1>5. ASSUME NEW s \in {"pending", "handled"}, HandlerStore(w, s) PROVE Untouched(v)
  BY <1>5 DEF HandlerStore, TypeOK, Untouched
<1>6. CASE HandlerSignal(w)
  BY <1>6 DEF HandlerSignal, TypeOK, Untouched
<1>7. CASE HandlerReturn(w)
  BY <1>7 DEF HandlerReturn, TypeOK, Untouched
<1>8. CASE FaultRead(w)
  BY <1>8 DEF FaultRead, TypeOK, Untouched
<1>9. CASE FaultTake(w)
  <2>1. CASE pending[w] = NoPage
    BY <1>9, <2>1 DEF FaultTake, TypeOK, Untouched
  <2>2. CASE pending[w] # NoPage
    BY <1>9, <2>2 DEF FaultTake, TypeOK, Untouched
  <2> QED
    BY <2>1, <2>2
<1>10. CASE FaultValid(w)
  BY <1>10 DEF FaultValid, HandleReturns, TypeOK, Untouched
<1>11. CASE FaultFetched(w)
  BY <1>11 DEF FaultFetched, HandleReturns, TypeOK, Untouched
<1>12. CASE FaultNotConnected(w)
  BY <1>12 DEF FaultNotConnected, HandleReturns, TypeOK, Untouched
<1>13. CASE FaultExpire(w)
  BY <1>13 DEF FaultExpire, HandleReturns, TypeOK, Untouched
<1>14. CASE FaultPend(w)
  BY <1>14 DEF FaultPend, TypeOK, Untouched
<1>15. CASE FaultSend(w)
  BY <1>15 DEF FaultSend, TypeOK, Untouched
<1>16. CASE FaultSleep(w)
  BY <1>16 DEF FaultSleep, TypeOK, Untouched
<1>17. CASE FaultSpurious(w)
  BY <1>17 DEF FaultSpurious, TypeOK, Untouched
<1>18. CASE FaultTimeout(w)
  BY <1>18 DEF FaultTimeout, TypeOK, Untouched
<1>19. ASSUME NEW s \in {"pending", "handled"}, FaultStore(w, s) PROVE Untouched(v)
  BY <1>19 DEF FaultStore, TypeOK, Untouched
<1>20. CASE InstallOpen(w)
  BY <1>20 DEF InstallOpen, TypeOK, Untouched
<1>21. CASE InstallCopy(w)
  BY <1>21 DEF InstallCopy, TypeOK, Untouched
<1>22. CASE InstallShare(w)
  BY <1>22 DEF InstallShare, TypeOK, Untouched
<1>23. CASE InstallSignal(w)
  BY <1>23 DEF InstallSignal, TypeOK, Untouched
<1>24. CASE PageSend(w)
  <2>1. toWorker'[v] = toWorker[v]
    BY <1>24, PageSendAppends
  <2>2. toMaster'[v] = toMaster[v]
    BY <1>24 DEF PageSend, TypeOK
  <2> QED
    BY <1>24, <2>1, <2>2 DEF PageSend, Untouched
<1> QED
  BY <1>1, <1>2, <1>3, <1>4, <1>5, <1>6, <1>7, <1>8, <1>9, <1>10, <1>11, <1>12, <1>13,
     <1>14, <1>15, <1>16, <1>17, <1>18, <1>19, <1>20, <1>21, <1>22, <1>23, <1>24
     DEF WorkerStep, AppCalls, AppStep, FaultStep, TcpStep

\* Where the answers of TransferInv are: the one being installed is the one the
\* fault thread waits for, and nothing else is on its way.
LEMMA InstallAwaited ==
  ASSUME TypeOK, NEW w \in Workers, ThreadInv(w), TransferInv(w),
         toWorker[w] # <<>>, tcp[w] # "shared"
  PROVE  /\ Awaited(w) /\ fpage[w] \in Pages
         /\ Len(toWorker[w]) = 1 /\ toMaster[w] = <<>>
         /\ Head(toWorker[w]).page = fpage[w]
<1>1. Len(toWorker[w]) \in Nat \ {0} /\ Head(toWorker[w]) = toWorker[w][1]
  BY AnswerAtHand
<1>2. Held(w) = 0
  BY DEF Held
<1>3. Awaited(w)
  BY <1>1, <1>2 DEF TransferInv
<1>4. Len(toWorker[w]) = 1 /\ toMaster[w] = <<>>
  BY <1>1, <1>2, <1>3 DEF TransferInv
<1>5. fpage[w] \in Pages
  BY <1>3 DEF Awaited, ThreadInv, Fetching
<1> QED
  BY <1>1, <1>3, <1>4, <1>5 DEF TransferInv

\* ... and a request on its way is for the page the fault thread waits for.
LEMMA RequestAwaited ==
  ASSUME TypeOK, NEW w \in Workers, ThreadInv(w), TransferInv(w), toMaster[w] # <<>>
  PROVE  /\ Awaited(w) /\ fpage[w] \in Pages
         /\ Tail(toMaster[w]) = <<>> /\ Head(toMaster[w]) = fpage[w]
         /\ Len(toWorker[w]) = Held(w)
<1>1. /\ toMaster[w] \in Seq(Pages) /\ Len(toMaster[w]) \in Nat \ {0}
      /\ Head(toMaster[w]) = toMaster[w][1]
  BY EmptySeq DEF TypeOK
<1>2. Awaited(w) /\ Len(toMaster[w]) = 1 /\ Len(toWorker[w]) = Held(w)
  BY DEF TransferInv
<1>3. fpage[w] \in Pages
  BY <1>2 DEF Awaited, ThreadInv, Fetching
<1>4. Tail(toMaster[w]) \in Seq(Pages) /\ Len(Tail(toMaster[w])) = 0
  BY <1>1, <1>2, HeadTailProperties
<1>5. Tail(toMaster[w]) = <<>>
  BY <1>4, EmptySeq
<1> QED
  BY <1>1, <1>2, <1>3, <1>5 DEF TransferInv

\* Pages are mapped before they are used, and allocated before they are mapped.
LEMMA MappedStep ==
  ASSUME TypeOK, NEW w \in Workers, ThreadInv(w), MappedInv(w), TransferInv(w),
         WorkerStep(w), w \in orderly'
  PROVE  MappedInv(w)'
<1> USE DEF handOver, appVars, ftVars, netVars, pageVars, masterVars
<1>1. ASSUME NEW p \in Pages, MapRemote(w, p) PROVE MappedInv(w)'
  BY <1>1, PagingAssumptions DEF MapRemote, TypeOK, ThreadInv, MappedInv, Fetching
<1>2. ASSUME NEW p \in Pages, NEW k \in Kinds, Access(w, p, k) PROVE MappedInv(w)'
  BY <1>2, PagingAssumptions DEF Access, TypeOK, ThreadInv, MappedInv, Fetching
<1>3. CASE Complete(w)
  BY <1>3, PagingAssumptions DEF Complete, TypeOK, ThreadInv, MappedInv, Fetching
<1>4. CASE Fault(w)
  BY <1>4, PagingAssumptions DEF Fault, TypeOK, ThreadInv, MappedInv, Fetching
<1>5. ASSUME NEW s \in {"pending", "handled"}, HandlerStore(w, s) PROVE MappedInv(w)'
  BY <1>5, PagingAssumptions DEF HandlerStore, TypeOK, ThreadInv, MappedInv, Fetching
<1>6. CASE HandlerSignal(w)
  BY <1>6, PagingAssumptions DEF HandlerSignal, TypeOK, ThreadInv, MappedInv, Fetching
<1>7. CASE HandlerReturn(w)
  BY <1>7, PagingAssumptions DEF HandlerReturn, TypeOK, ThreadInv, MappedInv, Fetching
<1>8. CASE FaultRead(w)
  BY <1>8, PagingAssumptions DEF FaultRead, TypeOK, ThreadInv, MappedInv, Fetching
<1>9. CASE FaultTake(w)
  <2>1. CASE pending[w] = NoPage
    BY <1>9, <2>1 DEF FaultTake, TypeOK, MappedInv, Fetching
  <2>2. CASE pending[w] # NoPage
    BY <1>9, <2>2 DEF FaultTake, TypeOK, MappedInv, Fetching
  <2> QED
    BY <2>1, <2>2
<1>10. CASE FaultValid(w)
  BY <1>10, PagingAssumptions DEF FaultValid, HandleReturns, TypeOK, ThreadInv, MappedInv, Fetching
<1>11. CASE FaultFetched(w)
  BY <1>11, PagingAssumptions DEF FaultFetched, HandleReturns, TypeOK, ThreadInv, MappedInv, Fetching
<1>12. CASE FaultNotConnected(w)
  BY <1>12, PagingAssumptions DEF FaultNotConnected, HandleReturns, TypeOK, ThreadInv, MappedInv, Fetching
<1>13. CASE FaultExpire(w)
  BY <1>13, PagingAssumptions DEF FaultExpire, HandleReturns, TypeOK, ThreadInv, MappedInv, Fetching
<1>14. CASE FaultPend(w)
  BY <1>14, PagingAssumptions DEF FaultPend, TypeOK, ThreadInv, MappedInv, Fetching
<1>15. CASE FaultSend(w)
  BY <1>15, PagingAssumptions DEF FaultSend, TypeOK, ThreadInv, MappedInv, Fetching
<1>16. CASE FaultSleep(w)
  BY <1>16, PagingAssumptions DEF FaultSleep, TypeOK, ThreadInv, MappedInv, Fetching
<1>17. CASE FaultSpurious(w)
  BY <1>17, PagingAssumptions DEF FaultSpurious, TypeOK, ThreadInv, MappedInv, Fetching
<1>18. CASE FaultTimeout(w)
  BY <1>18, PagingAssumptions DEF FaultTimeout, TypeOK, ThreadInv, MappedInv, Fetching
<1>19. ASSUME NEW s \in {"pending", "handled"}, FaultStore(w, s) PROVE MappedInv(w)'
  BY <1>19, PagingAssumptions DEF FaultStore, TypeOK, ThreadInv, MappedInv, Fetching
<1>20. CASE InstallOpen(w)
  BY <1>20, PagingAssumptions DEF InstallOpen, TypeOK, ThreadInv, MappedInv, Fetching
<1>21. CASE InstallCopy(w)
  BY <1>21, PagingAssumptions DEF InstallCopy, TypeOK, ThreadInv, MappedInv, Fetching
<1>22. CASE InstallShare(w)
  <2>1. Awaited(w) /\ fpage[w] \in Pages /\ Head(toWorker[w]).page = fpage[w]
    BY <1>22, InstallAwaited DEF InstallShare, ThreadInv
  <2>2. state' = [state EXCEPT ![w][fpage[w]] = "SHARED"]
    BY <1>22, <2>1 DEF InstallShare
  <2>3. state[w][fpage[w]] # "UNMAPPED"
    BY <2>1 DEF Awaited
  <2> QED
    BY <1>22, <2>1, <2>2, <2>3 DEF InstallShare, TypeOK, ThreadInv, MappedInv, Fetching
<1>23. CASE InstallSignal(w)
  BY <1>23, PagingAssumptions DEF InstallSignal, TypeOK, ThreadInv, MappedInv, Fetching
<1>24. CASE PageSend(w)
  BY <1>24, PageSendFacts DEF PageSend, MappedInv
<1> QED
  BY <1>1, <1>2, <1>3, <1>4, <1>5, <1>6, <1>7, <1>8, <1>9, <1>10, <1>11, <1>12, <1>13,
     <1>14, <1>15, <1>16, <1>17, <1>18, <1>19, <1>20, <1>21, <1>22, <1>23, <1>24
     DEF WorkerStep, AppCalls, AppStep, FaultStep, TcpStep

\* The handler waits whenever the fault thread works for the first time.
LEMMA FirstFaultStep ==
  ASSUME TypeOK, NEW w \in Workers, ThreadInv(w), TransferInv(w), FirstFaultInv(w),
         WorkerStep(w), w \in orderly'
  PROVE  FirstFaultInv(w)'
<1> USE DEF handOver, appVars, ftVars, netVars, pageVars, masterVars
<1>1. ASSUME NEW p \in Pages, MapRemote(w, p) PROVE FirstFaultInv(w)'
  BY <1>1 DEF MapRemote, TypeOK, ThreadInv, TransferInv, FirstFaultInv, Quiet, Fetching
<1>2. ASSUME NEW p \in Pages, NEW k \in Kinds, Access(w, p, k) PROVE FirstFaultInv(w)'
  BY <1>2 DEF Access, TypeOK, ThreadInv, TransferInv, FirstFaultInv, Quiet, Fetching
<1>3. CASE Complete(w)
  BY <1>3 DEF Complete, TypeOK, ThreadInv, TransferInv, FirstFaultInv, Quiet, Fetching
<1>4. CASE Fault(w)
  BY <1>4 DEF Fault, TypeOK, ThreadInv, TransferInv, FirstFaultInv, Quiet, Fetching
<1>5. ASSUME NEW s \in {"pending", "handled"}, HandlerStore(w, s) PROVE FirstFaultInv(w)'
  BY <1>5 DEF HandlerStore, TypeOK, ThreadInv, TransferInv, FirstFaultInv, Quiet, Fetching
<1>6. CASE HandlerSignal(w)
  BY <1>6 DEF HandlerSignal, TypeOK, ThreadInv, TransferInv, FirstFaultInv, Quiet, Fetching
<1>7. CASE HandlerReturn(w)
  BY <1>7 DEF HandlerReturn, TypeOK, ThreadInv, TransferInv, FirstFaultInv, Quiet, Fetching
<1>8. CASE FaultRead(w)
  BY <1>8 DEF FaultRead, TypeOK, ThreadInv, TransferInv, FirstFaultInv, Quiet, Fetching
<1>9. CASE FaultTake(w)
  <2>1. CASE pending[w] = NoPage
    BY <1>9, <2>1 DEF FaultTake, TypeOK, FirstFaultInv, Quiet
  <2>2. CASE pending[w] # NoPage
    BY <1>9, <2>2 DEF FaultTake, TypeOK, FirstFaultInv, Quiet
  <2> QED
    BY <2>1, <2>2
<1>10. CASE FaultValid(w)
  BY <1>10 DEF FaultValid, HandleReturns, TypeOK, ThreadInv, TransferInv, FirstFaultInv, Quiet,
     Fetching
<1>11. CASE FaultFetched(w)
  BY <1>11 DEF FaultFetched, HandleReturns, TypeOK, ThreadInv, TransferInv, FirstFaultInv, Quiet,
     Fetching
<1>12. CASE FaultNotConnected(w)
  BY <1>12 DEF FaultNotConnected, HandleReturns, TypeOK, ThreadInv, TransferInv, FirstFaultInv,
     Quiet, Fetching
<1>13. CASE FaultExpire(w)
  BY <1>13 DEF FaultExpire, TransferInv
<1>14. CASE FaultPend(w)
  BY <1>14 DEF FaultPend, TypeOK, ThreadInv, TransferInv, FirstFaultInv, Quiet, Fetching
<1>15. CASE FaultSend(w)
  BY <1>15 DEF FaultSend, TypeOK, ThreadInv, TransferInv, FirstFaultInv, Quiet, Fetching
<1>16. CASE FaultSleep(w)
  BY <1>16 DEF FaultSleep, TypeOK, ThreadInv, TransferInv, FirstFaultInv, Quiet, Fetching
<1>17. CASE FaultSpurious(w)
  BY <1>17 DEF FaultSpurious, TypeOK, ThreadInv, TransferInv, FirstFaultInv, Quiet, Fetching
<1>18. CASE FaultTimeout(w)
  BY <1>18 DEF FaultTimeout
<1>19. ASSUME NEW s \in {"pending", "handled"}, FaultStore(w, s) PROVE FirstFaultInv(w)'
  BY <1>19 DEF FaultStore, TypeOK, ThreadInv, TransferInv, FirstFaultInv, Quiet, Fetching
<1>20. CASE InstallOpen(w)
  BY <1>20 DEF InstallOpen, TypeOK, ThreadInv, TransferInv, FirstFaultInv, Quiet, Fetching
<1>21. CASE InstallCopy(w)
  BY <1>21 DEF InstallCopy, TypeOK, ThreadInv, TransferInv, FirstFaultInv, Quiet, Fetching
<1>22. CASE InstallShare(w)
  <2>1. Head(toWorker[w]).page \in Pages
    BY <1>22, AnswerAtHand DEF InstallShare, ThreadInv
  <2>2. state'[w][Head(toWorker[w]).page] = "SHARED"
    BY <1>22, <2>1 DEF InstallShare, TypeOK
  <2> QED
    BY <2>1, <2>2 DEF FirstFaultInv
<1>23. CASE InstallSignal(w)
  <2>1. Head(toWorker[w]).page \in Pages
    BY <1>23, AnswerAtHand DEF InstallSignal, ThreadInv
  <2>2. state'[w][Head(toWorker[w]).page] = "SHARED"
    BY <1>23, <2>1 DEF InstallSignal, TransferInv
  <2> QED
    BY <2>1, <2>2 DEF FirstFaultInv
<1>24. CASE PageSend(w)
  BY <1>24, PageSendFacts DEF FirstFaultInv, Quiet
<1> QED
  BY <1>1, <1>2, <1>3, <1>4, <1>5, <1>6, <1>7, <1>8, <1>9, <1>10, <1>11, <1>12, <1>13,
     <1>14, <1>15, <1>16, <1>17, <1>18, <1>19, <1>20, <1>21, <1>22, <1>23, <1>24
     DEF WorkerStep, AppCalls, AppStep, FaultStep, TcpStep

\* Nothing but the awaited page is on its way.
LEMMA TransferStep ==
  ASSUME TypeOK, NEW w \in Workers, ThreadInv(w), MappedInv(w), TransferInv(w),
         WorkerStep(w), w \in orderly'
  PROVE  TransferInv(w)'
<1> USE DEF handOver, appVars, ftVars, netVars, pageVars, masterVars
<1>1. ASSUME NEW p \in Pages, MapRemote(w, p) PROVE TransferInv(w)'
  BY <1>1 DEF MapRemote, TypeOK, ThreadInv, TransferInv, Awaited, Held, Fetching
<1>2. ASSUME NEW p \in Pages, NEW k \in Kinds, Access(w, p, k) PROVE TransferInv(w)'
  BY <1>2 DEF Access, TypeOK, ThreadInv, TransferInv, Awaited, Held, Fetching
<1>3. CASE Complete(w)
  BY <1>3 DEF Complete, TypeOK, ThreadInv, TransferInv, Awaited, Held, Fetching
<1>4. CASE Fault(w)
  BY <1>4 DEF Fault, TypeOK, ThreadInv, TransferInv, Awaited, Held, Fetching
<1>5. ASSUME NEW s \in {"pending", "handled"}, HandlerStore(w, s) PROVE TransferInv(w)'
  BY <1>5 DEF HandlerStore, TypeOK, ThreadInv, TransferInv, Awaited, Held, Fetching
<1>6. CASE HandlerSignal(w)
  BY <1>6 DEF HandlerSignal, TypeOK, ThreadInv, TransferInv, Awaited, Held, Fetching
<1>7. CASE HandlerReturn(w)
  BY <1>7 DEF HandlerReturn, TypeOK, ThreadInv, TransferInv, Awaited, Held, Fetching
<1>8. CASE FaultRead(w)
  BY <1>8 DEF FaultRead, TypeOK, ThreadInv, TransferInv, Awaited, Held, Fetching
<1>9. CASE FaultTake(w)
  <2>1. CASE pending[w] = NoPage
    BY <1>9, <2>1 DEF FaultTake, TypeOK, TransferInv, Awaited, Held
  <2>2. CASE pending[w] # NoPage
    BY <1>9, <2>2 DEF FaultTake, TypeOK, TransferInv, Awaited, Held
  <2> QED
    BY <2>1, <2>2
<1>10. CASE FaultValid(w)
  BY <1>10 DEF FaultValid, HandleReturns, TypeOK, ThreadInv, TransferInv, Awaited, Held, Fetching
<1>11. CASE FaultFetched(w)
  BY <1>11 DEF FaultFetched, HandleReturns, TypeOK, ThreadInv, TransferInv, Awaited, Held,
     Fetching
<1>12. CASE FaultNotConnected(w)
  BY <1>12 DEF FaultNotConnected, HandleReturns, TypeOK, ThreadInv, TransferInv, Awaited, Held,
     Fetching
<1>13. CASE FaultExpire(w)
  BY <1>13 DEF FaultExpire, TransferInv
<1>14. CASE FaultPend(w)
  BY <1>14 DEF FaultPend, TypeOK, ThreadInv, TransferInv, Awaited, Held, Fetching
<1>15. CASE FaultSend(w)
  BY <1>15 DEF FaultSend, TypeOK, ThreadInv, TransferInv, Awaited, Held, Fetching
<1>16. CASE FaultSleep(w)
  BY <1>16 DEF FaultSleep, TypeOK, ThreadInv, TransferInv, Awaited, Held, Fetching
<1>17. CASE FaultSpurious(w)
  BY <1>17 DEF FaultSpurious, TypeOK, ThreadInv, TransferInv, Awaited, Held, Fetching
<1>18. CASE FaultTimeout(w)
  BY <1>18 DEF FaultTimeout
<1>19. ASSUME NEW s \in {"pending", "handled"}, FaultStore(w, s) PROVE TransferInv(w)'
  BY <1>19 DEF FaultStore, TypeOK, ThreadInv, TransferInv, Awaited, Held, Fetching
<1>20. CASE InstallOpen(w)
  BY <1>20 DEF InstallOpen, TypeOK, ThreadInv, TransferInv, Awaited, Held, Fetching
<1>21. CASE InstallCopy(w)
  BY <1>21 DEF InstallCopy, TypeOK, ThreadInv, TransferInv, Awaited, Held, Fetching
<1>22. CASE InstallShare(w)
  <2>1. /\ Awaited(w) /\ fpage[w] \in Pages /\ Head(toWorker[w]).page = fpage[w]
        /\ Len(toWorker[w]) = 1 /\ toMaster[w] = <<>>
    BY <1>22, InstallAwaited DEF InstallShare, ThreadInv
  <2>2. state' = [state EXCEPT ![w][fpage[w]] = "SHARED"]
    BY <1>22, <2>1 DEF InstallShare
  <2>3. state'[w][fpage[w]] = "SHARED" /\ tcp'[w] = "shared"
    BY <1>22, <2>1, <2>2 DEF InstallShare, TypeOK
  <2> QED
    BY <1>22, <2>1, <2>2, <2>3 DEF InstallShare, TypeOK, TransferInv, Awaited, Held
<1>23. CASE InstallSignal(w)
  <2>1. /\ toWorker[w] # <<>> /\ Held(w) = 1 /\ Held(w)' = 0
        /\ tcp'[w] = "idle" /\ toWorker'[w] = Tail(toWorker[w])
    BY <1>23 DEF InstallSignal, ThreadInv, Held, TypeOK
  <2>2. /\ Len(toWorker[w]) \in Nat \ {0} /\ Len(Tail(toWorker[w])) = Len(toWorker[w]) - 1
        /\ \A i \in 1..Len(Tail(toWorker[w])) : Tail(toWorker[w])[i] = toWorker[w][i + 1]
    BY <2>1, AnswerAtHand
  <2>3. PICK k \in Nat \ {0} : Len(toWorker[w]) = k
    BY <2>2
  <2> DEFINE n == k - 1
  <2>n. n \in Nat /\ Len(Tail(toWorker[w])) = n
    BY <2>2, <2>3
  <2>4. \A i \in 1..n : toWorker'[w][i].page = fpage[w]
    <3> SUFFICES ASSUME NEW i \in 1..n PROVE toWorker'[w][i].page = fpage[w]
      OBVIOUS
    <3>1. i + 1 \in 1..k /\ i + 1 # 1
      BY <2>3
    <3> QED
      BY <2>1, <2>2, <2>3, <2>n, <3>1 DEF TransferInv
  <2>5. Awaited(w)' <=> Awaited(w)
    BY <1>23 DEF InstallSignal, Awaited, TypeOK
  <2>6. ~Awaited(w) => toMaster[w] = <<>> /\ k = 1
    BY <2>1, <2>3 DEF TransferInv
  <2>7. Awaited(w) => \/ Len(toMaster[w]) = 1 /\ k = 1
                      \/ toMaster[w] = <<>> /\ k = 1 + 1
    <3>1. Awaited(w) => \/ Len(toMaster[w]) = 1 /\ Len(toWorker[w]) = Held(w)
                        \/ toMaster[w] = <<>> /\ Len(toWorker[w]) = 1 + Held(w)
      BY DEF TransferInv
    <3> QED
      BY <2>1, <2>3, <3>1
  <2>8. k = 1 => n = 0
    OBVIOUS
  <2>9. k = 1 + 1 => n = 1
    OBVIOUS
  <2> HIDE DEF n
  <2> QED
    BY <1>23, <2>1, <2>n, <2>4, <2>5, <2>6, <2>7, <2>8, <2>9, SMTT(30)
       DEF InstallSignal, TypeOK, TransferInv
<1>24. CASE PageSend(w)
  <2>1. /\ Awaited(w) /\ fpage[w] \in Pages /\ Tail(toMaster[w]) = <<>>
        /\ Head(toMaster[w]) = fpage[w] /\ Len(toWorker[w]) = Held(w)
    BY <1>24, RequestAwaited DEF PageSend
  <2>2. allocated[fpage[w]]
    BY <2>1 DEF Awaited, MappedInv
  <2>3. PICK e \in Answers :
          /\ e.page = fpage[w] /\ toWorker'[w] = Append(toWorker[w], e)
    <3> DEFINE e == [page |-> fpage[w], data |-> content[fpage[w]]]
    <3>1. e \in Answers /\ e.page = fpage[w]
      BY <2>1 DEF Answers, TypeOK
    <3>2. toWorker'[w] = Append(toWorker[w], e)
      <4>1. toWorker' = [toWorker EXCEPT ![w] = Append(toWorker[w], e)]
        BY <1>24, <2>1, <2>2, PageSendFacts
      <4> QED
        BY <4>1 DEF TypeOK
    <3> QED
      BY <3>1, <3>2
  <2>4. PICK n \in Nat : n = Len(toWorker[w]) /\ n = Held(w)
    BY <2>1, AnswerType
  <2>5. /\ Len(toWorker'[w]) = n + 1 /\ toWorker'[w][n + 1] = e
        /\ \A i \in 1..n : toWorker'[w][i] = toWorker[w][i]
    <3>1. toWorker[w] \in Seq(Answers)
      BY AnswerType
    <3>2. /\ Len(Append(toWorker[w], e)) = Len(toWorker[w]) + 1
          /\ \A i \in 1..Len(toWorker[w]) : Append(toWorker[w], e)[i] = toWorker[w][i]
          /\ Append(toWorker[w], e)[Len(toWorker[w]) + 1] = e
      BY <3>1, AppendProperties
    <3> QED
      BY <2>3, <2>4, <3>2
  <2>6. \A i \in 1..Len(toWorker'[w]) :
          toWorker'[w][i].page = fpage[w] \/ (i = 1 /\ tcp[w] = "shared")
    <3> SUFFICES ASSUME NEW i \in 1..(n + 1)
                 PROVE  toWorker'[w][i].page = fpage[w] \/ (i = 1 /\ tcp[w] = "shared")
      BY <2>5
    <3>1. CASE i = n + 1
      BY <2>3, <2>5, <3>1
    <3>2. CASE i \in 1..n
      BY <2>4, <2>5, <3>2 DEF TransferInv
    <3> QED
      BY <3>1, <3>2
  <2>7. tcp[w] = "shared" => Head(toWorker'[w]) = Head(toWorker[w])
    <3> SUFFICES ASSUME tcp[w] = "shared" PROVE Head(toWorker'[w]) = Head(toWorker[w])
      OBVIOUS
    <3>1. toWorker[w] # <<>> /\ n = 1
      BY <2>4 DEF ThreadInv, Held
    <3>2. Head(toWorker[w]) = toWorker[w][1] /\ toWorker'[w][1] = toWorker[w][1]
      BY <2>5, <3>1, AnswerAtHand
    <3>3. Head(toWorker'[w]) = toWorker'[w][1]
      BY <2>3, AnswerType, AppendProperties
    <3> QED
      BY <3>2, <3>3
  <2>8. /\ toMaster'[w] = <<>> /\ Len(toWorker'[w]) = 1 + Held(w)
        /\ Awaited(w)' /\ Held(w)' = Held(w)
    BY <1>24, <2>1, <2>4, <2>5 DEF PageSend, Awaited, Held, TypeOK
  <2>9. Len(toMaster'[w]) = 0
    BY <2>8
  <2> QED
    BY <1>24, <2>6, <2>7, <2>8, <2>9 DEF PageSend, TransferInv
<1> QED
  BY <1>1, <1>2, <1>3, <1>4, <1>5, <1>6, <1>7, <1>8, <1>9, <1>10, <1>11, <1>12, <1>13,
     <1>14, <1>15, <1>16, <1>17, <1>18, <1>19, <1>20, <1>21, <1>22, <1>23, <1>24
     DEF WorkerStep, AppCalls, AppStep, FaultStep, TcpStep

-----------------------------------------------------------------------------
LEMMA FetchInit == Init => FetchInv
<1> SUFFICES ASSUME Init, NEW w \in Workers
             PROVE  MappedInv(w) /\ TransferInv(w) /\ FirstFaultInv(w)
  BY PagingInit DEF FetchInv, Init
<1>1. toWorker[w] = <<>> /\ Len(toWorker[w]) = 0 /\ toMaster[w] = <<>> /\ Len(toMaster[w]) = 0
  BY DEF Init, Each
<1>2. MappedInv(w)
  BY DEF Init, Each, MappedInv, Fetching
<1>3. TransferInv(w)
  BY <1>1 DEF Init, Each, TransferInv, Awaited, Held
<1>4. FirstFaultInv(w)
  BY DEF Init, Each, FirstFaultInv, Quiet
<1> QED
  BY <1>2, <1>3, <1>4

\* A worker whose state stays keeps its invariants; the owner only ever allocates.
LEMMA FetchFrame ==
  ASSUME NEW v \in Workers, Untouched(v), \A p \in Pages : allocated[p] => allocated'[p],
         MappedInv(v), TransferInv(v), FirstFaultInv(v)
  PROVE  MappedInv(v)' /\ TransferInv(v)' /\ FirstFaultInv(v)'
<1>1. MappedInv(v)'
  BY DEF Untouched, MappedInv
<1>2. TransferInv(v)'
  BY DEF Untouched, TransferInv, Awaited, Held
<1>3. FirstFaultInv(v)'
  BY DEF Untouched, FirstFaultInv, Quiet
<1> QED
  BY <1>1, <1>2, <1>3

\* A worker that has given up a wait, or mapped a page too early, stays marked.
LEMMA OrderlyShrinks ==
  ASSUME [Next]_vars
  PROVE  orderly' \subseteq orderly
<1>1. ASSUME NEW w \in Workers, NEW p \in Pages, MapRemote(w, p)
      PROVE  orderly' \subseteq orderly
  BY <1>1 DEF MapRemote
<1>2. ASSUME NEW w \in Workers, FaultTimeout(w) PROVE orderly' \subseteq orderly
  BY <1>2 DEF FaultTimeout
<1>3. ASSUME NEW p \in Pages, MasterAlloc(p) \/ MasterWrite(p) PROVE orderly' = orderly
  BY <1>3 DEF MasterAlloc, MasterWrite
<1>4. ASSUME NEW w \in Workers, NEW p \in Pages, NEW k \in Kinds, Access(w, p, k)
      PROVE  orderly' = orderly
  BY <1>4 DEF Access
<1>5. ASSUME NEW w \in Workers, AppStep(w) PROVE orderly' = orderly
  BY <1>5 DEF AppStep, Complete, Fault, HandlerSignal, HandlerReturn, HandlerStore
<1>6. ASSUME NEW w \in Workers, FaultStep(w) \/ FaultSpurious(w) PROVE orderly' = orderly
  BY <1>6 DEF FaultStep, FaultSpurious, FaultRead, FaultTake, FaultValid, FaultPend, FaultSend,
     FaultNotConnected, FaultSleep, FaultFetched, FaultExpire, FaultStore
<1>7. ASSUME NEW w \in Workers, TcpStep(w) \/ PageSend(w) PROVE orderly' = orderly
  BY <1>7 DEF TcpStep, InstallOpen, InstallCopy, InstallShare, InstallSignal, PageSend
<1>8. CASE UNCHANGED vars
  BY <1>8 DEF vars
<1> QED
  BY <1>1, <1>2, <1>3, <1>4, <1>5, <1>6, <1>7, <1>8 DEF Next, MasterNext, AppCalls

LEMMA FetchStep ==
  ASSUME FetchInv, [Next]_vars
  PROVE  FetchInv'
<1>0. orderly \subseteq Workers /\ orderly' \subseteq orderly
  BY OrderlyShrinks DEF FetchInv, PagingInv, TypeOK
<1> SUFFICES ASSUME NEW v \in orderly'
             PROVE  MappedInv(v)' /\ TransferInv(v)' /\ FirstFaultInv(v)'
  BY PagingStep DEF FetchInv
<1>1. /\ v \in Workers
      /\ TypeOK /\ ThreadInv(v) /\ MappedInv(v) /\ TransferInv(v) /\ FirstFaultInv(v)
  BY <1>0 DEF FetchInv, PagingInv
<1>2. CASE UNCHANGED vars
  <2>1. Untouched(v) /\ allocated' = allocated
    BY <1>2 DEF vars, Untouched
  <2> QED
    BY <1>1, <2>1, FetchFrame
<1>3. ASSUME NEW p \in Pages, MasterAlloc(p) \/ MasterWrite(p)
      PROVE  MappedInv(v)' /\ TransferInv(v)' /\ FirstFaultInv(v)'
  <2>1. Untouched(v)
    BY <1>3 DEF MasterAlloc, MasterWrite, Untouched, pageVars, handOver, appVars, ftVars,
       netVars
  <2>2. \A q \in Pages : allocated[q] => allocated'[q]
    BY <1>1, <1>3 DEF MasterAlloc, MasterWrite, TypeOK
  <2> QED
    BY <1>1, <2>1, <2>2, FetchFrame
<1>4. ASSUME NEW w \in Workers, WorkerStep(w)
      PROVE  MappedInv(v)' /\ TransferInv(v)' /\ FirstFaultInv(v)'
  <2>1. CASE v = w
    BY <1>1, <1>4, <2>1, MappedStep, TransferStep, FirstFaultStep
  <2>2. CASE v # w
    <3>1. Untouched(v)
      BY <1>1, <1>4, <2>2, OthersUntouched
    <3>2. allocated' = allocated
      BY <1>4, AppFrame, FaultFrame DEF WorkerStep, TcpStep, PageSend, InstallOpen,
         InstallCopy, InstallShare, InstallSignal, masterVars
    <3> QED
      BY <1>1, <3>1, <3>2, FetchFrame
  <2> QED
    BY <2>1, <2>2
<1> QED
  BY <1>2, <1>3, <1>4 DEF Next, MasterNext, WorkerStep

\* The inductive invariant of fetching, for workers no wait of which has expired and
\* that mapped what had been allocated.
THEOREM FetchInvariant == Spec => []FetchInv
<1>1. FetchInv /\ [Next]_vars => FetchInv'
  BY FetchStep
<1> QED
  BY <1>1, FetchInit, PTL DEF Spec

-----------------------------------------------------------------------------
(* A page is fetched once *)

\* Whatever is on its way is awaited, but for the answer just installed.
LEMMA OnItsWay ==
  ASSUME FetchInv, NEW w \in orderly
  PROVE  /\ Len(toMaster[w]) \in Nat /\ Len(toWorker[w]) \in Nat
         /\ \A i \in 1..Len(toMaster[w]) : Awaited(w) /\ toMaster[w][i] = fpage[w]
         /\ \A i \in 1..Len(toWorker[w]) :
              \/ /\ i = 1 /\ tcp[w] = "shared" /\ toWorker[w][i] = Head(toWorker[w])
                 /\ state[w][toWorker[w][i].page] = "SHARED"
              \/ Awaited(w) /\ toWorker[w][i].page = fpage[w]
<1>1. w \in Workers /\ TypeOK /\ ThreadInv(w) /\ TransferInv(w)
  BY DEF FetchInv, PagingInv, TypeOK
<1>2. Len(toMaster[w]) \in Nat /\ Len(toWorker[w]) \in Nat
  BY <1>1, AnswerType DEF TypeOK
<1>3. ASSUME NEW i \in 1..Len(toMaster[w]) PROVE Awaited(w) /\ toMaster[w][i] = fpage[w]
  <2>1. toMaster[w] # <<>>
    BY <1>2
  <2> QED
    BY <1>1, <2>1 DEF TransferInv
<1>4. ASSUME NEW i \in 1..Len(toWorker[w])
      PROVE  \/ /\ i = 1 /\ tcp[w] = "shared" /\ toWorker[w][i] = Head(toWorker[w])
                /\ state[w][toWorker[w][i].page] = "SHARED"
             \/ Awaited(w) /\ toWorker[w][i].page = fpage[w]
  <2>1. CASE i = 1 /\ tcp[w] = "shared"
    <3>1. Head(toWorker[w]) = toWorker[w][i]
      BY <1>1, <2>1, AnswerAtHand DEF ThreadInv
    <3> QED
      BY <1>1, <2>1, <3>1 DEF TransferInv
  <2>2. CASE ~(i = 1 /\ tcp[w] = "shared")
    <3>1. toWorker[w][i].page = fpage[w]
      BY <1>1, <2>2 DEF TransferInv
    <3>2. Awaited(w)
      <4>1. ~Awaited(w) => Len(toWorker[w]) = Held(w)
        BY <1>1 DEF TransferInv
      <4> QED
        BY <2>2, <4>1 DEF Held
    <3> QED
      BY <3>1, <3>2
  <2> QED
    BY <2>1, <2>2
<1> QED
  BY <1>2, <1>3, <1>4

LEMMA FetchInvOnce == FetchInv => FetchedOnce
<1> SUFFICES ASSUME FetchInv, NEW w \in orderly, NEW p \in Pages
             PROVE  /\ state[w][p] \in {"UNMAPPED", "INVALID"} => InFlight(w, p) = 0
                    /\ state[w][p] = "PENDING" =>
                         InFlight(w, p) = IF ft[w] = "send" /\ fpage[w] = p THEN 0 ELSE 1
                    /\ state[w][p] = "SHARED" =>
                         InFlight(w, p) = IF tcp[w] = "shared" /\ Head(toWorker[w]).page = p
                                          THEN 1 ELSE 0
  BY DEF FetchedOnce
<1> DEFINE A == {i \in 1..Len(toMaster[w]) : toMaster[w][i] = p}
<1> DEFINE B == {i \in 1..Len(toWorker[w]) : toWorker[w][i].page = p}
<1>1. w \in Workers /\ TypeOK /\ ThreadInv(w) /\ TransferInv(w)
  BY DEF FetchInv, PagingInv, TypeOK
<1>2. InFlight(w, p) = Cardinality(A) + Cardinality(B)
  BY DEF InFlight
<1>3. A # {} \/ (B # {} /\ state[w][p] # "SHARED") => Awaited(w) /\ p = fpage[w]
  BY OnItsWay
<1>4. B # {} /\ state[w][p] = "SHARED" =>
        tcp[w] = "shared" /\ Head(toWorker[w]).page = p /\ B = {1}
  BY OnItsWay DEF Awaited
<1>5. tcp[w] = "shared" /\ Head(toWorker[w]).page = p => 1 \in B
  BY <1>1, AnswerAtHand DEF ThreadInv
<1>6. Awaited(w) /\ p = fpage[w] => \/ A = {1} /\ B = {}
                                    \/ A = {} /\ \E i : B = {i}
  <2> SUFFICES ASSUME Awaited(w), p = fpage[w]
               PROVE  (A = {1} /\ B = {}) \/ (A = {} /\ \E i : B = {i})
    OBVIOUS
  <2>0. tcp[w] = "shared" => 1 \notin B
    BY <1>1, AnswerAtHand DEF ThreadInv, TransferInv, Awaited
  <2>1. CASE Len(toMaster[w]) = 1 /\ Len(toWorker[w]) = Held(w)
    <3>1. A = {1}
      BY <2>1, OnItsWay
    <3>2. B = {}
      BY <2>0, <2>1 DEF Held
    <3> QED
      BY <3>1, <3>2
  <2>2. CASE toMaster[w] = <<>> /\ Len(toWorker[w]) = 1 + Held(w)
    <3>1. A = {}
      BY <2>2
    <3>2. CASE tcp[w] = "shared"
      <4>1. Len(toWorker[w]) = 2
        BY <2>2, <3>2 DEF Held
      <4>2. 2 \in B
        BY <1>1, <3>2, <4>1 DEF TransferInv
      <4>3. B = {2}
        BY <2>0, <3>2, <4>1, <4>2
      <4> QED
        BY <3>1, <4>3
    <3>3. CASE tcp[w] # "shared"
      <4>1. Len(toWorker[w]) = 1
        BY <2>2, <3>3 DEF Held
      <4>2. B = {1}
        BY <1>1, <3>3, <4>1 DEF TransferInv
      <4> QED
        BY <3>1, <4>2
    <3> QED
      BY <3>2, <3>3
  <2> QED
    BY <1>1, <2>1, <2>2 DEF TransferInv
<1>7. A = {} => Cardinality(A) = 0
  BY FS_EmptySet
<1>8. B = {} => Cardinality(B) = 0
  BY FS_EmptySet
<1>9. A = {1} => Cardinality(A) = 1
  BY FS_Singleton
<1>10. ASSUME NEW i, B = {i} PROVE Cardinality(B) = 1
  BY <1>10, FS_Singleton
<1> HIDE DEF A, B
<1>11. CASE state[w][p] \in {"UNMAPPED", "INVALID"}
  <2>1. A = {} /\ B = {}
    BY <1>3, <1>11 DEF Awaited
  <2> QED
    BY <1>2, <1>7, <1>8, <1>11, <2>1
<1>12. CASE state[w][p] = "PENDING"
  <2>1. p = fpage[w] /\ ft[w] \in {"send", "check", "asleep"}
    BY <1>1, <1>12 DEF TransferInv
  <2>2. CASE ft[w] = "send"
    <3>1. A = {} /\ B = {}
      BY <1>3, <1>12, <2>2 DEF Awaited
    <3> QED
      BY <1>2, <1>7, <1>8, <1>12, <2>1, <2>2, <3>1
  <2>3. CASE ft[w] # "send"
    <3>1. (A = {1} /\ B = {}) \/ (A = {} /\ \E i : B = {i})
      BY <1>6, <1>12, <2>1, <2>3 DEF Awaited
    <3>2. \/ Cardinality(A) = 1 /\ Cardinality(B) = 0
          \/ Cardinality(A) = 0 /\ Cardinality(B) = 1
      BY <1>7, <1>8, <1>9, <1>10, <3>1
    <3> QED
      BY <1>2, <1>12, <2>3, <3>2
  <2> QED
    BY <2>2, <2>3
<1>13. CASE state[w][p] = "SHARED"
  <2>1. A = {}
    BY <1>3, <1>13 DEF Awaited
  <2>2. CASE tcp[w] = "shared" /\ Head(toWorker[w]).page = p
    <3>1. B = {1}
      BY <1>4, <1>5, <1>13, <2>2
    <3> QED
      BY <1>2, <1>7, <1>10, <1>13, <2>1, <2>2, <3>1
  <2>3. CASE ~(tcp[w] = "shared" /\ Head(toWorker[w]).page = p)
    <3>1. B = {}
      BY <1>4, <1>13, <2>3
    <3> QED
      BY <1>2, <1>7, <1>8, <1>13, <2>1, <2>3, <3>1
  <2> QED
    BY <2>2, <2>3
<1> QED
  BY <1>1, <1>11, <1>12, <1>13 DEF TypeOK

\* Until a wait expires, a page is requested once, whatever the threads of the worker
\* interleave: there is one request or answer while it is PENDING and none after.
THEOREM FetchOnce == Spec => []FetchedOnce
<1> QED
  BY FetchInvariant, FetchInvOnce, PTL

-----------------------------------------------------------------------------
(* The first page is hidden while it is being filled *)

\* Until the first page of a worker is SHARED, installations happen while its
\* application is in the handler.
LEMMA FirstInstallHidden ==
  ASSUME FetchInv, NEW w \in orderly, NEW p \in Pages, app[w] = "run",
         \A q \in Pages : state[w][q] # "SHARED"
  PROVE  PageLockFree(w, p)
<1> SUFFICES ASSUME tcp[w] \in {"open", "copied"} PROVE FALSE
  BY DEF PageLockFree
<1>1. w \in Workers /\ TypeOK /\ ThreadInv(w) /\ TransferInv(w) /\ FirstFaultInv(w)
  BY DEF FetchInv, PagingInv, TypeOK
<1>2. Awaited(w)
  BY <1>1, InstallAwaited DEF ThreadInv
<1>3. Quiet(w)
  BY <1>1 DEF FirstFaultInv
<1> QED
  BY <1>2, <1>3 DEF Awaited, Quiet

\* As long as a worker has fetched no page and given up on none, its application never finds one writable
\* outside the handler, for any number of pages it may be working on.
THEOREM FetchFirstHidden == Spec => []FirstFetchHidden
<1>1. FetchInv => FirstFetchHidden
  BY FirstInstallHidden DEF FetchInv, PagingInv, TypeOK, PagesSettled, FirstFetchHidden
<1> QED
  BY <1>1, FetchInvariant, PTL
=============================================================================
