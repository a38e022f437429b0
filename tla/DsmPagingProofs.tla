--------------------------- MODULE DsmPagingProofs ---------------------------
(***************************************************************************)
(* Theorems about DsmPaging that hold in every setting: with waits that    *)
(* expire, retries, late answers and pages that are mapped too early.      *)
(***************************************************************************)
EXTENDS DsmPaging, SequenceTheorems, FiniteSetTheorems, TLAPS

Threads == \A w \in Workers : ThreadInv(w)

-----------------------------------------------------------------------------
(* Types *)

\* What PageSend does: an answer with the owner's present content, or nothing.
LEMMA PageSendFacts ==
  ASSUME TypeOK, NEW w \in Workers, PageSend(w)
  PROVE  /\ toMaster[w] \in Seq(Pages) /\ toMaster[w] # <<>>
         /\ Head(toMaster[w]) \in Pages /\ Tail(toMaster[w]) \in Seq(Pages)
         /\ toMaster' = [toMaster EXCEPT ![w] = Tail(toMaster[w])]
         /\ \/ /\ allocated[Head(toMaster[w])]
               /\ toWorker' = [toWorker EXCEPT ![w] = Append(toWorker[w],
                     [page |-> Head(toMaster[w]), data |-> content[Head(toMaster[w])]])]
            \/ ~allocated[Head(toMaster[w])] /\ toWorker' = toWorker
         /\ UNCHANGED <<masterVars, orderly, pageVars, handOver, appVars, ftVars, tcp, linked>>
<1>1. toMaster[w] \in Seq(Pages) /\ toMaster[w] # <<>>
  BY DEF PageSend, TypeOK
<1>2. Head(toMaster[w]) \in Pages /\ Tail(toMaster[w]) \in Seq(Pages)
  BY <1>1, HeadTailProperties
<1> QED
  BY <1>1, <1>2 DEF PageSend

\* The answer the TCP thread has at hand.
Answers == [page : Pages, data : Nat]
LEMMA AnswerAtHand ==
  ASSUME TypeOK, NEW w \in Workers, toWorker[w] # <<>>
  PROVE  /\ toWorker[w] \in Seq(Answers) /\ Len(toWorker[w]) \in Nat \ {0}
         /\ Head(toWorker[w]) = toWorker[w][1]
         /\ Head(toWorker[w]) \in Answers
         /\ Head(toWorker[w]).page \in Pages /\ Head(toWorker[w]).data \in Nat
         /\ Tail(toWorker[w]) \in Seq(Answers)
         /\ Len(Tail(toWorker[w])) = Len(toWorker[w]) - 1
         /\ \A i \in 1..Len(Tail(toWorker[w])) : Tail(toWorker[w])[i] = toWorker[w][i + 1]
<1>1. toWorker[w] \in Seq(Answers)
  BY DEF TypeOK, Answers
<1>2. Head(toWorker[w]) \in Answers
  BY <1>1, HeadTailProperties
<1>3. Head(toWorker[w]).page \in Pages /\ Head(toWorker[w]).data \in Nat
  BY <1>2 DEF Answers
<1>4. /\ Tail(toWorker[w]) \in Seq(Answers)
      /\ Len(Tail(toWorker[w])) = Len(toWorker[w]) - 1
      /\ \A i \in 1..Len(Tail(toWorker[w])) : Tail(toWorker[w])[i] = toWorker[w][i + 1]
  BY <1>1, HeadTailProperties
<1>5. Len(toWorker[w]) \in Nat \ {0} /\ Head(toWorker[w]) = toWorker[w][1]
  BY <1>1, EmptySeq
<1> QED
  BY <1>1, <1>2, <1>3, <1>4, <1>5

LEMMA AnswerType ==
  ASSUME TypeOK, NEW w \in Workers
  PROVE  /\ toWorker[w] \in Seq(Answers) /\ Len(toWorker[w]) \in Nat
         /\ \A i \in 1..Len(toWorker[w]) :
              toWorker[w][i].page \in Pages /\ toWorker[w][i].data \in Nat
<1>1. toWorker[w] \in Seq(Answers)
  BY DEF TypeOK, Answers
<1>2. \A i \in 1..Len(toWorker[w]) : toWorker[w][i] \in Answers
  BY <1>1, ElementOfSeq
<1> QED
  BY <1>1, <1>2 DEF Answers

\* ... and to the connection of worker v.
LEMMA PageSendAppends ==
  ASSUME TypeOK, NEW w \in Workers, PageSend(w), NEW v \in Workers
  PROVE  \/ toWorker'[v] = toWorker[v]
         \/ /\ v = w
            /\ \E e \in Answers :
                 /\ e.page = Head(toMaster[w]) /\ e.page \in Pages
                 /\ e.data = content[e.page] /\ allocated[e.page]
                 /\ toWorker'[v] = Append(toWorker[v], e)
                 /\ toWorker'[v] # <<>> /\ Len(toWorker'[v]) = Len(toWorker[v]) + 1
                 /\ \A i \in 1..Len(toWorker[v]) : toWorker'[v][i] = toWorker[v][i]
                 /\ toWorker'[v][Len(toWorker[v]) + 1] = e
<1> DEFINE e == [page |-> Head(toMaster[w]), data |-> content[Head(toMaster[w])]]
<1>1. e \in Answers /\ toWorker[v] \in Seq(Answers)
  BY PageSendFacts DEF TypeOK, Answers
<1>2. CASE toWorker' = toWorker \/ v # w
  <2>1. \/ toWorker' = toWorker
        \/ toWorker' = [toWorker EXCEPT ![w] = Append(toWorker[w], e)]
    BY PageSendFacts
  <2> HIDE DEF e
  <2> QED
    BY <1>2, <2>1 DEF TypeOK
<1>3. CASE toWorker' # toWorker /\ v = w
  <2>1. allocated[e.page] /\ toWorker' = [toWorker EXCEPT ![w] = Append(toWorker[w], e)]
    BY <1>3, PageSendFacts
  <2>2. toWorker'[v] = Append(toWorker[v], e)
    BY <1>3, <2>1 DEF TypeOK
  <2>3. /\ toWorker'[v] # <<>> /\ Len(toWorker'[v]) = Len(toWorker[v]) + 1
        /\ \A i \in 1..Len(toWorker[v]) : toWorker'[v][i] = toWorker[v][i]
        /\ toWorker'[v][Len(toWorker[v]) + 1] = e
    BY <1>1, <2>2, AppendProperties
  <2>4. e.page = Head(toMaster[w]) /\ e.page \in Pages /\ e.data = content[e.page]
    BY PageSendFacts
  <2> HIDE DEF e
  <2> QED
    BY <1>1, <1>3, <2>1, <2>2, <2>3, <2>4
<1> QED
  BY <1>2, <1>3

LEMMA TypeStep ==
  ASSUME TypeOK, Threads, Next
  PROVE  TypeOK'
<1> USE DEF handOver, appVars, ftVars, netVars, pageVars, masterVars
<1>1. ASSUME NEW p \in Pages, MasterAlloc(p) PROVE TypeOK'
  BY <1>1 DEF MasterAlloc, TypeOK
<1>2. ASSUME NEW p \in Pages, MasterWrite(p) PROVE TypeOK'
  BY <1>2 DEF MasterWrite, TypeOK
<1>3. ASSUME NEW w \in Workers, NEW p \in Pages, MapRemote(w, p) PROVE TypeOK'
  BY <1>3 DEF MapRemote, TypeOK
<1>4. ASSUME NEW w \in Workers, NEW p \in Pages, NEW k \in Kinds, Access(w, p, k)
      PROVE  TypeOK'
  BY <1>4 DEF Access, TypeOK
<1>5. ASSUME NEW w \in Workers, Complete(w) PROVE TypeOK'
  BY <1>5 DEF Complete, TypeOK
<1>6. ASSUME NEW w \in Workers, Fault(w) PROVE TypeOK'
  BY <1>6 DEF Fault, TypeOK
<1>7. ASSUME NEW w \in Workers, NEW s \in {"pending", "handled"}, HandlerStore(w, s)
      PROVE  TypeOK'
  <2>1. want[w][1] \in Pages
    BY <1>7 DEF HandlerStore, Threads, ThreadInv, TypeOK
  <2>2. CASE s = "pending"
    BY <1>7, <2>1, <2>2 DEF HandlerStore, TypeOK
  <2>3. CASE s = "handled"
    BY <1>7, <2>3 DEF HandlerStore, TypeOK
  <2> QED
    BY <2>2, <2>3
<1>8. ASSUME NEW w \in Workers, HandlerSignal(w) PROVE TypeOK'
  BY <1>8 DEF HandlerSignal, TypeOK
<1>9. ASSUME NEW w \in Workers, HandlerReturn(w) PROVE TypeOK'
  BY <1>9 DEF HandlerReturn, TypeOK
<1>10. ASSUME NEW w \in Workers, FaultRead(w) PROVE TypeOK'
  BY <1>10 DEF FaultRead, TypeOK
<1>11. ASSUME NEW w \in Workers, FaultTake(w) PROVE TypeOK'
  <2>1. CASE pending[w] = NoPage
    BY <1>11, <2>1 DEF FaultTake, TypeOK
  <2>2. CASE pending[w] # NoPage
    <3>1. /\ fpage' = [fpage EXCEPT ![w] = pending[w]] /\ ft' = [ft EXCEPT ![w] = "look"]
          /\ UNCHANGED <<masterVars, orderly, pageVars, handOver, appVars, ftStores, tcp, netVars>>
      BY <1>11, <2>2 DEF FaultTake
    <3> QED
      BY <3>1 DEF TypeOK
  <2> QED
    BY <2>1, <2>2
<1>12. ASSUME NEW w \in Workers, FaultValid(w) PROVE TypeOK'
  BY <1>12 DEF FaultValid, HandleReturns, TypeOK
<1>13. ASSUME NEW w \in Workers, FaultFetched(w) PROVE TypeOK'
  BY <1>13 DEF FaultFetched, HandleReturns, TypeOK
<1>14. ASSUME NEW w \in Workers, FaultNotConnected(w) PROVE TypeOK'
  BY <1>14 DEF FaultNotConnected, HandleReturns, TypeOK
<1>15. ASSUME NEW w \in Workers, FaultExpire(w) PROVE TypeOK'
  BY <1>15 DEF FaultExpire, HandleReturns, TypeOK
<1>16. ASSUME NEW w \in Workers, FaultPend(w) PROVE TypeOK'
  BY <1>16 DEF FaultPend, TypeOK
<1>17. ASSUME NEW w \in Workers, FaultSend(w) PROVE TypeOK'
  <2>1. fpage[w] \in Pages
    BY <1>17 DEF FaultSend, Threads, ThreadInv, Fetching
  <2>2. toMaster' \in [Workers -> Seq(Pages)]
    BY <1>17, <2>1 DEF FaultSend, TypeOK
  <2> QED
    BY <1>17, <2>2 DEF FaultSend, TypeOK
<1>18. ASSUME NEW w \in Workers, FaultSleep(w) PROVE TypeOK'
  BY <1>18 DEF FaultSleep, TypeOK
<1>19. ASSUME NEW w \in Workers, FaultSpurious(w) PROVE TypeOK'
  BY <1>19 DEF FaultSpurious, TypeOK
<1>20. ASSUME NEW w \in Workers, FaultTimeout(w) PROVE TypeOK'
  BY <1>20 DEF FaultTimeout, TypeOK
<1>21. ASSUME NEW w \in Workers, NEW s \in {"pending", "handled"}, FaultStore(w, s)
       PROVE  TypeOK'
  BY <1>21 DEF FaultStore, TypeOK
<1>22. ASSUME NEW w \in Workers, InstallOpen(w) PROVE TypeOK'
  BY <1>22 DEF InstallOpen, TypeOK
<1>23. ASSUME NEW w \in Workers, InstallCopy(w) PROVE TypeOK'
  <2>1. PICK e \in Answers : e = Head(toWorker[w])
    BY <1>23, AnswerAtHand DEF InstallCopy, Threads, ThreadInv
  <2>2. copy' = [copy EXCEPT ![w][e.page] = e.data] 
    BY <1>23, <2>1 DEF InstallCopy
  <2>3. e.page \in Pages /\ e.data \in Nat \cup {Unfetched}
    BY DEF Answers
  <2>4. /\ tcp' = [tcp EXCEPT ![w] = "copied"]
        /\ UNCHANGED <<masterVars, orderly, state, prot, handOver, appVars, ftVars, netVars>>
    BY <1>23 DEF InstallCopy
  <2> QED
    BY <2>2, <2>3, <2>4 DEF TypeOK
<1>24. ASSUME NEW w \in Workers, InstallShare(w) PROVE TypeOK'
  BY <1>24 DEF InstallShare, TypeOK
<1>25. ASSUME NEW w \in Workers, InstallSignal(w) PROVE TypeOK'
  <2>1. toWorker[w] # <<>>
    BY <1>25 DEF InstallSignal, Threads, ThreadInv
  <2>2. Tail(toWorker[w]) \in Seq([page : Pages, data : Nat])
    BY <2>1, AnswerAtHand DEF Answers
  <2>3. toWorker' \in [Workers -> Seq([page : Pages, data : Nat])]
    BY <1>25, <2>2 DEF InstallSignal, TypeOK
  <2>4. ft' \in [Workers -> {"idle", "take", "look", "send", "check", "asleep",
                             "expired", "done"}]
    BY <1>25 DEF InstallSignal, TypeOK
  <2> QED
    BY <1>25, <2>3, <2>4 DEF InstallSignal, TypeOK
<1>26. ASSUME NEW w \in Workers, PageSend(w) PROVE TypeOK'
  <2>1. toMaster' \in [Workers -> Seq(Pages)]
    <3>1. /\ Tail(toMaster[w]) \in Seq(Pages)
          /\ toMaster' = [toMaster EXCEPT ![w] = Tail(toMaster[w])]
      BY <1>26, PageSendFacts
    <3> QED
      BY <3>1 DEF TypeOK
  <2>2. toWorker' \in [Workers -> Seq([page : Pages, data : Nat])]
    <3> DEFINE e == [page |-> Head(toMaster[w]), data |-> content[Head(toMaster[w])]]
    <3>1. toWorker' = [toWorker EXCEPT ![w] = Append(toWorker[w], e)] \/ toWorker' = toWorker
      BY <1>26, PageSendFacts
    <3>2. e \in [page : Pages, data : Nat]
      BY <1>26, PageSendFacts DEF TypeOK
    <3>3. Append(toWorker[w], e) \in Seq([page : Pages, data : Nat])
      BY <3>2, AppendProperties DEF TypeOK
    <3> QED
      BY <3>1, <3>3 DEF TypeOK
  <2> QED
    BY <1>26, <2>1, <2>2 DEF PageSend, TypeOK
<1> QED
  BY <1>1, <1>2, <1>3, <1>4, <1>5, <1>6, <1>7, <1>8, <1>9, <1>10, <1>11, <1>12, <1>13,
     <1>14, <1>15, <1>16, <1>17, <1>18, <1>19, <1>20, <1>21, <1>22, <1>23, <1>24, <1>25,
     <1>26 DEF Next, MasterNext, AppCalls, AppStep, FaultStep, TcpStep

-----------------------------------------------------------------------------
(* The hand-over between the threads *)

\* Which stores, pages and messages a thread has at hand where it is.
LEMMA ThreadStep ==
  ASSUME TypeOK, Threads, Next, NEW v \in Workers
  PROVE  ThreadInv(v)'
<1> USE DEF handOver, appVars, ftVars, netVars, pageVars, masterVars
<1>1. ASSUME NEW p \in Pages, MasterAlloc(p) PROVE ThreadInv(v)'
  BY <1>1 DEF MasterAlloc, Threads, ThreadInv, TypeOK, Fetching
<1>2. ASSUME NEW p \in Pages, MasterWrite(p) PROVE ThreadInv(v)'
  BY <1>2 DEF MasterWrite, Threads, ThreadInv, TypeOK, Fetching
<1>3. ASSUME NEW w \in Workers, NEW p \in Pages, MapRemote(w, p) PROVE ThreadInv(v)'
  BY <1>3 DEF MapRemote, Threads, ThreadInv, TypeOK, Fetching
<1>4. ASSUME NEW w \in Workers, NEW p \in Pages, NEW k \in Kinds, Access(w, p, k)
      PROVE  ThreadInv(v)'
  BY <1>4 DEF Access, Threads, ThreadInv, TypeOK, Fetching
<1>5. ASSUME NEW w \in Workers, Complete(w) PROVE ThreadInv(v)'
  BY <1>5 DEF Complete, Threads, ThreadInv, TypeOK, Fetching
<1>6. ASSUME NEW w \in Workers, Fault(w) PROVE ThreadInv(v)'
  BY <1>6 DEF Fault, Threads, ThreadInv, TypeOK, Fetching
<1>7. ASSUME NEW w \in Workers, NEW s \in {"pending", "handled"}, HandlerStore(w, s)
      PROVE  ThreadInv(v)'
  BY <1>7 DEF HandlerStore, Threads, ThreadInv, TypeOK, Fetching
<1>8. ASSUME NEW w \in Workers, HandlerSignal(w) PROVE ThreadInv(v)'
  BY <1>8 DEF HandlerSignal, Threads, ThreadInv, TypeOK, Fetching
<1>9. ASSUME NEW w \in Workers, HandlerReturn(w) PROVE ThreadInv(v)'
  BY <1>9 DEF HandlerReturn, Threads, ThreadInv, TypeOK, Fetching
<1>10. ASSUME NEW w \in Workers, FaultRead(w) PROVE ThreadInv(v)'
  BY <1>10 DEF FaultRead, Threads, ThreadInv, TypeOK, Fetching
<1>11. ASSUME NEW w \in Workers, FaultTake(w) PROVE ThreadInv(v)'
  <2>1. CASE pending[w] = NoPage
    BY <1>11, <2>1, ZenonT(60) DEF FaultTake, Threads, ThreadInv, TypeOK, Fetching
  <2>2. CASE pending[w] # NoPage
    BY <1>11, <2>2, ZenonT(60) DEF FaultTake, Threads, ThreadInv, TypeOK, Fetching
  <2> QED
    BY <2>1, <2>2
<1>12. ASSUME NEW w \in Workers, FaultValid(w) PROVE ThreadInv(v)'
  BY <1>12 DEF FaultValid, HandleReturns, Threads, ThreadInv, TypeOK, Fetching
<1>13. ASSUME NEW w \in Workers, FaultFetched(w) PROVE ThreadInv(v)'
  BY <1>13 DEF FaultFetched, HandleReturns, Threads, ThreadInv, TypeOK, Fetching
<1>14. ASSUME NEW w \in Workers, FaultNotConnected(w) PROVE ThreadInv(v)'
  BY <1>14 DEF FaultNotConnected, HandleReturns, Threads, ThreadInv, TypeOK, Fetching
<1>15. ASSUME NEW w \in Workers, FaultExpire(w) PROVE ThreadInv(v)'
  BY <1>15 DEF FaultExpire, HandleReturns, Threads, ThreadInv, TypeOK, Fetching
<1>16. ASSUME NEW w \in Workers, FaultPend(w) PROVE ThreadInv(v)'
  BY <1>16 DEF FaultPend, Threads, ThreadInv, TypeOK, Fetching
<1>17. ASSUME NEW w \in Workers, FaultSend(w) PROVE ThreadInv(v)'
  BY <1>17 DEF FaultSend, Threads, ThreadInv, TypeOK, Fetching
<1>18. ASSUME NEW w \in Workers, FaultSleep(w) PROVE ThreadInv(v)'
  BY <1>18 DEF FaultSleep, Threads, ThreadInv, TypeOK, Fetching
<1>19. ASSUME NEW w \in Workers, FaultSpurious(w) PROVE ThreadInv(v)'
  BY <1>19 DEF FaultSpurious, Threads, ThreadInv, TypeOK, Fetching
<1>20. ASSUME NEW w \in Workers, FaultTimeout(w) PROVE ThreadInv(v)'
  BY <1>20 DEF FaultTimeout, Threads, ThreadInv, TypeOK, Fetching
<1>21. ASSUME NEW w \in Workers, NEW s \in {"pending", "handled"}, FaultStore(w, s)
      PROVE  ThreadInv(v)'
  BY <1>21 DEF FaultStore, Threads, ThreadInv, TypeOK, Fetching
<1>22. ASSUME NEW w \in Workers, InstallOpen(w) PROVE ThreadInv(v)'
  BY <1>22 DEF InstallOpen, Threads, ThreadInv, TypeOK, Fetching
<1>23. ASSUME NEW w \in Workers, InstallCopy(w) PROVE ThreadInv(v)'
  BY <1>23 DEF InstallCopy, Threads, ThreadInv, TypeOK, Fetching
<1>24. ASSUME NEW w \in Workers, InstallShare(w) PROVE ThreadInv(v)'
  BY <1>24 DEF InstallShare, Threads, ThreadInv, TypeOK, Fetching
<1>25. ASSUME NEW w \in Workers, InstallSignal(w) PROVE ThreadInv(v)'
  BY <1>25 DEF InstallSignal, Threads, ThreadInv, TypeOK, Fetching
<1>26. ASSUME NEW w \in Workers, PageSend(w) PROVE ThreadInv(v)'
  <2>1. toWorker[v] # <<>> => toWorker'[v] # <<>>
    BY <1>26, PageSendAppends
  <2> QED
    BY <1>26, <2>1 DEF PageSend, Threads, ThreadInv
<1> QED
  BY <1>1, <1>2, <1>3, <1>4, <1>5, <1>6, <1>7, <1>8, <1>9, <1>10, <1>11, <1>12, <1>13,
     <1>14, <1>15, <1>16, <1>17, <1>18, <1>19, <1>20, <1>21, <1>22, <1>23, <1>24,
     <1>25, <1>26
     DEF Next, MasterNext, AppCalls, AppStep, FaultStep, TcpStep

\* The spinning handler is not forgotten.
LEMMA NoLostFaultStep ==
  ASSUME TypeOK, Threads, NoLostFault, Next
  PROVE  NoLostFault'
<1> USE DEF handOver, appVars, ftVars, netVars, pageVars, masterVars
<1>1. ASSUME NEW p \in Pages, MasterAlloc(p) PROVE NoLostFault'
  BY <1>1 DEF MasterAlloc, Threads, ThreadInv, TypeOK, NoLostFault
<1>2. ASSUME NEW p \in Pages, MasterWrite(p) PROVE NoLostFault'
  BY <1>2 DEF MasterWrite, Threads, ThreadInv, TypeOK, NoLostFault
<1>3. ASSUME NEW w \in Workers, NEW p \in Pages, MapRemote(w, p) PROVE NoLostFault'
  BY <1>3 DEF MapRemote, Threads, ThreadInv, TypeOK, NoLostFault
<1>4. ASSUME NEW w \in Workers, NEW p \in Pages, NEW k \in Kinds, Access(w, p, k)
      PROVE  NoLostFault'
  BY <1>4 DEF Access, Threads, ThreadInv, TypeOK, NoLostFault
<1>5. ASSUME NEW w \in Workers, Complete(w) PROVE NoLostFault'
  BY <1>5 DEF Complete, Threads, ThreadInv, TypeOK, NoLostFault
<1>6. ASSUME NEW w \in Workers, Fault(w) PROVE NoLostFault'
  BY <1>6 DEF Fault, Threads, ThreadInv, TypeOK, NoLostFault
<1>7. ASSUME NEW w \in Workers, NEW s \in {"pending", "handled"}, HandlerStore(w, s)
      PROVE  NoLostFault'
  BY <1>7, ZenonT(60) DEF HandlerStore, Threads, ThreadInv, TypeOK, NoLostFault
<1>8. ASSUME NEW w \in Workers, HandlerSignal(w) PROVE NoLostFault'
  BY <1>8 DEF HandlerSignal, Threads, ThreadInv, TypeOK, NoLostFault
<1>9. ASSUME NEW w \in Workers, HandlerReturn(w) PROVE NoLostFault'
  BY <1>9 DEF HandlerReturn, Threads, ThreadInv, TypeOK, NoLostFault
<1>10. ASSUME NEW w \in Workers, FaultRead(w) PROVE NoLostFault'
  BY <1>10 DEF FaultRead, Threads, ThreadInv, TypeOK, NoLostFault
<1>11. ASSUME NEW w \in Workers, FaultTake(w) PROVE NoLostFault'
  <2>1. CASE pending[w] = NoPage
    BY <1>11, <2>1, ZenonT(60) DEF FaultTake, TypeOK, NoLostFault
  <2>2. CASE pending[w] # NoPage
    BY <1>11, <2>2 DEF FaultTake, TypeOK, NoLostFault
  <2> QED
    BY <2>1, <2>2
<1>12. ASSUME NEW w \in Workers, FaultValid(w) PROVE NoLostFault'
  BY <1>12 DEF FaultValid, HandleReturns, Threads, ThreadInv, TypeOK, NoLostFault
<1>13. ASSUME NEW w \in Workers, FaultFetched(w) PROVE NoLostFault'
  BY <1>13 DEF FaultFetched, HandleReturns, Threads, ThreadInv, TypeOK, NoLostFault
<1>14. ASSUME NEW w \in Workers, FaultNotConnected(w) PROVE NoLostFault'
  BY <1>14 DEF FaultNotConnected, HandleReturns, Threads, ThreadInv, TypeOK, NoLostFault
<1>15. ASSUME NEW w \in Workers, FaultExpire(w) PROVE NoLostFault'
  BY <1>15 DEF FaultExpire, HandleReturns, Threads, ThreadInv, TypeOK, NoLostFault
<1>16. ASSUME NEW w \in Workers, FaultPend(w) PROVE NoLostFault'
  BY <1>16 DEF FaultPend, Threads, ThreadInv, TypeOK, NoLostFault
<1>17. ASSUME NEW w \in Workers, FaultSend(w) PROVE NoLostFault'
  BY <1>17 DEF FaultSend, Threads, ThreadInv, TypeOK, NoLostFault
<1>18. ASSUME NEW w \in Workers, FaultSleep(w) PROVE NoLostFault'
  BY <1>18 DEF FaultSleep, Threads, ThreadInv, TypeOK, NoLostFault
<1>19. ASSUME NEW w \in Workers, FaultSpurious(w) PROVE NoLostFault'
  BY <1>19 DEF FaultSpurious, Threads, ThreadInv, TypeOK, NoLostFault
<1>20. ASSUME NEW w \in Workers, FaultTimeout(w) PROVE NoLostFault'
  BY <1>20 DEF FaultTimeout, Threads, ThreadInv, TypeOK, NoLostFault
<1>21. ASSUME NEW w \in Workers, NEW s \in {"pending", "handled"}, FaultStore(w, s)
      PROVE  NoLostFault'
  BY <1>21 DEF FaultStore, Threads, ThreadInv, TypeOK, NoLostFault
<1>22. ASSUME NEW w \in Workers, InstallOpen(w) PROVE NoLostFault'
  BY <1>22 DEF InstallOpen, Threads, ThreadInv, TypeOK, NoLostFault
<1>23. ASSUME NEW w \in Workers, InstallCopy(w) PROVE NoLostFault'
  BY <1>23 DEF InstallCopy, Threads, ThreadInv, TypeOK, NoLostFault
<1>24. ASSUME NEW w \in Workers, InstallShare(w) PROVE NoLostFault'
  BY <1>24 DEF InstallShare, Threads, ThreadInv, TypeOK, NoLostFault
<1>25. ASSUME NEW w \in Workers, InstallSignal(w) PROVE NoLostFault'
  BY <1>25 DEF InstallSignal, Threads, ThreadInv, TypeOK, NoLostFault
<1>26. ASSUME NEW w \in Workers, PageSend(w) PROVE NoLostFault'
  BY <1>26 DEF PageSend, Threads, ThreadInv, TypeOK, NoLostFault
<1> QED
  BY <1>1, <1>2, <1>3, <1>4, <1>5, <1>6, <1>7, <1>8, <1>9, <1>10, <1>11, <1>12, <1>13,
     <1>14, <1>15, <1>16, <1>17, <1>18, <1>19, <1>20, <1>21, <1>22, <1>23, <1>24,
     <1>25, <1>26
     DEF Next, MasterNext, AppCalls, AppStep, FaultStep, TcpStep

\* The fault thread does not sleep through the news.
LEMMA SleeperStep ==
  ASSUME TypeOK, Threads, SleeperSignalled, Next
  PROVE  SleeperSignalled'
<1> USE DEF handOver, appVars, ftVars, netVars, pageVars, masterVars
<1>1. ASSUME NEW p \in Pages, MasterAlloc(p) PROVE SleeperSignalled'
  BY <1>1 DEF MasterAlloc, Threads, ThreadInv, TypeOK, SleeperSignalled, Fetching
<1>2. ASSUME NEW p \in Pages, MasterWrite(p) PROVE SleeperSignalled'
  BY <1>2 DEF MasterWrite, Threads, ThreadInv, TypeOK, SleeperSignalled, Fetching
<1>3. ASSUME NEW w \in Workers, NEW p \in Pages, MapRemote(w, p) PROVE SleeperSignalled'
  BY <1>3 DEF MapRemote, Threads, ThreadInv, TypeOK, SleeperSignalled, Fetching
<1>4. ASSUME NEW w \in Workers, NEW p \in Pages, NEW k \in Kinds, Access(w, p, k)
      PROVE  SleeperSignalled'
  BY <1>4 DEF Access, Threads, ThreadInv, TypeOK, SleeperSignalled, Fetching
<1>5. ASSUME NEW w \in Workers, Complete(w) PROVE SleeperSignalled'
  BY <1>5 DEF Complete, Threads, ThreadInv, TypeOK, SleeperSignalled, Fetching
<1>6. ASSUME NEW w \in Workers, Fault(w) PROVE SleeperSignalled'
  BY <1>6 DEF Fault, Threads, ThreadInv, TypeOK, SleeperSignalled, Fetching
<1>7. ASSUME NEW w \in Workers, NEW s \in {"pending", "handled"}, HandlerStore(w, s)
      PROVE  SleeperSignalled'
  BY <1>7 DEF HandlerStore, Threads, ThreadInv, TypeOK, SleeperSignalled, Fetching
<1>8. ASSUME NEW w \in Workers, HandlerSignal(w) PROVE SleeperSignalled'
  BY <1>8 DEF HandlerSignal, Threads, ThreadInv, TypeOK, SleeperSignalled, Fetching
<1>9. ASSUME NEW w \in Workers, HandlerReturn(w) PROVE SleeperSignalled'
  BY <1>9 DEF HandlerReturn, Threads, ThreadInv, TypeOK, SleeperSignalled, Fetching
<1>10. ASSUME NEW w \in Workers, FaultRead(w) PROVE SleeperSignalled'
  BY <1>10 DEF FaultRead, Threads, ThreadInv, TypeOK, SleeperSignalled, Fetching
<1>11. ASSUME NEW w \in Workers, FaultTake(w) PROVE SleeperSignalled'
  BY <1>11 DEF FaultTake, Threads, ThreadInv, TypeOK, SleeperSignalled, Fetching
<1>12. ASSUME NEW w \in Workers, FaultValid(w) PROVE SleeperSignalled'
  BY <1>12 DEF FaultValid, HandleReturns, Threads, ThreadInv, TypeOK, SleeperSignalled, Fetching
<1>13. ASSUME NEW w \in Workers, FaultFetched(w) PROVE SleeperSignalled'
  BY <1>13 DEF FaultFetched, HandleReturns, Threads, ThreadInv, TypeOK, SleeperSignalled, Fetching
<1>14. ASSUME NEW w \in Workers, FaultNotConnected(w) PROVE SleeperSignalled'
  BY <1>14 DEF FaultNotConnected, HandleReturns, Threads, ThreadInv, TypeOK, SleeperSignalled, Fetching
<1>15. ASSUME NEW w \in Workers, FaultExpire(w) PROVE SleeperSignalled'
  BY <1>15 DEF FaultExpire, HandleReturns, Threads, ThreadInv, TypeOK, SleeperSignalled, Fetching
<1>16. ASSUME NEW w \in Workers, FaultPend(w) PROVE SleeperSignalled'
  BY <1>16 DEF FaultPend, Threads, ThreadInv, TypeOK, SleeperSignalled, Fetching
<1>17. ASSUME NEW w \in Workers, FaultSend(w) PROVE SleeperSignalled'
  BY <1>17 DEF FaultSend, Threads, ThreadInv, TypeOK, SleeperSignalled, Fetching
<1>18. ASSUME NEW w \in Workers, FaultSleep(w) PROVE SleeperSignalled'
  BY <1>18 DEF FaultSleep, Threads, ThreadInv, TypeOK, SleeperSignalled, Fetching
<1>19. ASSUME NEW w \in Workers, FaultSpurious(w) PROVE SleeperSignalled'
  BY <1>19 DEF FaultSpurious, Threads, ThreadInv, TypeOK, SleeperSignalled, Fetching
<1>20. ASSUME NEW w \in Workers, FaultTimeout(w) PROVE SleeperSignalled'
  BY <1>20 DEF FaultTimeout, Threads, ThreadInv, TypeOK, SleeperSignalled, Fetching
<1>21. ASSUME NEW w \in Workers, NEW s \in {"pending", "handled"}, FaultStore(w, s)
      PROVE  SleeperSignalled'
  BY <1>21 DEF FaultStore, Threads, ThreadInv, TypeOK, SleeperSignalled, Fetching
<1>22. ASSUME NEW w \in Workers, InstallOpen(w) PROVE SleeperSignalled'
  BY <1>22 DEF InstallOpen, Threads, ThreadInv, TypeOK, SleeperSignalled, Fetching
<1>23. ASSUME NEW w \in Workers, InstallCopy(w) PROVE SleeperSignalled'
  BY <1>23 DEF InstallCopy, Threads, ThreadInv, TypeOK, SleeperSignalled, Fetching
<1>24. ASSUME NEW w \in Workers, InstallShare(w) PROVE SleeperSignalled'
  BY <1>24 DEF InstallShare, Threads, ThreadInv, TypeOK, SleeperSignalled, Fetching
<1>25. ASSUME NEW w \in Workers, InstallSignal(w) PROVE SleeperSignalled'
  BY <1>25 DEF InstallSignal, Threads, ThreadInv, TypeOK, SleeperSignalled, Fetching
<1>26. ASSUME NEW w \in Workers, PageSend(w) PROVE SleeperSignalled'
  BY <1>26 DEF PageSend, Threads, ThreadInv, TypeOK, SleeperSignalled, Fetching
<1> QED
  BY <1>1, <1>2, <1>3, <1>4, <1>5, <1>6, <1>7, <1>8, <1>9, <1>10, <1>11, <1>12, <1>13,
     <1>14, <1>15, <1>16, <1>17, <1>18, <1>19, <1>20, <1>21, <1>22, <1>23, <1>24,
     <1>25, <1>26
     DEF Next, MasterNext, AppCalls, AppStep, FaultStep, TcpStep

-----------------------------------------------------------------------------
(* The transfer of pages *)

\* The application and the fault thread touch neither the bytes and the
\* protection of a page nor the answers.
LEMMA AppFrame ==
  ASSUME NEW w \in Workers, AppCalls(w) \/ AppStep(w)
  PROVE  UNCHANGED <<allocated, content, prot, copy, ft, fpage, ftStores, tcp, toMaster,
                     toWorker>>
<1> USE DEF handOver, appVars, ftVars, netVars, pageVars, masterVars
<1>1. CASE AppCalls(w)
  BY <1>1 DEF AppCalls, MapRemote, Access
<1>2. CASE AppStep(w)
  BY <1>2 DEF AppStep, Complete, Fault, HandlerSignal, HandlerReturn, HandlerStore
<1> QED
  BY <1>1, <1>2

LEMMA FaultFrame ==
  ASSUME NEW w \in Workers, FaultStep(w) \/ FaultSpurious(w) \/ FaultTimeout(w)
  PROVE  UNCHANGED <<allocated, content, prot, copy, app, want, appStores, tcp, toWorker>>
<1> USE DEF handOver, appVars, ftVars, netVars, pageVars, masterVars
<1>1. CASE FaultStep(w)
  BY <1>1 DEF FaultStep, FaultRead, FaultTake, FaultValid, FaultPend, FaultSend,
     FaultNotConnected, FaultSleep, FaultFetched, FaultExpire, FaultStore, HandleReturns
<1>2. CASE FaultSpurious(w) \/ FaultTimeout(w)
  BY <1>2 DEF FaultSpurious, FaultTimeout
<1> QED
  BY <1>1, <1>2

LEMMA VersionStep ==
  ASSUME TypeOK, Threads, \A w \in Workers : VersionInv(w), Next, NEW v \in Workers
  PROVE  VersionInv(v)'
<1> USE DEF handOver, appVars, ftVars, netVars, pageVars, masterVars
<1>1. ASSUME UNCHANGED <<content, copy, toWorker>> PROVE VersionInv(v)'
  BY <1>1 DEF VersionInv
<1>2. ASSUME NEW p \in Pages, MasterAlloc(p) PROVE VersionInv(v)'
  BY <1>1, <1>2 DEF MasterAlloc
<1>3. ASSUME NEW p \in Pages, MasterWrite(p) PROVE VersionInv(v)'
  <2>1. UNCHANGED <<copy, toWorker>>
    BY <1>3 DEF MasterWrite
  <2>2. \A q \in Pages : content[q] <= content'[q] /\ content[q] \in Nat /\ content'[q] \in Nat
    BY <1>3 DEF MasterWrite, TypeOK
  <2>3. \A q \in Pages : copy[v][q] \in Int
    BY DEF TypeOK, Unfetched
  <2>4. \A i \in 1..Len(toWorker[v]) : toWorker[v][i].page \in Pages /\ toWorker[v][i].data \in Nat
    BY AnswerType
  <2> QED
    BY <2>1, <2>2, <2>3, <2>4 DEF VersionInv
<1>4. ASSUME NEW w \in Workers, InstallOpen(w) \/ InstallShare(w) PROVE VersionInv(v)'
  BY <1>1, <1>4 DEF InstallOpen, InstallShare
<1>5. ASSUME NEW w \in Workers, InstallCopy(w) PROVE VersionInv(v)'
  <2>1. CASE v # w
    <3>1. copy'[v] = copy[v] /\ UNCHANGED <<content, toWorker>>
      BY <1>5, <2>1 DEF InstallCopy, TypeOK
    <3> QED
      BY <3>1 DEF VersionInv
  <2>2. CASE v = w
    <3> DEFINE e == Head(toWorker[v])
    <3>1. /\ e = toWorker[v][1] /\ e.page \in Pages /\ 1 \in 1..Len(toWorker[v])
          /\ \A i \in 1..Len(toWorker[v]) : 1 <= i
      BY <1>5, <2>2, AnswerAtHand DEF InstallCopy, Threads, ThreadInv
    <3>2. /\ copy'[v][e.page] = e.data
          /\ \A q \in Pages : q # e.page => copy'[v][q] = copy[v][q]
          /\ UNCHANGED <<content, toWorker>>
      BY <1>5, <2>2, <3>1 DEF InstallCopy, TypeOK
    <3>3. VersionInv(v)
      OBVIOUS
    <3>4. \A i \in 1..Len(toWorker[v]) : toWorker[v][i].page \in Pages
      BY AnswerType
    <3> HIDE DEF e
    <3> QED
      BY <3>1, <3>2, <3>3, <3>4 DEF VersionInv
  <2> QED
    BY <2>1, <2>2
<1>6. ASSUME NEW w \in Workers, InstallSignal(w) PROVE VersionInv(v)'
  <2>1. UNCHANGED <<content, copy>>
    BY <1>6 DEF InstallSignal
  <2>2. CASE v # w
    <3>1. toWorker'[v] = toWorker[v]
      BY <1>6, <2>2 DEF InstallSignal, TypeOK
    <3> QED
      BY <2>1, <3>1 DEF VersionInv
  <2>3. CASE v = w
    <3>1. toWorker'[v] = Tail(toWorker[v])
      BY <1>6, <2>3 DEF InstallSignal, TypeOK
    <3>2. toWorker[v] # <<>>
      BY <1>6, <2>3 DEF InstallSignal, Threads, ThreadInv
    <3>3. /\ Len(toWorker[v]) \in Nat \ {0}
          /\ Len(toWorker'[v]) = Len(toWorker[v]) - 1
          /\ \A i \in 1..Len(toWorker'[v]) : toWorker'[v][i] = toWorker[v][i + 1]
      BY <3>1, <3>2, AnswerAtHand
    <3>4. \A i \in 1..Len(toWorker'[v]) : i + 1 \in 1..Len(toWorker[v])
      BY <3>3
    <3>5. \A i \in 1..Len(toWorker'[v]) :
            /\ copy'[v][toWorker'[v][i].page] <= toWorker'[v][i].data
            /\ toWorker'[v][i].data <= content'[toWorker'[v][i].page]
      BY <2>1, <3>3, <3>4 DEF VersionInv
    <3>6. ASSUME NEW i \in 1..Len(toWorker'[v]), NEW j \in 1..Len(toWorker'[v]),
                 i <= j, toWorker'[v][i].page = toWorker'[v][j].page
          PROVE  toWorker'[v][i].data <= toWorker'[v][j].data
      <4>1. i + 1 <= j + 1 /\ i + 1 \in 1..Len(toWorker[v]) /\ j + 1 \in 1..Len(toWorker[v])
        BY <3>4, <3>6
      <4> QED
        BY <3>3, <3>6, <4>1 DEF VersionInv
    <3> QED
      BY <2>1, <3>5, <3>6 DEF VersionInv
  <2> QED
    BY <2>2, <2>3
<1>7. ASSUME NEW w \in Workers, PageSend(w) PROVE VersionInv(v)'
  <2>1. UNCHANGED <<content, copy>>
    BY <1>7 DEF PageSend
  <2>2. CASE toWorker'[v] = toWorker[v]
    BY <2>1, <2>2 DEF VersionInv
  <2>3. CASE toWorker'[v] # toWorker[v]
    <3>1. PICK e \in Answers :
            /\ e.page \in Pages /\ e.data = content[e.page]
            /\ Len(toWorker'[v]) = Len(toWorker[v]) + 1
            /\ \A i \in 1..Len(toWorker[v]) : toWorker'[v][i] = toWorker[v][i]
            /\ toWorker'[v][Len(toWorker[v]) + 1] = e
      BY <1>7, <2>3, PageSendAppends
    <3>2. Len(toWorker[v]) \in Nat
      BY DEF TypeOK
    <3>3. /\ content[e.page] \in Nat /\ copy[v][e.page] <= content[e.page]
          /\ \A i \in 1..Len(toWorker[v]) :
               toWorker[v][i].page = e.page => toWorker[v][i].data <= e.data
      BY <3>1, SMTT(30) DEF VersionInv, TypeOK
    <3>4. \A i \in 1..Len(toWorker'[v]) : i \in 1..Len(toWorker[v]) \/ i = Len(toWorker[v]) + 1
      BY <3>1, <3>2
    <3>5. \A i \in 1..Len(toWorker'[v]) :
            /\ copy'[v][toWorker'[v][i].page] <= toWorker'[v][i].data
            /\ toWorker'[v][i].data <= content'[toWorker'[v][i].page]
      <4>1. ASSUME NEW i \in 1..Len(toWorker[v])
            PROVE  /\ copy'[v][toWorker'[v][i].page] <= toWorker'[v][i].data
                   /\ toWorker'[v][i].data <= content'[toWorker'[v][i].page]
        BY <2>1, <3>1 DEF VersionInv
      <4>2. e.data <= content[e.page] /\ copy[v][e.page] <= e.data
        BY <3>1, <3>3
      <4> QED
        BY <2>1, <3>1, <3>4, <4>1, <4>2
    <3>6. ASSUME NEW i \in 1..Len(toWorker'[v]), NEW j \in 1..Len(toWorker'[v]),
                 i <= j, toWorker'[v][i].page = toWorker'[v][j].page
          PROVE  toWorker'[v][i].data <= toWorker'[v][j].data
      <4>1. CASE j = Len(toWorker[v]) + 1
        <5>1. toWorker'[v][j] = e /\ e.data \in Nat
          BY <3>1, <3>3, <4>1
        <5>2. CASE i \in 1..Len(toWorker[v])
          <6>1. toWorker'[v][i] = toWorker[v][i]
            BY <3>1, <5>2
          <6>2. toWorker[v][i].page = e.page
            BY <3>6, <5>1, <6>1
          <6> QED
            BY <3>3, <5>1, <5>2, <6>1, <6>2
        <5>3. CASE i = Len(toWorker[v]) + 1
          BY <4>1, <5>1, <5>3
        <5> QED
          BY <3>4, <5>2, <5>3
      <4>2. CASE j \in 1..Len(toWorker[v])
        <5>1. i \in 1..Len(toWorker[v])
          BY <3>2, <3>6, <4>2
        <5> QED
          BY <3>1, <3>6, <4>2, <5>1 DEF VersionInv
      <4> QED
        BY <3>4, <4>1, <4>2
    <3> QED
      BY <2>1, <3>5, <3>6 DEF VersionInv
  <2> QED
    BY <2>2, <2>3
<1> QED
  BY <1>1, <1>2, <1>3, <1>4, <1>5, <1>6, <1>7, AppFrame, FaultFrame
     DEF Next, MasterNext, TcpStep

\* Neither the application nor the fault thread records a page as SHARED.
LEMMA NeverSharedByFault ==
  ASSUME TypeOK, NEW w \in Workers,
         AppCalls(w) \/ AppStep(w) \/ FaultStep(w) \/ FaultSpurious(w) \/ FaultTimeout(w)
  PROVE  \A v \in Workers, p \in Pages : state'[v][p] = "SHARED" => state[v][p] = "SHARED"
<1> USE DEF handOver, appVars, ftVars, netVars, pageVars, masterVars
<1>1. CASE AppCalls(w)
  <2>1. PICK q \in Pages : MapRemote(w, q) \/ \E k \in Kinds : Access(w, q, k)
    BY <1>1 DEF AppCalls
  <2>2. CASE MapRemote(w, q)
    BY <2>2 DEF MapRemote, TypeOK
  <2>3. CASE \E k \in Kinds : Access(w, q, k)
    BY <2>3 DEF Access
  <2> QED
    BY <2>1, <2>2, <2>3
<1>2. CASE AppStep(w)
  BY <1>2 DEF AppStep, Complete, Fault, HandlerSignal, HandlerReturn, HandlerStore
<1>3. CASE FaultPend(w)
  BY <1>3 DEF FaultPend, TypeOK
<1>4. CASE FaultNotConnected(w)
  BY <1>4 DEF FaultNotConnected, TypeOK
<1>5. CASE FaultExpire(w)
  BY <1>5 DEF FaultExpire, TypeOK
<1>6. CASE \/ FaultRead(w) \/ FaultTake(w) \/ FaultValid(w) \/ FaultSend(w) \/ FaultSleep(w)
           \/ FaultFetched(w) \/ FaultSpurious(w) \/ FaultTimeout(w)
           \/ \E s \in {"pending", "handled"} : FaultStore(w, s)
  BY <1>6 DEF FaultRead, FaultTake, FaultValid, FaultSend, FaultSleep, FaultFetched,
     FaultSpurious, FaultTimeout, FaultStore
<1> QED
  BY <1>1, <1>2, <1>3, <1>4, <1>5, <1>6 DEF FaultStep

\* Outside dsm_page_install pages are closed or hold bytes of the owner.
LEMMA SettledStep ==
  ASSUME TypeOK, Threads, PagesSettled, \A w \in Workers : FillInv(w), Next
  PROVE  PagesSettled' /\ \A w \in Workers : FillInv(w)'
<1> USE DEF handOver, appVars, ftVars, netVars, pageVars, masterVars
<1> DEFINE Goal == PagesSettled' /\ \A w \in Workers : FillInv(w)'
<1>1. ASSUME UNCHANGED <<prot, copy, tcp, toWorker>>,
             \A v \in Workers, p \in Pages : state'[v][p] = "SHARED" => state[v][p] = "SHARED"
      PROVE  Goal
  BY <1>1 DEF PagesSettled, FillInv, PageLockFree
<1>2. ASSUME NEW p \in Pages, MasterAlloc(p) \/ MasterWrite(p) PROVE Goal
  BY <1>1, <1>2 DEF MasterAlloc, MasterWrite
<1>3. ASSUME NEW w \in Workers, InstallOpen(w) PROVE Goal
  <2>1. /\ tcp[w] = "idle" /\ tcp'[w] = "open" /\ UNCHANGED <<state, copy, toWorker>>
        /\ \A v \in Workers : v # w => tcp'[v] = tcp[v] /\ prot'[v] = prot[v]
        /\ \A p \in Pages : p # Head(toWorker[w]).page => prot'[w][p] = prot[w][p]
    BY <1>3 DEF InstallOpen, TypeOK
  <2> QED
    BY <2>1 DEF PagesSettled, FillInv, PageLockFree
<1>4. ASSUME NEW w \in Workers, InstallCopy(w) PROVE Goal
  <2>1. toWorker[w] # <<>>
    BY <1>4 DEF InstallCopy, Threads, ThreadInv
  <2>2. Head(toWorker[w]).page \in Pages /\ Head(toWorker[w]).data \in Nat
    BY <2>1, AnswerAtHand
  <2>3. /\ tcp[w] = "open" /\ tcp'[w] = "copied" /\ UNCHANGED <<state, prot, toWorker>>
        /\ copy'[w][Head(toWorker[w]).page] = Head(toWorker[w]).data
    BY <1>4, <2>2 DEF InstallCopy, TypeOK
  <2>4. \A v \in Workers : v # w => tcp'[v] = tcp[v] /\ copy'[v] = copy[v]
    BY <1>4 DEF InstallCopy, TypeOK
  <2>5. \A p \in Pages : p # Head(toWorker[w]).page => copy'[w][p] = copy[w][p]
    BY <1>4 DEF InstallCopy, TypeOK
  <2>6. copy'[w][Head(toWorker[w]).page] # Unfetched
    BY <2>2, <2>3 DEF Unfetched
  <2> QED
    BY <2>3, <2>4, <2>5, <2>6 DEF PagesSettled, FillInv, PageLockFree
<1>5. ASSUME NEW w \in Workers, InstallShare(w) PROVE Goal
  <2>1. toWorker[w] # <<>>
    BY <1>5 DEF InstallShare, Threads, ThreadInv
  <2>2. Head(toWorker[w]).page \in Pages
    BY <2>1, AnswerAtHand
  <2>3. /\ tcp[w] = "copied" /\ tcp'[w] = "shared" /\ UNCHANGED <<copy, toWorker>>
        /\ prot'[w][Head(toWorker[w]).page] = "READ"
    BY <1>5, <2>2 DEF InstallShare, TypeOK
  <2>4. \A v \in Workers : v # w => /\ tcp'[v] = tcp[v] /\ prot'[v] = prot[v]
                                    /\ state'[v] = state[v]
    BY <1>5 DEF InstallShare, TypeOK
  <2>5. \A p \in Pages : p # Head(toWorker[w]).page => /\ prot'[w][p] = prot[w][p]
                                                      /\ state'[w][p] = state[w][p]
    BY <1>5 DEF InstallShare, TypeOK
  <2> QED
    BY <2>3, <2>4, <2>5 DEF PagesSettled, FillInv, PageLockFree
<1>6. ASSUME NEW w \in Workers, InstallSignal(w) PROVE Goal
  <2>1. /\ tcp[w] = "shared" /\ tcp'[w] = "idle" /\ UNCHANGED <<state, prot, copy>>
        /\ \A v \in Workers : v # w => tcp'[v] = tcp[v] /\ toWorker'[v] = toWorker[v]
    BY <1>6 DEF InstallSignal, TypeOK
  <2> QED
    BY <2>1 DEF PagesSettled, FillInv, PageLockFree
<1>7. ASSUME NEW w \in Workers, PageSend(w) PROVE Goal
  <2>1. UNCHANGED <<state, prot, copy, tcp>>
    BY <1>7 DEF PageSend
  <2>2. ASSUME NEW v \in Workers, tcp[v] # "idle" PROVE Head(toWorker'[v]) = Head(toWorker[v])
    <3>1. toWorker[v] # <<>> /\ toWorker[v] \in Seq(Answers)
      BY <2>2, AnswerType DEF Threads, ThreadInv
    <3>2. \/ toWorker'[v] = toWorker[v]
          \/ \E e \in Answers : toWorker'[v] = Append(toWorker[v], e)
      BY <1>7, PageSendAppends
    <3> QED
      BY <3>1, <3>2, HeadTailAppend
  <2> QED
    BY <2>1, <2>2 DEF PagesSettled, FillInv, PageLockFree
<1> QED
  BY <1>1, <1>2, <1>3, <1>4, <1>5, <1>6, <1>7, AppFrame, FaultFrame, NeverSharedByFault
     DEF Next, MasterNext, TcpStep

-----------------------------------------------------------------------------
(* The theorems that hold with timeouts, retries and early mappings *)

LEMMA PagingInit == Init => PagingInv
<1> SUFFICES ASSUME Init PROVE PagingInv
  OBVIOUS
<1>1. TypeOK
  BY PagingAssumptions DEF Init, TypeOK, Each
<1>2. NoLostFault /\ SleeperSignalled /\ PagesSettled
  BY DEF Init, NoLostFault, SleeperSignalled, PagesSettled, Each
<1>3. ASSUME NEW w \in Workers PROVE ThreadInv(w) /\ VersionInv(w) /\ FillInv(w)
  <2>1. toWorker[w] = <<>> /\ Len(toWorker[w]) = 0
    BY DEF Init, Each
  <2>2. VersionInv(w)
    BY <2>1 DEF Init, Each, VersionInv, Unfetched
  <2> QED
    BY <2>2 DEF Init, Each, ThreadInv, FillInv, Fetching
<1> QED
  BY <1>1, <1>2, <1>3 DEF PagingInv

LEMMA PagingStep == PagingInv /\ [Next]_vars => PagingInv'
<1> SUFFICES ASSUME PagingInv, [Next]_vars PROVE PagingInv'
  OBVIOUS
<1>1. CASE Next
  <2>1. /\ TypeOK /\ Threads /\ NoLostFault /\ SleeperSignalled /\ PagesSettled
        /\ \A w \in Workers : VersionInv(w) /\ FillInv(w)
    BY DEF PagingInv, Threads
  <2>2. TypeOK' /\ NoLostFault' /\ SleeperSignalled' /\ PagesSettled'
    BY <1>1, <2>1, TypeStep, NoLostFaultStep, SleeperStep, SettledStep
  <2>3. \A w \in Workers : ThreadInv(w)' /\ VersionInv(w)' /\ FillInv(w)'
    BY <1>1, <2>1, ThreadStep, VersionStep, SettledStep
  <2> QED
    BY <2>2, <2>3 DEF PagingInv
<1>2. CASE UNCHANGED vars
  <2> USE <1>2 DEF vars
  <2>1. TypeOK'
    BY DEF PagingInv, TypeOK
  <2>2. NoLostFault' /\ SleeperSignalled' /\ PagesSettled'
    BY DEF PagingInv, NoLostFault, SleeperSignalled, PagesSettled, PageLockFree
  <2>3. ASSUME NEW w \in Workers PROVE ThreadInv(w)' /\ VersionInv(w)' /\ FillInv(w)'
    <3>1. ThreadInv(w) /\ VersionInv(w) /\ FillInv(w)
      BY DEF PagingInv
    <3>2. ThreadInv(w)'
      BY <3>1 DEF ThreadInv
    <3>3. VersionInv(w)'
      BY <3>1 DEF VersionInv
    <3>4. FillInv(w)'
      BY <3>1 DEF FillInv
    <3> QED
      BY <3>2, <3>3, <3>4
  <2> QED
    BY <2>1, <2>2, <2>3 DEF PagingInv
<1> QED
  BY <1>1, <1>2

\* The inductive invariant of demand paging.
THEOREM PagingInvariant == Spec => []PagingInv
<1> QED
  BY PagingInit, PagingStep, PTL DEF Spec

\* Every variable keeps its type.
THEOREM PagingTypeCorrect == Spec => []TypeOK
<1>1. PagingInv => TypeOK
  BY DEF PagingInv
<1> QED
  BY <1>1, PagingInvariant, PTL

\* A handler that spins on fault_handled always has its release ahead, although
\* two threads store 1 and the address may be erased.
THEOREM PagingNoLostFault == Spec => []NoLostFault
<1>1. PagingInv => NoLostFault
  BY DEF PagingInv
<1> QED
  BY <1>1, PagingInvariant, PTL

\* The fault thread asleep in pthread_cond_timedwait does not miss the broadcast.
THEOREM PagingSleeperSignalled == Spec => []SleeperSignalled
<1>1. PagingInv => SleeperSignalled
  BY DEF PagingInv
<1> QED
  BY <1>1, PagingInvariant, PTL

\* Outside dsm_page_install no page is writable or shows bytes that are not the
\* owner's.
THEOREM PagingPagesSettled == Spec => []PagesSettled
<1>1. PagingInv => PagesSettled
  BY DEF PagingInv
<1> QED
  BY <1>1, PagingInvariant, PTL

\* No step replaces a copy by an older one, also when answers of given-up requests
\* arrive after those of their retries.
THEOREM PagingNeverOlder == Spec => NeverOlder
<1>1. PagingInv /\ [Next]_vars =>
        [\A w \in Workers, p \in Pages : copy'[w][p] >= copy[w][p]]_vars
  <2> SUFFICES ASSUME PagingInv, Next, NEW v \in Workers, NEW p \in Pages
               PROVE  copy'[v][p] >= copy[v][p]
    OBVIOUS
  <2> USE DEF handOver, appVars, ftVars, netVars, pageVars, masterVars
  <2>1. TypeOK /\ Threads /\ (\A w \in Workers : VersionInv(w)) /\ copy[v][p] \in Int
    <3>1. TypeOK /\ Threads /\ \A w \in Workers : VersionInv(w)
      BY DEF PagingInv, Threads
    <3>2. copy[v][p] \in Nat \cup {Unfetched}
      BY <3>1 DEF TypeOK
    <3> QED
      BY <3>1, <3>2 DEF Unfetched
  <2>2. CASE UNCHANGED copy
    BY <2>1, <2>2
  <2>3. ASSUME NEW w \in Workers, InstallCopy(w) PROVE copy'[v][p] >= copy[v][p]
    <3> DEFINE e == Head(toWorker[w])
    <3>1. toWorker[w] # <<>>
      BY <2>1, <2>3 DEF InstallCopy, Threads, ThreadInv
    <3>2. /\ e = toWorker[w][1] /\ 1 \in 1..Len(toWorker[w])
          /\ e.page \in Pages /\ e.data \in Nat
      BY <2>1, <3>1, AnswerAtHand
    <3>3. CASE v = w /\ p = e.page
      <4>1. copy'[v][p] = e.data
        BY <2>1, <2>3, <3>3 DEF InstallCopy, TypeOK
      <4>2. copy[v][p] <= e.data
        BY <2>1, <3>2, <3>3 DEF VersionInv
      <4> QED
        BY <2>1, <3>2, <4>1, <4>2
    <3>4. CASE ~(v = w /\ p = e.page)
      <4>1. copy'[v][p] = copy[v][p]
        BY <2>1, <2>3, <3>4 DEF InstallCopy, TypeOK
      <4> QED
        BY <2>1, <4>1
    <3> QED
      BY <3>3, <3>4
  <2>4. ASSUME NEW w \in Workers,
               InstallOpen(w) \/ InstallShare(w) \/ InstallSignal(w) \/ PageSend(w)
        PROVE  UNCHANGED copy
    BY <2>4 DEF InstallOpen, InstallShare, InstallSignal, PageSend
  <2>5. ASSUME NEW q \in Pages, MasterAlloc(q) \/ MasterWrite(q) PROVE UNCHANGED copy
    BY <2>5 DEF MasterAlloc, MasterWrite
  <2> QED
    BY <2>2, <2>3, <2>4, <2>5, AppFrame, FaultFrame DEF Next, MasterNext, TcpStep
<1> QED
  BY <1>1, PagingInvariant, PTL DEF Spec, NeverOlder
=============================================================================
