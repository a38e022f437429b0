--------------------------- MODULE DsmFramingProofs --------------------------
(***************************************************************************)
(* Theorems about DsmFraming: a connection that one thread at a time       *)
(* writes to delivers whole messages, in order, however they are cut up.   *)
(***************************************************************************)
EXTENDS DsmFraming, SequenceTheorems, TLAPS

-----------------------------------------------------------------------------
(* Messages and their cells *)

LEMMA CellFacts ==
  ASSUME NEW m \in Message
  PROVE  /\ Size(m) \in Nat /\ Size(m) >= HeaderCells /\ Size(m) = HeaderCells + m.len
         /\ m.len \in 0..MaxLen
         /\ DOMAIN CellsOf(m) = 1..Size(m)
         /\ CellsOf(m) \in Seq(Cell) /\ Len(CellsOf(m)) = Size(m)
         /\ \A k \in 1..Size(m) : /\ CellsOf(m)[k] = [msg |-> m, k |-> k]
                                  /\ CellsOf(m)[k] \in Cell
<1>1. m.len \in 0..MaxLen /\ MaxLen \in Nat /\ HeaderCells \in Nat
  BY FramingAssumptions DEF Message
<1>2. Size(m) \in Nat /\ Size(m) >= HeaderCells /\ Size(m) = HeaderCells + m.len
  BY <1>1 DEF Size
<1>3. ASSUME NEW k \in 1..Size(m)
      PROVE  CellsOf(m)[k] = [msg |-> m, k |-> k] /\ CellsOf(m)[k] \in Cell
  BY <1>2 DEF CellsOf, Cell
<1>4. CellsOf(m) \in [1..Size(m) -> Cell]
  BY <1>3 DEF CellsOf
<1>5. CellsOf(m) \in Seq(Cell) /\ Len(CellsOf(m)) = Size(m) /\ DOMAIN CellsOf(m) = 1..Size(m)
  BY <1>2, <1>4
<1> QED
  BY <1>1, <1>2, <1>3, <1>5

LEMMA NotAMessage ==
  ASSUME NEW m \in Message
  PROVE  m # None
<1>1. DOMAIN m = {"thread", "number", "len"}
  BY DEF Message
<1>2. DOMAIN None = {"thread"}
  BY DEF None
<1> QED
  BY <1>1, <1>2

-----------------------------------------------------------------------------
(* What writing and reading do to a stream *)

LEMMA StreamType ==
  ASSUME TypeOK, NEW c \in Conns
  PROVE  /\ stream[c] \in Seq(Cell) /\ Len(stream[c]) \in Nat
         /\ avail[c] \in 0..Len(stream[c]) /\ Len(stream[c]) <= Capacity
         /\ \A i \in 1..Len(stream[c]) : stream[c][i] \in Cell
<1>1. stream[c] \in Seq(Cell)
  BY DEF TypeOK
<1>2. Len(stream[c]) \in Nat /\ \A i \in 1..Len(stream[c]) : stream[c][i] \in Cell
  BY <1>1, ElementOfSeq
<1> QED
  BY <1>1, <1>2 DEF TypeOK

LEMMA WriteFacts ==
  ASSUME TypeOK, NEW c \in Conns, NEW t \in Threads, NEW m \in Message, NEW from \in Nat,
         WriteCells(c, t, m, from)
  PROVE  \E to \in Nat :
           /\ from < to /\ to <= Size(m) /\ (from < HeaderCells => to <= HeaderCells)
           /\ stream' \in [Conns -> Seq(Cell)]
           /\ \A d \in Conns \ {c} : stream'[d] = stream[d]
           /\ Len(stream'[c]) = Len(stream[c]) + (to - from)
           /\ Len(stream'[c]) <= Capacity
           /\ \A i \in 1..Len(stream[c]) : stream'[c][i] = stream[c][i]
           /\ \A i \in 1..(to - from) :
                stream'[c][Len(stream[c]) + i] = [msg |-> m, k |-> from + i]
           /\ written' = [written EXCEPT ![c][t] = IF to = Size(m) THEN 0 ELSE to]
           /\ current' = [current EXCEPT ![c][t] = IF to = Size(m) THEN None ELSE m]
           /\ overlap' = [overlap EXCEPT ![c] =
                            @ \/ \E u \in Threads \ {t} : current[c][u] # None]
<1>1. PICK to \in from + 1..(IF from < HeaderCells THEN HeaderCells ELSE Size(m)) :
        /\ Len(stream[c]) + to - from <= Capacity
        /\ stream' = [stream EXCEPT ![c] = @ \o SubSeq(CellsOf(m), from + 1, to)]
        /\ written' = [written EXCEPT ![c][t] = IF to = Size(m) THEN 0 ELSE to]
        /\ current' = [current EXCEPT ![c][t] = IF to = Size(m) THEN None ELSE m]
        /\ overlap' = [overlap EXCEPT ![c] =
                         @ \/ \E u \in Threads \ {t} : current[c][u] # None]
  BY DEF WriteCells
<1>2. HeaderCells \in Nat /\ Size(m) \in Nat /\ Size(m) >= HeaderCells
  BY CellFacts, FramingAssumptions
<1>3. /\ to \in Nat /\ from < to /\ to <= Size(m)
      /\ from < HeaderCells => to <= HeaderCells
  BY <1>2
<1> DEFINE new == SubSeq(CellsOf(m), from + 1, to)
<1>4. \A i \in from + 1..to : CellsOf(m)[i] = [msg |-> m, k |-> i] /\ CellsOf(m)[i] \in Cell
  BY <1>3, CellFacts
<1>a. \A i \in from + 1..to : CellsOf(m)[i] \in Cell
  BY <1>4
<1>b. from + 1 \in Int /\ to \in Int
  BY <1>3
<1>5. /\ new \in Seq(Cell) /\ Len(new) = to - from
      /\ \A i \in 1..(to - from) : new[i] = CellsOf(m)[from + i]
  <2>1. /\ new \in Seq(Cell)
        /\ Len(new) = IF from + 1 <= to THEN to - (from + 1) + 1 ELSE 0
        /\ \A i \in 1..to - (from + 1) + 1 : new[i] = CellsOf(m)[(from + 1) + i - 1]
    BY <1>a, <1>b, SubSeqProperties
  <2> HIDE DEF new
  <2>2. to - (from + 1) + 1 = to - from
    BY <1>3
  <2>3. \A i \in 1..(to - from) : (from + 1) + i - 1 = from + i
    BY <1>3
  <2> QED
    BY <1>3, <2>1, <2>2, <2>3
<1>6. \A i \in 1..(to - from) : new[i] = [msg |-> m, k |-> from + i]
  <2> SUFFICES ASSUME NEW i \in 1..(to - from) PROVE new[i] = [msg |-> m, k |-> from + i]
    OBVIOUS
  <2>1. from + i \in from + 1..to
    BY <1>3
  <2> QED
    BY <1>4, <1>5, <2>1
<1> HIDE DEF new
<1>7. stream[c] \in Seq(Cell) /\ Len(stream[c]) \in Nat
  BY StreamType
<1>8. /\ stream[c] \o new \in Seq(Cell)
      /\ Len(stream[c] \o new) = Len(stream[c]) + (to - from)
      /\ \A i \in 1..Len(stream[c]) + (to - from) : (stream[c] \o new)[i] =
            IF i <= Len(stream[c]) THEN stream[c][i] ELSE new[i - Len(stream[c])]
  <2>1. /\ stream[c] \o new \in Seq(Cell)
        /\ Len(stream[c] \o new) = Len(stream[c]) + Len(new)
        /\ \A i \in 1..Len(stream[c]) + Len(new) : (stream[c] \o new)[i] =
              IF i <= Len(stream[c]) THEN stream[c][i] ELSE new[i - Len(stream[c])]
    BY <1>5, <1>7, ConcatProperties
  <2> QED
    BY <1>5, <2>1
<1>9. /\ stream' \in [Conns -> Seq(Cell)] /\ stream'[c] = stream[c] \o new
      /\ \A d \in Conns \ {c} : stream'[d] = stream[d]
  BY <1>1, <1>8 DEF TypeOK, new
<1>10. \A i \in 1..Len(stream[c]) : stream'[c][i] = stream[c][i]
  BY <1>3, <1>7, <1>8, <1>9
<1>11. \A i \in 1..(to - from) : stream'[c][Len(stream[c]) + i] = [msg |-> m, k |-> from + i]
  <2> SUFFICES ASSUME NEW i \in 1..(to - from)
               PROVE  stream'[c][Len(stream[c]) + i] = [msg |-> m, k |-> from + i]
    OBVIOUS
  <2>1. PICK n \in Nat : n = Len(stream[c])
    BY <1>7
  <2>2. n + i \in 1..n + (to - from) /\ ~(n + i <= n) /\ (n + i) - n = i
    BY <1>3
  <2> QED
    BY <1>6, <1>8, <1>9, <2>1, <2>2
<1>12. Len(stream'[c]) = Len(stream[c]) + (to - from) /\ Len(stream'[c]) <= Capacity
  <2>1. PICK n \in Nat : n = Len(stream[c])
    BY <1>7
  <2>2. n + (to - from) = n + to - from
    BY <1>3
  <2> QED
    BY <1>1, <1>8, <1>9, <2>1, <2>2
<1> QED
  BY <1>1, <1>3, <1>9, <1>10, <1>11, <1>12

\* The first k cells of a stream ...
LEMMA TakeFacts ==
  ASSUME TypeOK, NEW c \in Conns, NEW k \in 0..Len(stream[c])
  PROVE  /\ SubSeq(stream[c], 1, k) \in Seq(Cell) /\ Len(SubSeq(stream[c], 1, k)) = k
         /\ \A i \in 1..k : SubSeq(stream[c], 1, k)[i] = stream[c][i]
<1>1. Len(stream[c]) \in Nat /\ \A i \in 1..Len(stream[c]) : stream[c][i] \in Cell
  BY StreamType
<1>2. \A i \in 1..k : stream[c][i] \in Cell
  BY <1>1
<1>3. /\ SubSeq(stream[c], 1, k) \in Seq(Cell)
      /\ Len(SubSeq(stream[c], 1, k)) = IF 1 <= k THEN k - 1 + 1 ELSE 0
      /\ \A i \in 1..k - 1 + 1 : SubSeq(stream[c], 1, k)[i] = stream[c][1 + i - 1]
  BY <1>1, <1>2, SubSeqProperties
<1>4. k \in Nat /\ k - 1 + 1 = k /\ \A i \in 1..k : 1 + i - 1 = i
  BY <1>1
<1> QED
  BY <1>3, <1>4

\* ... and those that are left when they have been read.
LEMMA ConsumeFacts ==
  ASSUME TypeOK, NEW c \in Conns, NEW k \in 0..avail[c], Consume(c, k)
  PROVE  /\ stream' \in [Conns -> Seq(Cell)]
         /\ \A d \in Conns \ {c} : stream'[d] = stream[d] /\ avail'[d] = avail[d]
         /\ Len(stream'[c]) = Len(stream[c]) - k /\ avail'[c] = avail[c] - k
         /\ \A i \in 1..Len(stream'[c]) : stream'[c][i] = stream[c][i + k]
<1> DEFINE n == Len(stream[c])
<1> DEFINE rest == SubSeq(stream[c], k + 1, n)
<1>1. /\ n \in Nat /\ avail[c] \in 0..n
      /\ \A i \in 1..n : stream[c][i] \in Cell
  BY StreamType
<1>2. k \in Nat /\ k <= n
  BY <1>1
<1>3. \A i \in k + 1..n : stream[c][i] \in Cell
  BY <1>1, <1>2
<1>4. /\ rest \in Seq(Cell)
      /\ Len(rest) = IF k + 1 <= n THEN n - (k + 1) + 1 ELSE 0
      /\ \A i \in 1..n - (k + 1) + 1 : rest[i] = stream[c][(k + 1) + i - 1]
  BY <1>1, <1>2, <1>3, SubSeqProperties
<1>5. stream' \in [Conns -> Seq(Cell)] /\ stream'[c] = rest
  BY <1>4 DEF Consume, TypeOK
<1>6. /\ \A d \in Conns \ {c} : stream'[d] = stream[d] /\ avail'[d] = avail[d]
      /\ avail'[c] = avail[c] - k
  BY DEF Consume, TypeOK
<1> HIDE DEF n, rest
<1>7. Len(rest) = n - k
  BY <1>1, <1>2, <1>4
<1>8. \A i \in 1..n - k : rest[i] = stream[c][i + k]
  <2>1. \A i \in 1..n - k : i \in 1..n - (k + 1) + 1 /\ (k + 1) + i - 1 = i + k
    BY <1>1, <1>2
  <2> QED
    BY <1>4, <2>1
<1> QED
  BY <1>5, <1>6, <1>7, <1>8 DEF n

\* The header that is read is the first cells of the stream.
LEMMA HeaderFacts ==
  ASSUME TypeOK, NEW c \in Conns, avail[c] >= HeaderCells
  PROVE  LET got == SubSeq(stream[c], 1, HeaderCells)
         IN  /\ HeaderCells \in Nat \ {0} /\ HeaderCells \in 0..avail[c]
             /\ HeaderCells \in 0..Len(stream[c])
             /\ got \in Seq(Cell) /\ Len(got) = HeaderCells
             /\ \A i \in 1..HeaderCells : got[i] = stream[c][i]
             /\ got[HeaderCells].msg.len \in 0..MaxLen
<1> DEFINE got == SubSeq(stream[c], 1, HeaderCells)
<1>1. HeaderCells \in Nat \ {0} /\ HeaderCells \in 0..avail[c] /\ HeaderCells \in 0..Len(stream[c])
  BY StreamType, FramingAssumptions
<1>2. /\ got \in Seq(Cell) /\ Len(got) = HeaderCells
      /\ \A i \in 1..HeaderCells : got[i] = stream[c][i]
  BY <1>1, TakeFacts
<1> HIDE DEF got
<1>3. got[HeaderCells] \in Cell
  BY <1>1, <1>2, ElementOfSeq
<1>4. got[HeaderCells].msg.len \in 0..MaxLen
  BY <1>3 DEF Cell, Message
<1> QED
  BY <1>1, <1>2, <1>4 DEF got

\* The cells of a payload that are read now.
PayloadRead(c) == IF avail[c] < need THEN avail[c] ELSE need

LEMMA PayloadFacts ==
  ASSUME TypeOK, NEW c \in Conns, avail[c] > 0, need > 0
  PROVE  LET k == PayloadRead(c)
             got == cells \o SubSeq(stream[c], 1, k)
         IN  /\ k \in Nat \ {0} /\ k \in 0..avail[c] /\ k <= need /\ k \in 0..Len(stream[c])
             /\ got \in Seq(Cell) /\ Len(got) = Len(cells) + k /\ Len(cells) \in Nat
             /\ \A i \in 1..Len(cells) + k :
                  got[i] = IF i <= Len(cells) THEN cells[i] ELSE stream[c][i - Len(cells)]
<1> DEFINE k == PayloadRead(c)
<1> DEFINE part == SubSeq(stream[c], 1, k)
<1>1. need \in Nat /\ Len(stream[c]) \in Nat /\ avail[c] \in 0..Len(stream[c])
  BY StreamType, FramingAssumptions DEF TypeOK
<1>2. k \in Nat \ {0} /\ k \in 0..avail[c] /\ k <= need /\ k \in 0..Len(stream[c])
  BY <1>1 DEF PayloadRead
<1> HIDE DEF k
<1>3. part \in Seq(Cell) /\ Len(part) = k /\ \A i \in 1..k : part[i] = stream[c][i]
  BY <1>2, TakeFacts
<1> HIDE DEF part
<1>4. cells \in Seq(Cell) /\ Len(cells) \in Nat
  BY DEF TypeOK
<1>5. /\ cells \o part \in Seq(Cell) /\ Len(cells \o part) = Len(cells) + Len(part)
      /\ \A i \in 1..Len(cells) + Len(part) :
           (cells \o part)[i] = IF i <= Len(cells) THEN cells[i] ELSE part[i - Len(cells)]
  BY <1>3, <1>4, ConcatProperties
<1>6. ASSUME NEW i \in 1..Len(cells) + k
      PROVE  (cells \o part)[i] = IF i <= Len(cells) THEN cells[i] ELSE stream[c][i - Len(cells)]
  <2>1. CASE i <= Len(cells)
    BY <1>3, <1>5, <2>1
  <2>2. CASE ~(i <= Len(cells))
    <3>1. i - Len(cells) \in 1..k
      BY <1>2, <1>4, <2>2
    <3> QED
      BY <1>3, <1>5, <2>2, <3>1
  <2> QED
    BY <2>1, <2>2
<1> QED
  BY <1>2, <1>3, <1>4, <1>5, <1>6 DEF k, part

\* What dsm_handle_message is called with.
LEMMA HandleFacts ==
  ASSUME TypeOK, NEW c \in Conns, NEW got \in Seq(Cell), Len(got) > 0, Handle(c, got)
  PROVE  /\ \E h \in Message \cup {Garbled} :
              /\ handled' = [handled EXCEPT ![c] = Append(handled[c], h)]
              /\ got = CellsOf(got[1].msg) => h = got[1].msg
         /\ handled' \in [Conns -> Seq(Message \cup {Garbled})]
         /\ step' = "peek" /\ cells' = <<>> /\ need' = 0 /\ serving' = serving
<1> DEFINE h == IF got = CellsOf(got[1].msg) THEN got[1].msg ELSE Garbled
<1>1. 1 \in 1..Len(got)
  OBVIOUS
<1>2. got[1] \in Cell
  BY <1>1, ElementOfSeq
<1>3. h \in Message \cup {Garbled}
  BY <1>2 DEF Cell
<1>4. got = CellsOf(got[1].msg) => h = got[1].msg
  OBVIOUS
<1>5. handled' = [handled EXCEPT ![c] = Append(handled[c], h)]
  BY DEF Handle
<1> HIDE DEF h
<1>6. Append(handled[c], h) \in Seq(Message \cup {Garbled})
  BY <1>3, AppendProperties DEF TypeOK
<1>7. handled' \in [Conns -> Seq(Message \cup {Garbled})]
  BY <1>5, <1>6 DEF TypeOK
<1> QED
  BY <1>3, <1>4, <1>5, <1>7 DEF Handle

-----------------------------------------------------------------------------
(* Types, and what the TCP thread has at hand *)

SendType ==
  /\ current \in [Conns -> [Threads -> Message \cup {None}]]
  /\ written \in [Conns -> [Threads -> Nat]] /\ begun \in [Conns -> [Threads -> Nat]]
  /\ sent \in [Conns -> Seq(Message)] /\ overlap \in [Conns -> BOOLEAN]
NetType ==
  /\ stream \in [Conns -> Seq(Cell)] /\ avail \in [Conns -> Nat]
  /\ \A c \in Conns : avail[c] \in 0..Len(stream[c]) /\ Len(stream[c]) <= Capacity
  /\ alive \in [Conns -> BOOLEAN] /\ event \in [Conns -> BOOLEAN]
RecvType ==
  /\ open \in [Conns -> BOOLEAN]
  /\ serving \in Conns \cup {"idle"} /\ step \in {"peek", "payload"}
  /\ cells \in Seq(Cell) /\ need \in 0..MaxLen /\ eagain \in BOOLEAN
  /\ handled \in [Conns -> Seq(Message \cup {Garbled})]
  /\ ReceiverInv

LEMMA TypeParts == TypeOK /\ ReceiverInv <=> SendType /\ NetType /\ RecvType
  BY DEF TypeOK, SendType, NetType, RecvType

LEMMA SendKeeps ==
  ASSUME SendType, UNCHANGED sendVars
  PROVE  SendType'
  BY DEF SendType, sendVars

LEMMA RecvKeeps ==
  ASSUME RecvType, UNCHANGED recvVars
  PROVE  RecvType'
  BY DEF RecvType, ReceiverInv, recvVars

\* dsm_tcp_send: the cells of a message are added at the end.
LEMMA WriteTypes ==
  ASSUME TypeOK, NEW c \in Conns, NEW t \in Threads, NEW m \in Message, NEW from \in Nat,
         WriteCells(c, t, m, from), UNCHANGED <<avail, alive, event>>
  PROVE  /\ current' \in [Conns -> [Threads -> Message \cup {None}]]
         /\ written' \in [Conns -> [Threads -> Nat]] /\ overlap' \in [Conns -> BOOLEAN]
         /\ NetType'
<1>1. PICK to \in Nat :
           /\ from < to /\ to <= Size(m) /\ (from < HeaderCells => to <= HeaderCells)
           /\ stream' \in [Conns -> Seq(Cell)]
           /\ \A d \in Conns \ {c} : stream'[d] = stream[d]
           /\ Len(stream'[c]) = Len(stream[c]) + (to - from)
           /\ Len(stream'[c]) <= Capacity
           /\ written' = [written EXCEPT ![c][t] = IF to = Size(m) THEN 0 ELSE to]
           /\ current' = [current EXCEPT ![c][t] = IF to = Size(m) THEN None ELSE m]
           /\ overlap' = [overlap EXCEPT ![c] =
                            @ \/ \E u \in Threads \ {t} : current[c][u] # None]
  BY WriteFacts
<1>2. current' \in [Conns -> [Threads -> Message \cup {None}]]
  BY <1>1 DEF TypeOK
<1>3. written' \in [Conns -> [Threads -> Nat]]
  BY <1>1 DEF TypeOK
<1>4. overlap' \in [Conns -> BOOLEAN]
  BY <1>1 DEF TypeOK
<1>5. ASSUME NEW d \in Conns PROVE avail[d] \in 0..Len(stream'[d]) /\ Len(stream'[d]) <= Capacity
  <2>1. Len(stream[d]) \in Nat /\ avail[d] \in 0..Len(stream[d]) /\ Len(stream[d]) <= Capacity
    BY StreamType
  <2>2. CASE d # c
    BY <1>1, <2>1, <2>2
  <2>3. CASE d = c
    <3>1. PICK n \in Nat : n = Len(stream[c])
      BY <2>1, <2>3
    <3> QED
      BY <1>1, <2>1, <2>3, <3>1
  <2> QED
    BY <2>2, <2>3
<1>6. NetType'
  BY <1>1, <1>5 DEF NetType, TypeOK
<1> QED
  BY <1>2, <1>3, <1>4, <1>6

LEMMA ConsumeTypes ==
  ASSUME TypeOK, NEW c \in Conns, NEW k \in 0..avail[c], Consume(c, k), UNCHANGED <<alive, event>>
  PROVE  NetType'
<1>1. /\ stream' \in [Conns -> Seq(Cell)]
      /\ \A d \in Conns \ {c} : stream'[d] = stream[d] /\ avail'[d] = avail[d]
      /\ Len(stream'[c]) = Len(stream[c]) - k /\ avail'[c] = avail[c] - k
  BY ConsumeFacts
<1>2. ASSUME NEW d \in Conns
      PROVE  avail'[d] \in 0..Len(stream'[d]) /\ Len(stream'[d]) <= Capacity /\ avail'[d] \in Nat
  <2>1. Len(stream[d]) \in Nat /\ avail[d] \in 0..Len(stream[d]) /\ Len(stream[d]) <= Capacity
    BY StreamType
  <2>2. CASE d # c
    BY <1>1, <2>1, <2>2
  <2>3. CASE d = c
    <3>1. PICK n \in Nat, a \in Nat : n = Len(stream[c]) /\ a = avail[c]
      BY <2>1, <2>3
    <3> QED
      BY <1>1, <2>1, <2>3, <3>1, FramingAssumptions
  <2> QED
    BY <2>2, <2>3
<1>3. avail' = [avail EXCEPT ![c] = avail[c] - k]
  BY DEF Consume
<1>4. avail' \in [Conns -> Nat]
  BY <1>2, <1>3 DEF TypeOK
<1> QED
  BY <1>1, <1>2, <1>4 DEF NetType, TypeOK

LEMMA FrameTypeStep ==
  ASSUME TypeOK, ReceiverInv, Next
  PROVE  TypeOK' /\ ReceiverInv'
<1> SUFFICES SendType' /\ NetType' /\ RecvType'
  BY DEF TypeOK, SendType, NetType, RecvType
<1>0. SendType /\ NetType /\ RecvType
  BY TypeParts
<1>1. ASSUME NEW c \in Conns, NEW t \in Threads, NEW len \in Lens[c], SendBegin(c, t, len)
      PROVE  SendType' /\ NetType' /\ RecvType'
  <2> DEFINE m == [thread |-> t, number |-> begun[c][t] + 1, len |-> len]
  <2>1. begun[c][t] \in Nat /\ len \in 0..MaxLen
    BY FramingAssumptions DEF TypeOK
  <2>2. m \in Message
    BY <2>1 DEF Message
  <2>3. /\ WriteCells(c, t, m, 0) /\ sent' = [sent EXCEPT ![c] = Append(sent[c], m)]
        /\ begun' = [begun EXCEPT ![c][t] = begun[c][t] + 1]
        /\ UNCHANGED <<alive, avail, event, recvVars>>
    BY <1>1 DEF SendBegin
  <2> HIDE DEF m
  <2>4. Append(sent[c], m) \in Seq(Message)
    BY <2>2, AppendProperties DEF TypeOK
  <2>5. sent' \in [Conns -> Seq(Message)] /\ begun' \in [Conns -> [Threads -> Nat]]
    <3>1. sent' \in [Conns -> Seq(Message)]
      BY <2>3, <2>4 DEF TypeOK
    <3>2. begun[c][t] + 1 \in Nat
      BY <2>1
    <3>3. begun' \in [Conns -> [Threads -> Nat]]
      BY <2>3, <3>2 DEF TypeOK
    <3> QED
      BY <3>1, <3>3
  <2>6. /\ current' \in [Conns -> [Threads -> Message \cup {None}]]
        /\ written' \in [Conns -> [Threads -> Nat]] /\ overlap' \in [Conns -> BOOLEAN]
        /\ NetType'
    BY <2>2, <2>3, WriteTypes
  <2> QED
    BY <1>0, <2>3, <2>5, <2>6, RecvKeeps DEF SendType
<1>2. ASSUME NEW c \in Conns, NEW t \in Threads, SendCells(c, t)
      PROVE  SendType' /\ NetType' /\ RecvType'
  <2>1. current[c][t] \in Message /\ written[c][t] \in Nat
    BY <1>2 DEF SendCells, TypeOK
  <2>2. /\ current' \in [Conns -> [Threads -> Message \cup {None}]]
        /\ written' \in [Conns -> [Threads -> Nat]] /\ overlap' \in [Conns -> BOOLEAN]
        /\ NetType'
    BY <1>2, <2>1, WriteTypes DEF SendCells
  <2> QED
    BY <1>0, <1>2, <2>2, RecvKeeps DEF SendCells, SendType
<1>3. ASSUME NEW c \in Conns, Crash(c) PROVE SendType' /\ NetType' /\ RecvType'
  <2>1. PICK k \in avail[c]..Len(stream[c]) : stream' = [stream EXCEPT ![c] = SubSeq(stream[c], 1, k)]
    BY <1>3 DEF Crash
  <2>2. Len(stream[c]) \in Nat /\ avail[c] \in 0..Len(stream[c]) /\ Len(stream[c]) <= Capacity
    BY StreamType
  <2>3. k \in 0..Len(stream[c])
    BY <2>2
  <2>4. SubSeq(stream[c], 1, k) \in Seq(Cell) /\ Len(SubSeq(stream[c], 1, k)) = k
    BY <2>3, TakeFacts
  <2>5. k <= Capacity /\ avail[c] \in 0..k
    BY <2>2, <2>3, FramingAssumptions
  <2>6. stream' \in [Conns -> Seq(Cell)] /\ stream'[c] = SubSeq(stream[c], 1, k)
        /\ \A d \in Conns \ {c} : stream'[d] = stream[d]
    BY <2>1, <2>4 DEF TypeOK
  <2>7. \A d \in Conns : avail[d] \in 0..Len(stream'[d]) /\ Len(stream'[d]) <= Capacity
    BY <2>4, <2>5, <2>6 DEF TypeOK
  <2>8. NetType'
    BY <1>3, <2>6, <2>7 DEF Crash, NetType, TypeOK
  <2> QED
    BY <1>0, <1>3, <2>8, SendKeeps, RecvKeeps DEF Crash
<1>4. ASSUME NEW c \in Conns, Arrive(c) PROVE SendType' /\ NetType' /\ RecvType'
  <2>1. PICK k \in avail[c] + 1..Len(stream[c]) : avail' = [avail EXCEPT ![c] = k]
    BY <1>4 DEF Arrive
  <2>2. k \in 0..Len(stream[c]) /\ k \in Nat
    BY StreamType
  <2>3. NetType'
    BY <1>4, <2>1, <2>2 DEF Arrive, NetType, TypeOK
  <2> QED
    BY <1>0, <1>4, <2>3, SendKeeps, RecvKeeps DEF Arrive
<1>5. ASSUME NEW c \in Conns, EpollWait(c) PROVE SendType' /\ NetType' /\ RecvType'
  <2>1. NetType'
    BY <1>5 DEF EpollWait, NetType, TypeOK
  <2>2. RecvType'
    BY <1>5, FramingAssumptions DEF EpollWait, RecvType, TypeOK, ReceiverInv
  <2> QED
    BY <1>0, <1>5, <2>1, <2>2, SendKeeps DEF EpollWait
<1>6. ASSUME NEW c \in Conns, PeekEof(c) \/ PeekEmpty(c) \/ PeekShort(c) \/ ReadEof(c)
      PROVE  SendType' /\ NetType' /\ RecvType'
  <2>1. NetType'
    BY <1>0, <1>6 DEF PeekEof, PeekEmpty, PeekShort, ReadEof, NetType
  <2>2. SendType'
    BY <1>0, <1>6, SendKeeps DEF PeekEof, PeekEmpty, PeekShort, ReadEof
  <2>3. /\ Return /\ handled' = handled /\ eagain' \in BOOLEAN
        /\ open' \in [Conns -> BOOLEAN]
    BY <1>0, <1>6 DEF PeekEof, PeekEmpty, PeekShort, ReadEof, RecvType
  <2>4. RecvType'
    BY <1>0, <2>3, FramingAssumptions, EmptySeq DEF Return, RecvType, ReceiverInv
  <2> QED
    BY <2>1, <2>2, <2>4
<1>7. ASSUME NEW c \in Conns, ReadHeader(c) PROVE SendType' /\ NetType' /\ RecvType'
  <2> DEFINE got == SubSeq(stream[c], 1, HeaderCells)
  <2>1. /\ HeaderCells \in Nat \ {0} /\ HeaderCells \in 0..avail[c]
        /\ got \in Seq(Cell) /\ Len(got) = HeaderCells
        /\ got[HeaderCells].msg.len \in 0..MaxLen
    BY <1>7, HeaderFacts DEF ReadHeader
  <2>2. NetType'
    BY <1>7, <2>1, ConsumeTypes DEF ReadHeader
  <2>3. SendType'
    BY <1>0, <1>7, SendKeeps DEF ReadHeader
  <2>4. /\ open' = open /\ eagain' \in BOOLEAN
        /\ \/ Return /\ handled' = handled
           \/ Handle(c, got)
           \/ \E len \in 1..MaxLen : /\ step' = "payload" /\ cells' = got /\ need' = len
                                     /\ UNCHANGED <<serving, handled>>
    BY <1>0, <1>7 DEF ReadHeader, Handle, RecvType
  <2>s. serving = c /\ c # "idle"
    BY <1>7, FramingAssumptions DEF ReadHeader, Peeking
  <2> HIDE DEF got
  <2>5. CASE Return /\ handled' = handled
    BY <1>0, <2>2, <2>3, <2>4, <2>5, FramingAssumptions, EmptySeq
       DEF Return, RecvType, ReceiverInv
  <2>6. CASE Handle(c, got)
    <3>1. /\ handled' \in [Conns -> Seq(Message \cup {Garbled})]
          /\ step' = "peek" /\ cells' = <<>> /\ need' = 0 /\ serving' = serving
      BY <2>1, <2>6, HandleFacts
    <3> QED
      BY <1>0, <2>2, <2>3, <2>4, <3>1, FramingAssumptions, EmptySeq DEF RecvType, ReceiverInv
  <2>7. CASE \E len \in 1..MaxLen : /\ step' = "payload" /\ cells' = got /\ need' = len
                                    /\ UNCHANGED <<serving, handled>>
    BY <1>0, <2>1, <2>2, <2>3, <2>4, <2>7, <2>s, FramingAssumptions DEF RecvType, ReceiverInv
  <2> QED
    BY <2>2, <2>3, <2>4, <2>5, <2>6, <2>7
<1>8. ASSUME NEW c \in Conns, ReadPayload(c) PROVE SendType' /\ NetType' /\ RecvType'
  <2> DEFINE k == PayloadRead(c)
  <2> DEFINE got == cells \o SubSeq(stream[c], 1, k)
  <2>0. serving = c /\ c # "idle" /\ need > 0 /\ avail[c] > 0 /\ Len(cells) >= HeaderCells
    BY <1>8, FramingAssumptions DEF ReadPayload, Reading, ReceiverInv
  <2>1. /\ k \in Nat \ {0} /\ k \in 0..avail[c] /\ k <= need
        /\ got \in Seq(Cell) /\ Len(got) = Len(cells) + k /\ Len(cells) \in Nat
    BY <2>0, PayloadFacts
  <2>4. /\ Consume(c, k) /\ UNCHANGED <<alive, event, open, sendVars>> /\ eagain' \in BOOLEAN
        /\ \/ Handle(c, got)
           \/ /\ k # need /\ cells' = got /\ need' = need - k
              /\ UNCHANGED <<serving, step, handled>>
    BY <1>0, <1>8 DEF ReadPayload, PayloadRead, Handle, RecvType
  <2> HIDE DEF k, got
  <2>2. NetType'
    BY <2>1, <2>4, ConsumeTypes
  <2>3. SendType'
    BY <1>0, <2>4, SendKeeps
  <2>n. Len(got) > 0 /\ need \in 0..MaxLen /\ MaxLen \in Nat /\ HeaderCells \in Nat
    BY <1>0, <2>1, FramingAssumptions DEF RecvType
  <2>5. CASE Handle(c, got)
    <3>1. /\ handled' \in [Conns -> Seq(Message \cup {Garbled})]
          /\ step' = "peek" /\ cells' = <<>> /\ need' = 0 /\ serving' = serving
      BY <2>1, <2>5, <2>n, HandleFacts
    <3> QED
      BY <1>0, <2>2, <2>3, <2>4, <3>1, FramingAssumptions, EmptySeq DEF RecvType, ReceiverInv
  <2>6. CASE /\ k # need /\ cells' = got /\ need' = need - k
             /\ UNCHANGED <<serving, step, handled>>
    <3>1. need' \in 0..MaxLen /\ need' > 0
      BY <2>1, <2>6, <2>n
    <3>2. Len(got) >= HeaderCells
      BY <2>0, <2>1, <2>n
    <3>3. step = "payload"
      BY <1>8 DEF ReadPayload, Reading
    <3> QED
      BY <1>0, <2>0, <2>1, <2>2, <2>3, <2>4, <2>6, <3>1, <3>2, <3>3 DEF RecvType, ReceiverInv
  <2> QED
    BY <2>4, <2>5, <2>6
<1>9. ASSUME NEW c \in Conns, ReadWait(c) PROVE SendType' /\ NetType' /\ RecvType'
  <2>1. NetType' /\ RecvType'
    BY <1>0, <1>9 DEF ReadWait, NetType, RecvType, ReceiverInv
  <2> QED
    BY <1>0, <1>9, <2>1, SendKeeps DEF ReadWait
<1> QED
  BY <1>1, <1>2, <1>3, <1>4, <1>5, <1>6, <1>7, <1>8, <1>9 DEF Next, SendStep, ReceiveStep

-----------------------------------------------------------------------------
(* The tape: the cells that are not handled yet *)

ConnInv(c) == ~overlap[c] => WriterInv(c) /\ TapeInv(c)

LEMMA TapeType ==
  ASSUME TypeOK, NEW c \in Conns
  PROVE  /\ Read(c) \in Seq(Cell) /\ Len(Read(c)) \in Nat /\ Len(stream[c]) \in Nat
         /\ Ahead(c) \in Nat /\ Ahead(c) = Len(Read(c)) + Len(stream[c])
         /\ sent[c] \in Seq(Message) /\ Len(sent[c]) \in Nat
         /\ \A j \in 1..Len(sent[c]) : sent[c][j] \in Message /\ Size(sent[c][j]) \in Nat
         /\ handled[c] \in Seq(Message \cup {Garbled}) /\ Len(handled[c]) \in Nat
<1>1. Read(c) \in Seq(Cell) /\ Len(Read(c)) \in Nat
  BY EmptySeq DEF Read, TypeOK
<1>2. Len(stream[c]) \in Nat
  BY StreamType
<1>3. sent[c] \in Seq(Message) /\ Len(sent[c]) \in Nat
  BY DEF TypeOK
<1>4. \A j \in 1..Len(sent[c]) : sent[c][j] \in Message /\ Size(sent[c][j]) \in Nat
  BY <1>3, ElementOfSeq, CellFacts
<1>5. handled[c] \in Seq(Message \cup {Garbled}) /\ Len(handled[c]) \in Nat
  BY DEF TypeOK
<1> QED
  BY <1>1, <1>2, <1>3, <1>4, <1>5 DEF Ahead

\* The message that is handled next is at the front.
LEMMA NextMessage ==
  ASSUME TypeOK, NEW c \in Conns, TapeInv(c), Ahead(c) > 0
  PROVE  LET m == sent[c][Len(handled[c]) + 1]
         IN  /\ Len(handled[c]) + 1 \in 1..Len(sent[c]) /\ m \in Message
             /\ \A k \in 1..Size(m) : k <= Ahead(c) => CellAhead(c, k) = [msg |-> m, k |-> k]
<1> DEFINE h == Len(handled[c])
<1> DEFINE n == Len(sent[c])
<1> DEFINE m == sent[c][h + 1]
<1>1. h \in Nat /\ n \in Nat /\ h <= n /\ Ahead(c) \in Nat
  BY TapeType DEF TapeInv, IsInitialPart
<1>2. PICK start \in [1..n + 1 -> Nat] : Tape(c, start)
  BY DEF TapeInv
<1>3. start[h + 1] + Ahead(c) <= start[n + 1]
  BY <1>2 DEF Tape
<1>4. h # n
  <2> SUFFICES ASSUME h = n PROVE FALSE
    OBVIOUS
  <2>1. PICK s \in Nat : s = start[n + 1]
    BY <1>1, <1>2
  <2>2. PICK a \in Nat : a = Ahead(c) /\ a > 0
    BY <1>1
  <2>3. s + a <= s
    BY <1>3, <2>1, <2>2
  <2> HIDE DEF n, h
  <2> QED
    BY <2>2, <2>3
<1>5. h + 1 \in 1..n
  BY <1>1, <1>4
<1>6. m \in Message /\ Size(m) \in Nat
  BY <1>5, TapeType
<1>7. ASSUME NEW k \in 1..Size(m), k <= Ahead(c) PROVE CellAhead(c, k) = [msg |-> m, k |-> k]
  <2>1. k \in 1..Ahead(c)
    BY <1>1, <1>6, <1>7
  <2> QED
    BY <1>2, <1>5, <2>1 DEF Tape
<1> QED
  BY <1>5, <1>6, <1>7

\* A tape that keeps its cells.
LEMMA TapeSame ==
  ASSUME TypeOK, NEW c \in Conns, TapeInv(c), Ahead(c)' = Ahead(c),
         \A i \in 1..Ahead(c) : CellAhead(c, i)' = CellAhead(c, i),
         sent'[c] = sent[c], handled'[c] = handled[c], alive'[c] = alive[c],
         current'[c] = current[c], written'[c] = written[c]
  PROVE  /\ IsInitialPart(handled[c], sent[c])'
         /\ \E start \in [1..Len(sent'[c]) + 1 -> Nat] : Tape(c, start)'
<1>1. PICK start \in [1..Len(sent[c]) + 1 -> Nat] : Tape(c, start)
  BY DEF TapeInv
<1>2. Tape(c, start)'
  BY <1>1 DEF Tape
<1>3. IsInitialPart(handled[c], sent[c])'
  BY DEF TapeInv, IsInitialPart
<1> QED
  BY <1>1, <1>2, <1>3

\* A connection that nothing happens on.
LEMMA ConnFrame ==
  ASSUME TypeOK, NEW c \in Conns, ConnInv(c),
         overlap'[c] = overlap[c], stream'[c] = stream[c], Read(c)' = Read(c),
         sent'[c] = sent[c], handled'[c] = handled[c], alive'[c] = alive[c],
         current'[c] = current[c], written'[c] = written[c],
         Reading(c)' => Reading(c) /\ cells' = cells /\ need' = need
  PROVE  ConnInv(c)'
<1> SUFFICES ASSUME ~overlap[c] PROVE WriterInv(c)' /\ TapeInv(c)'
  BY DEF ConnInv
<1>1. WriterInv(c) /\ TapeInv(c)
  BY DEF ConnInv
<1>2. Ahead(c)' = Ahead(c) /\ \A i \in 1..Ahead(c) : CellAhead(c, i)' = CellAhead(c, i)
  BY DEF Ahead, CellAhead
<1>3. /\ IsInitialPart(handled[c], sent[c])'
      /\ \E start \in [1..Len(sent'[c]) + 1 -> Nat] : Tape(c, start)'
  BY <1>1, <1>2, TapeSame
<1>4. WriterInv(c)'
  BY <1>1 DEF WriterInv
<1>5. TapeInv(c)'
  BY <1>1, <1>3 DEF TapeInv
<1> QED
  BY <1>4, <1>5

\* A tape that loses cells at its end, for good: the peer is dead.
LEMMA TapeShrinks ==
  ASSUME TypeOK, NEW c \in Conns, ConnInv(c), ~alive'[c],
         overlap'[c] = overlap[c], current'[c] = current[c], written'[c] = written[c],
         sent'[c] = sent[c], handled'[c] = handled[c],
         Ahead(c)' \in Nat, Ahead(c)' <= Ahead(c),
         \A i \in 1..Ahead(c)' : CellAhead(c, i)' = CellAhead(c, i),
         Reading(c)' => Reading(c) /\ cells' = cells /\ need' = need
  PROVE  ConnInv(c)'
<1> SUFFICES ASSUME ~overlap[c] PROVE WriterInv(c)' /\ TapeInv(c)'
  BY DEF ConnInv
<1>1. WriterInv(c) /\ TapeInv(c) /\ Ahead(c) \in Nat
  BY TapeType DEF ConnInv
<1>2. PICK start \in [1..Len(sent[c]) + 1 -> Nat] : Tape(c, start)
  BY <1>1 DEF TapeInv
<1>3. start[Len(handled[c]) + 1] \in Nat /\ start[Len(sent[c]) + 1] \in Nat
  <2>1. Len(handled[c]) \in Nat /\ Len(sent[c]) \in Nat
    BY TapeType
  <2>2. Len(handled[c]) <= Len(sent[c])
    BY <1>1 DEF TapeInv, IsInitialPart
  <2>3. Len(handled[c]) + 1 \in 1..Len(sent[c]) + 1 /\ Len(sent[c]) + 1 \in 1..Len(sent[c]) + 1
    BY <2>1, <2>2
  <2> QED
    BY <1>2, <2>3
<1>4. start[Len(handled[c]) + 1] + Ahead(c)' <= start[Len(sent[c]) + 1]
  <2>1. start[Len(handled[c]) + 1] + Ahead(c) <= start[Len(sent[c]) + 1]
    BY <1>2 DEF Tape
  <2> QED
    BY <1>1, <1>3, <2>1
<1>5. Tape(c, start)'
  <2>1. \A i \in 1..Ahead(c)' : i \in 1..Ahead(c)
    BY <1>1
  <2> QED
    BY <1>2, <1>4, <2>1 DEF Tape
<1>6. TapeInv(c)'
  BY <1>1, <1>2, <1>5 DEF TapeInv, IsInitialPart
<1>7. WriterInv(c)'
  BY <1>1 DEF WriterInv
<1> QED
  BY <1>6, <1>7

\* A message leaves the tape at its front when it is handled.
LEMMA TapeHandled ==
  ASSUME TypeOK, NEW c \in Conns, TapeInv(c), NEW k \in Nat, Ahead(c) > 0,
         Len(Read(c)) + k = Size(sent[c][Len(handled[c]) + 1]), k <= Len(stream[c]),
         handled'[c] = Append(handled[c], sent[c][Len(handled[c]) + 1]),
         Len(stream'[c]) = Len(stream[c]) - k,
         \A i \in 1..Len(stream'[c]) : stream'[c][i] = stream[c][i + k],
         Read(c)' = <<>>, ~Reading(c)',
         sent'[c] = sent[c], alive'[c] = alive[c], current'[c] = current[c],
         written'[c] = written[c]
  PROVE  TapeInv(c)'
<1> DEFINE h == Len(handled[c])
<1> DEFINE n == Len(sent[c])
<1> DEFINE m == sent[c][h + 1]
<1>1. /\ h \in Nat /\ n \in Nat /\ h + 1 \in 1..n /\ Size(m) \in Nat
      /\ m \in Message \cup {Garbled} /\ handled[c] \in Seq(Message \cup {Garbled})
  BY TapeType, NextMessage
<1>2. /\ Len(handled'[c]) = h + 1 /\ handled'[c][h + 1] = m
      /\ \A i \in 1..h : handled'[c][i] = handled[c][i]
  BY <1>1, AppendProperties
<1>3. IsInitialPart(handled[c], sent[c])'
  <2>1. ASSUME NEW i \in 1..h + 1 PROVE handled'[c][i] = sent[c][i]
    <3>1. CASE i = h + 1
      BY <1>2, <3>1
    <3>2. CASE i # h + 1
      <4>1. i \in 1..h
        BY <1>1, <3>2
      <4> QED
        BY <1>2, <4>1 DEF TapeInv, IsInitialPart
    <3> QED
      BY <3>1, <3>2
  <2> QED
    BY <1>1, <1>2, <2>1 DEF IsInitialPart
<1>4. PICK start \in [1..n + 1 -> Nat] : Tape(c, start)
  BY DEF TapeInv
<1>5. PICK r \in Nat, s \in Nat, z \in Nat :
        r = Len(Read(c)) /\ s = Len(stream[c]) /\ z = Size(m) /\ r + k = z
  BY <1>1, TapeType
<1>6. PICK p \in Nat, q \in Nat, e \in Nat :
        p = start[h + 1] /\ q = start[h + 2] /\ e = start[n + 1]
  <2> HIDE DEF h, n, m
  <2>1. h + 1 \in 1..n + 1 /\ h + 2 \in 1..n + 1 /\ n + 1 \in 1..n + 1
    BY <1>1
  <2> QED
    BY <1>4, <2>1
<1>7. q = p + z /\ p + (r + s) <= e
  <2>1. start[(h + 1) + 1] = start[h + 1] + Size(m)
    BY <1>1, <1>4 DEF Tape
  <2>2. (h + 1) + 1 = h + 2
    BY <1>1
  <2>3. start[h + 1] + Ahead(c) <= start[n + 1] /\ Ahead(c) = r + s
    BY <1>4, <1>5, TapeType DEF Tape
  <2> QED
    BY <1>5, <1>6, <2>1, <2>2, <2>3
<1>8. Ahead(c) = r + s /\ Ahead(c)' = s - k /\ Len(stream'[c]) = s - k /\ s - k \in Nat
  BY <1>5, TapeType, EmptySeq DEF Ahead
<1>9. q + (s - k) = p + (r + s)
  BY <1>5, <1>7
<1>10. ASSUME NEW i \in 1..(s - k)
       PROVE  /\ i + z \in 1..(r + s) /\ q + i = p + (i + z)
              /\ CellAhead(c, i)' = CellAhead(c, i + z)
  <2>1. i + z \in 1..(r + s) /\ ~(i + z <= r) /\ (i + z) - r = i + k /\ q + i = p + (i + z)
    <3>1. z = r + k /\ q = p + z /\ i \in Nat /\ 1 <= i /\ i <= s - k
      BY <1>5, <1>7, <1>8
    <3>2. i + z <= r + s /\ i + z \in Nat /\ 1 <= i + z
      BY <3>1
    <3>3. ~(i + z <= r) /\ (i + z) - r = i + k /\ q + i = p + (i + z)
      BY <3>1
    <3> QED
      BY <3>2, <3>3
  <2>2. CellAhead(c, i + z) = stream[c][i + k]
    BY <1>5, <2>1 DEF CellAhead
  <2>3. ~(i <= 0) /\ i - 0 = i
    OBVIOUS
  <2>4. CellAhead(c, i)' = stream'[c][i]
    BY <2>3, EmptySeq DEF CellAhead
  <2> QED
    BY <1>8, <2>1, <2>2, <2>4
<1>11. Tape(c, start)'
  <2>1. start[Len(handled'[c]) + 1] = q
    <3>1. (h + 1) + 1 = h + 2
      BY <1>1
    <3> QED
      BY <1>2, <1>6, <3>1
  <2>2. q + Ahead(c)' <= start[n + 1]
    BY <1>6, <1>7, <1>8, <1>9
  <2>3. ASSUME NEW j \in 1..n, NEW l \in 1..Size(sent[c][j]), NEW i \in 1..Ahead(c)',
               q + i = start[j] + l
        PROVE  CellAhead(c, i)' = [msg |-> sent[c][j], k |-> l]
    <3>1. i + z \in 1..Ahead(c) /\ start[h + 1] + (i + z) = start[j] + l
      BY <1>6, <1>8, <1>10, <2>3
    <3>2. CellAhead(c, i + z) = [msg |-> sent[c][j], k |-> l]
      BY <1>4, <3>1 DEF Tape
    <3> QED
      BY <1>8, <1>10, <3>2
  <2>4. q + Ahead(c)' = start[h + 1] + Ahead(c)
    BY <1>6, <1>8, <1>9
  <2> HIDE DEF h, n, m
  <2> QED
    BY <1>4, <2>1, <2>2, <2>3, <2>4 DEF Tape, n, h
<1> QED
  BY <1>3, <1>4, <1>11 DEF TapeInv

LEMMA Shift ==
  \A p, x, b, f, w \in Nat : p + x = b + f => p + (x + w) = b + (f + w)
  OBVIOUS

\* Cells from + 1 to to of m are added at the end.
Grown(c, m, from, to) ==
  /\ from < to /\ to <= Size(m)
  /\ Len(stream'[c]) = Len(stream[c]) + (to - from)
  /\ \A i \in 1..Len(stream[c]) : stream'[c][i] = stream[c][i]
  /\ \A i \in 1..(to - from) : stream'[c][Len(stream[c]) + i] = [msg |-> m, k |-> from + i]

\* So far the tape ends with cell from of the last message, m.
EndsIn(c, m, from, n, start) ==
  /\ n = Len(sent'[c]) /\ m = sent'[c][n]
  /\ \A j \in 1..n : sent'[c][j] \in Message /\ start[j + 1] = start[j] + Size(sent'[c][j])
  /\ \A i, j \in 1..n + 1 : i <= j => start[i] <= start[j]
  /\ start[Len(handled[c]) + 1] + Ahead(c) = start[n] + from
  /\ \A j \in 1..n : \A k \in 1..Size(sent'[c][j]) : \A i \in 1..Ahead(c) :
       start[Len(handled[c]) + 1] + i = start[j] + k =>
         CellAhead(c, i) = [msg |-> sent'[c][j], k |-> k]

\* The cells that are written are the next ones of the last message.
LEMMA TapeGrows ==
  ASSUME TypeOK, NEW c \in Conns, NEW t \in Threads, NEW m \in Message, NEW from \in Nat,
         NEW to \in Nat, Grown(c, m, from, to),
         NEW n \in Nat \ {0}, NEW start \in [1..n + 1 -> Nat], EndsIn(c, m, from, n, start),
         Len(handled[c]) + 1 \in 1..n + 1,
         handled'[c] = handled[c], Read(c)' = Read(c),
         \/ to = Size(m) /\ \A u \in Threads : current'[c][u] = None
         \/ to # Size(m) /\ current'[c][t] # None /\ written'[c][t] = to
  PROVE  Tape(c, start)'
<1> USE DEF Grown, EndsIn
<1> DEFINE h == Len(handled[c])
<1>a. h \in Nat /\ h + 1 \in 1..n + 1 /\ n \in 1..n /\ n \in 1..n + 1 /\ n + 1 \in 1..n + 1
  BY TapeType
<1>1. PICK r \in Nat, s \in Nat, w \in Nat :
        r = Len(Read(c)) /\ s = Len(stream[c]) /\ w = to - from /\ w > 0 /\ to = from + w
  <2>1. to - from \in Nat /\ to - from > 0 /\ to = from + (to - from)
    OBVIOUS
  <2> QED
    BY <2>1, TapeType
<1>2. PICK p \in Nat, b \in Nat, e \in Nat, z \in Nat :
        p = start[h + 1] /\ b = start[n] /\ e = start[n + 1] /\ z = Size(m)
  BY <1>a, CellFacts
<1>3. e = b + z /\ p + (r + s) = b + from /\ to <= z
  <2>1. start[n + 1] = start[n] + Size(sent'[c][n])
    BY <1>a
  <2>2. start[h + 1] + Ahead(c) = start[n] + from /\ Ahead(c) = r + s
    BY <1>1, TapeType
  <2> QED
    BY <1>2, <2>1, <2>2
<1>4. Ahead(c) = r + s /\ Ahead(c)' = (r + s) + w
  <2>1. Ahead(c) = r + s
    BY <1>1, TapeType
  <2>2. Ahead(c)' = r + (s + w)
    BY <1>1 DEF Ahead
  <2> QED
    BY <2>1, <2>2
<1>5. p + Ahead(c)' = b + to /\ b + to <= e
  <2>1. p + ((r + s) + w) = b + (from + w)
    <3>1. r + s \in Nat /\ p + (r + s) = b + from
      BY <1>3
    <3> QED
      BY <3>1, Shift
  <2>2. to = from + w
    BY <1>1
  <2>3. b + to <= e
    BY <1>3
  <2> QED
    BY <1>4, <2>1, <2>2, <2>3
<1>6. ASSUME NEW i \in 1..(r + s) PROVE CellAhead(c, i)' = CellAhead(c, i)
  <2>1. CASE i <= r
    BY <1>1, <2>1 DEF CellAhead
  <2>2. CASE ~(i <= r)
    <3>1. i - r \in 1..s
      BY <2>2
    <3> QED
      BY <1>1, <2>2, <3>1 DEF CellAhead
  <2> QED
    BY <2>1, <2>2
<1>7. ASSUME NEW i \in 1..w
      PROVE  CellAhead(c, (r + s) + i)' = [msg |-> m, k |-> from + i]
  <2>1. ~((r + s) + i <= r) /\ ((r + s) + i) - r = s + i
    OBVIOUS
  <2>2. CellAhead(c, (r + s) + i)' = stream'[c][s + i]
    BY <1>1, <2>1 DEF CellAhead
  <2>3. stream'[c][s + i] = [msg |-> m, k |-> from + i]
    BY <1>1
  <2> QED
    BY <2>2, <2>3
<1>8. ASSUME NEW j \in 1..n, NEW k \in 1..Size(sent'[c][j]), NEW i \in 1..Ahead(c)',
             p + i = start[j] + k
      PROVE  CellAhead(c, i)' = [msg |-> sent'[c][j], k |-> k]
  <2>0. PICK y \in Nat, v \in Nat : y = start[j] /\ v = Size(sent'[c][j])
    <3>1. j \in 1..n + 1 /\ sent'[c][j] \in Message
      OBVIOUS
    <3>2. Size(sent'[c][j]) \in Nat /\ start[j] \in Nat
      BY <3>1, CellFacts
    <3> QED
      BY <3>2
  <2>a. k \in Nat /\ k <= v /\ 1 <= k /\ p + i = y + k /\ i \in Nat /\ 1 <= i /\ i <= (r + s) + w
    BY <1>4, <1>8, <2>0
  <2>1. CASE i <= r + s
    <3>1. i \in 1..(r + s) /\ i \in 1..Ahead(c)
      BY <1>4, <2>1, <2>a
    <3>2. start[h + 1] + i = start[j] + k
      BY <1>2, <1>8
    <3>3. CellAhead(c, i) = [msg |-> sent'[c][j], k |-> k]
      BY <3>1, <3>2
    <3> QED
      BY <1>6, <3>1, <3>3
  <2>2. CASE ~(i <= r + s)
    <3>1. PICK x \in 1..w : i = (r + s) + x
      <4>1. i - (r + s) \in 1..w /\ i = (r + s) + (i - (r + s))
        BY <2>2, <2>a
      <4> QED
        BY <4>1
    <3>2. y + k = b + (from + x)
      BY <1>3, <2>a, <3>1
    <3>3. j = n
      <4> SUFFICES ASSUME j # n PROVE FALSE
        OBVIOUS
      <4>1. j + 1 \in 1..n + 1 /\ j + 1 <= n
        OBVIOUS
      <4>2. start[j + 1] <= start[n]
        BY <1>a, <4>1
      <4>3. start[j + 1] = start[j] + Size(sent'[c][j])
        OBVIOUS
      <4>4. y + v <= b
        BY <1>2, <2>0, <4>2, <4>3
      <4> QED
        BY <2>a, <3>2, <4>4
    <3>4. k = from + x
      <4>1. y = b
        BY <1>2, <2>0, <3>3
      <4> QED
        BY <2>a, <3>2, <4>1
    <3> QED
      BY <1>7, <3>1, <3>3, <3>4
  <2> QED
    BY <2>1, <2>2
<1>9. \/ /\ \A u \in Threads : current'[c][u] = None
         /\ p + Ahead(c)' = start[n + 1]
      \/ \E u \in Threads : /\ current'[c][u] # None
                            /\ p + Ahead(c)' = start[n] + written'[c][u]
  <2>1. CASE to = Size(m)
    <3>1. p + Ahead(c)' = start[n + 1]
      BY <1>2, <1>3, <1>5, <2>1
    <3> QED
      BY <2>1, <3>1
  <2>2. CASE to # Size(m)
    BY <1>2, <1>5, <2>2
  <2> QED
    BY <2>1, <2>2
<1>10. p + Ahead(c)' <= start[n + 1]
  BY <1>2, <1>5
<1>11. start[Len(handled'[c]) + 1] = p
  BY <1>2
<1> QED
  BY <1>8, <1>9, <1>10, <1>11 DEF Tape

-----------------------------------------------------------------------------
(* Every step keeps the tapes *)

\* WriteCells on a connection that only one thread is writing to.
LEMMA WriteConn ==
  ASSUME TypeOK, NEW c \in Conns, NEW t \in Threads, NEW m \in Message, NEW from \in Nat,
         WriteCells(c, t, m, from), UNCHANGED recvVars, ~overlap'[c],
         NEW n \in Nat \ {0}, NEW start \in [1..n + 1 -> Nat], EndsIn(c, m, from, n, start),
         IsInitialPart(handled[c], sent'[c]),
         Reading(c) => /\ Len(handled[c]) < n
                       /\ Len(cells) + need = Size(sent'[c][Len(handled[c]) + 1])
  PROVE  WriterInv(c)' /\ TapeInv(c)'
<1>1. PICK to \in Nat :
        /\ Grown(c, m, from, to)
        /\ written' = [written EXCEPT ![c][t] = IF to = Size(m) THEN 0 ELSE to]
        /\ current' = [current EXCEPT ![c][t] = IF to = Size(m) THEN None ELSE m]
        /\ overlap' = [overlap EXCEPT ![c] =
                         overlap[c] \/ \E u \in Threads \ {t} : current[c][u] # None]
  <2>1. PICK to \in Nat :
           /\ from < to /\ to <= Size(m) /\ (from < HeaderCells => to <= HeaderCells)
           /\ stream' \in [Conns -> Seq(Cell)]
           /\ \A d \in Conns \ {c} : stream'[d] = stream[d]
           /\ Len(stream'[c]) = Len(stream[c]) + (to - from)
           /\ Len(stream'[c]) <= Capacity
           /\ \A i \in 1..Len(stream[c]) : stream'[c][i] = stream[c][i]
           /\ \A i \in 1..(to - from) :
                stream'[c][Len(stream[c]) + i] = [msg |-> m, k |-> from + i]
           /\ written' = [written EXCEPT ![c][t] = IF to = Size(m) THEN 0 ELSE to]
           /\ current' = [current EXCEPT ![c][t] = IF to = Size(m) THEN None ELSE m]
           /\ overlap' = [overlap EXCEPT ![c] =
                            overlap[c] \/ \E u \in Threads \ {t} : current[c][u] # None]
    BY WriteFacts, Zenon
  <2> QED
    BY <2>1 DEF Grown
<1>2. \A u \in Threads \ {t} : current[c][u] = None
  BY <1>1 DEF TypeOK
<1>3. /\ current'[c][t] = (IF to = Size(m) THEN None ELSE m)
      /\ \A u \in Threads \ {t} : current'[c][u] = None
      /\ written'[c][t] = (IF to = Size(m) THEN 0 ELSE to)
  BY <1>1, <1>2 DEF TypeOK
<1>4. /\ Read(c)' = Read(c) /\ handled'[c] = handled[c] /\ cells' = cells /\ need' = need
      /\ Reading(c)' <=> Reading(c)
  BY DEF Read, Reading, recvVars
<1>5. m # None /\ Size(m) \in Nat
  BY NotAMessage, CellFacts
<1>6. WriterInv(c)'
  <2> SUFFICES ASSUME NEW u \in Threads, current'[c][u] # None
               PROVE  /\ sent'[c] # <<>> /\ current'[c][u] = sent'[c][Len(sent'[c])]
                      /\ written'[c][u] \in 1..Size(current'[c][u]) - 1
                      /\ \A v \in Threads : current'[c][v] # None => v = u
    BY DEF WriterInv
  <2>1. u = t /\ to # Size(m)
    BY <1>3
  <2>2. current'[c][u] = m /\ written'[c][u] = to
    BY <1>3, <2>1
  <2>3. to \in 1..Size(m) - 1
    BY <1>1, <1>5, <2>1 DEF Grown
  <2>4. sent'[c] # <<>> /\ m = sent'[c][Len(sent'[c])]
    BY DEF EndsIn
  <2> QED
    BY <1>3, <2>1, <2>2, <2>3, <2>4
<1>7. \/ to = Size(m) /\ \A u \in Threads : current'[c][u] = None
      \/ to # Size(m) /\ current'[c][t] # None /\ written'[c][t] = to
  BY <1>3, <1>5
<1>8. Len(handled[c]) + 1 \in 1..n + 1
  BY TapeType DEF IsInitialPart, EndsIn
<1>9. Tape(c, start)'
  BY <1>1, <1>4, <1>7, <1>8, TapeGrows
<1> QED
  BY <1>4, <1>6, <1>9 DEF TapeInv, IsInitialPart, EndsIn

\* dsm_tcp_send is called: the message goes behind everything there is.
LEMMA SendBeginConn ==
  ASSUME TypeOK, NEW c \in Conns, ConnInv(c), NEW t \in Threads, NEW len \in Lens[c],
         SendBegin(c, t, len)
  PROVE  ConnInv(c)'
<1> SUFFICES ASSUME ~overlap'[c] PROVE WriterInv(c)' /\ TapeInv(c)'
  BY DEF ConnInv
<1> DEFINE m == [thread |-> t, number |-> begun[c][t] + 1, len |-> len]
<1> DEFINE L == Len(sent[c])
<1> DEFINE h == Len(handled[c])
<1>1. begun[c][t] \in Nat /\ len \in 0..MaxLen
  BY FramingAssumptions DEF TypeOK
<1>2. m \in Message
  BY <1>1 DEF Message
<1>3. /\ WriteCells(c, t, m, 0) /\ sent' = [sent EXCEPT ![c] = Append(sent[c], m)]
      /\ alive[c] /\ current[c][t] = None /\ UNCHANGED recvVars /\ alive' = alive
  BY DEF SendBegin
<1> HIDE DEF m
<1>4. /\ ~overlap[c] /\ \A u \in Threads \ {t} : current[c][u] = None
  <2>1. overlap' = [overlap EXCEPT ![c] =
                      overlap[c] \/ \E u \in Threads \ {t} : current[c][u] # None]
    BY <1>3 DEF WriteCells
  <2> QED
    BY <2>1 DEF TypeOK
<1>5. TapeInv(c) /\ L \in Nat /\ h \in Nat /\ h <= L
  BY <1>4, TapeType DEF ConnInv, TapeInv, IsInitialPart
<1>6. /\ sent[c] \in Seq(Message) /\ Len(sent'[c]) = L + 1 /\ sent'[c][L + 1] = m
      /\ \A j \in 1..L : sent'[c][j] = sent[c][j] /\ sent[c][j] \in Message
  <2>1. sent[c] \in Seq(Message) /\ \A j \in 1..L : sent[c][j] \in Message
    BY TapeType
  <2>2. sent'[c] = Append(sent[c], m)
    BY <1>3 DEF TypeOK
  <2> QED
    BY <1>2, <2>1, <2>2, AppendProperties
<1>7. PICK old \in [1..L + 1 -> Nat] : Tape(c, old)
  BY <1>5 DEF TapeInv
<1> DEFINE start == [j \in 1..(L + 1) + 1 |-> IF j <= L + 1 THEN old[j] ELSE old[L + 1] + Size(m)]
<1>8. PICK z \in Nat, e \in Nat, p \in Nat, a \in Nat :
        z = Size(m) /\ e = old[L + 1] /\ p = old[h + 1] /\ a = Ahead(c)
  <2>1. L + 1 \in 1..L + 1 /\ h + 1 \in 1..L + 1
    BY <1>5
  <2> QED
    BY <1>2, <1>7, <2>1, CellFacts, TapeType
<1> HIDE DEF L, h
<1>9. p + a = e
  <2>1. \A u \in Threads : current[c][u] = None
    BY <1>3, <1>4
  <2>2. old[h + 1] + Ahead(c) = old[L + 1]
    BY <1>3, <1>7, <2>1 DEF Tape, L, h
  <2> QED
    BY <1>8, <2>2
<1>10. /\ start \in [1..(L + 1) + 1 -> Nat] /\ \A j \in 1..L + 1 : start[j] = old[j]
       /\ start[(L + 1) + 1] = e + z
  <2>1. \A j \in 1..(L + 1) + 1 : j <= L + 1 => j \in 1..L + 1
    BY <1>5
  <2>2. \A j \in 1..L + 1 : j \in 1..(L + 1) + 1 /\ j <= L + 1
    BY <1>5
  <2>3. (L + 1) + 1 \in 1..(L + 1) + 1 /\ ~((L + 1) + 1 <= L + 1) /\ e + z \in Nat
    BY <1>5
  <2> QED
    BY <1>7, <1>8, <2>1, <2>2, <2>3
<1> HIDE DEF start
<1>11. ASSUME NEW j \in 1..L + 1
       PROVE  sent'[c][j] \in Message /\ start[j + 1] = start[j] + Size(sent'[c][j])
  <2>1. CASE j = L + 1
    BY <1>2, <1>6, <1>8, <1>10, <2>1 DEF L
  <2>2. CASE j # L + 1
    <3>1. j \in 1..L /\ j + 1 \in 1..L + 1
      BY <1>5, <2>2
    <3>2. old[j + 1] = old[j] + Size(sent[c][j])
      BY <1>7, <3>1 DEF Tape, L
    <3> QED
      BY <1>6, <1>10, <3>1, <3>2 DEF L
  <2> QED
    BY <2>1, <2>2
<1>12. ASSUME NEW i \in 1..(L + 1) + 1, NEW j \in 1..(L + 1) + 1, i <= j
       PROVE  start[i] <= start[j]
  <2>1. \A x, y \in 1..L + 1 : x <= y => old[x] <= old[y]
    BY <1>7 DEF Tape, L
  <2>2. CASE j <= L + 1
    <3>1. i \in 1..L + 1 /\ j \in 1..L + 1
      BY <1>5, <1>12, <2>2
    <3> QED
      BY <1>10, <1>12, <2>1, <3>1
  <2>3. CASE ~(j <= L + 1)
    <3>1. j = (L + 1) + 1 /\ L + 1 \in 1..L + 1
      BY <1>5, <2>3
    <3>2. CASE i = (L + 1) + 1
      BY <1>10, <3>1, <3>2
    <3>3. CASE i # (L + 1) + 1
      <4>1. i \in 1..L + 1 /\ i <= L + 1
        BY <1>5, <3>3
      <4>2. old[i] <= old[L + 1] /\ old[i] \in Nat
        BY <1>7, <2>1, <3>1, <4>1
      <4>3. old[i] <= e + z
        BY <1>8, <4>2
      <4> QED
        BY <1>10, <3>1, <4>1, <4>3
    <3> QED
      BY <3>2, <3>3
  <2> QED
    BY <2>2, <2>3
<1>13. start[h + 1] + Ahead(c) = start[L + 1] + 0
  <2>1. h + 1 \in 1..L + 1 /\ L + 1 \in 1..L + 1
    BY <1>5 DEF L, h
  <2>2. start[h + 1] = p /\ start[L + 1] = e
    BY <1>8, <1>10, <2>1
  <2> QED
    BY <1>8, <1>9, <2>2
<1>14. ASSUME NEW j \in 1..L + 1, NEW k \in 1..Size(sent'[c][j]), NEW i \in 1..Ahead(c),
              start[h + 1] + i = start[j] + k
       PROVE  CellAhead(c, i) = [msg |-> sent'[c][j], k |-> k]
  <2>0. h + 1 \in 1..L + 1
    BY <1>5 DEF L, h
  <2>1. p + i = old[j] + k
    BY <1>8, <1>10, <1>14, <2>0
  <2>2. CASE j = L + 1
    <3>1. Size(sent'[c][j]) \in Nat
      BY <1>11, CellFacts
    <3>2. p + i = e + k /\ i <= a /\ 1 <= k /\ k \in Nat /\ i \in Nat
      BY <1>8, <2>1, <2>2, <3>1
    <3> QED
      BY <1>9, <3>2
  <2>3. CASE j # L + 1
    <3>1. j \in 1..L
      BY <1>5, <2>3
    <3>2. sent'[c][j] = sent[c][j] /\ old[h + 1] + i = old[j] + k
      BY <1>6, <1>8, <2>1, <3>1 DEF L
    <3> QED
      BY <1>7, <3>1, <3>2 DEF Tape, L, h
  <2> QED
    BY <2>2, <2>3
<1>15. IsInitialPart(handled[c], sent'[c])
  <2>1. Len(handled[c]) <= Len(sent'[c])
    BY <1>5, <1>6 DEF L, h
  <2>2. ASSUME NEW i \in 1..Len(handled[c]) PROVE handled[c][i] = sent'[c][i]
    <3>1. i \in 1..L
      BY <1>5 DEF L, h
    <3> QED
      BY <1>5, <1>6, <3>1 DEF TapeInv, IsInitialPart, L
  <2> QED
    BY <2>1, <2>2 DEF IsInitialPart
<1>16. ASSUME Reading(c)
       PROVE  /\ Len(handled[c]) < L + 1
              /\ Len(cells) + need = Size(sent'[c][Len(handled[c]) + 1])
  <2>1. h < L /\ Len(cells) + need = Size(sent[c][h + 1])
    BY <1>5, <1>16 DEF TapeInv, h, L
  <2>2. h + 1 \in 1..L /\ h < L + 1
    BY <1>5, <2>1
  <2> QED
    BY <1>6, <2>1, <2>2 DEF h, L
<1>17. /\ L + 1 \in Nat \ {0} /\ L + 1 = Len(sent'[c]) /\ m = sent'[c][L + 1]
  BY <1>5, <1>6 DEF L
<1>18. EndsIn(c, m, 0, L + 1, start)
  BY <1>11, <1>12, <1>13, <1>14, <1>17 DEF EndsIn, h
<1> QED
  BY <1>2, <1>3, <1>10, <1>15, <1>16, <1>17, <1>18, WriteConn

\* It goes on: the message is the last one.
LEMMA SendCellsConn ==
  ASSUME TypeOK, NEW c \in Conns, ConnInv(c), NEW t \in Threads, SendCells(c, t)
  PROVE  ConnInv(c)'
<1> SUFFICES ASSUME ~overlap'[c] PROVE WriterInv(c)' /\ TapeInv(c)'
  BY DEF ConnInv
<1>1. /\ WriteCells(c, t, current[c][t], written[c][t]) /\ sent' = sent
      /\ alive[c] /\ current[c][t] # None /\ UNCHANGED recvVars
  BY DEF SendCells
<1>2. ~overlap[c]
  <2>1. overlap' = [overlap EXCEPT ![c] =
                      overlap[c] \/ \E u \in Threads \ {t} : current[c][u] # None]
    BY <1>1 DEF WriteCells
  <2> QED
    BY <2>1 DEF TypeOK
<1>3. WriterInv(c) /\ TapeInv(c)
  BY <1>2 DEF ConnInv
<1>4. current[c][t] \in Message /\ written[c][t] \in Nat
  BY <1>1 DEF TypeOK
<1>5. PICK n \in Nat \ {0} : n = Len(sent[c])
  BY <1>1, <1>3, EmptySeq DEF WriterInv, TypeOK
<1>6. /\ current[c][t] = sent[c][n]
      /\ \A u \in Threads : current[c][u] # None => u = t
  BY <1>1, <1>3, <1>5 DEF WriterInv
<1>7. PICK start \in [1..n + 1 -> Nat] : Tape(c, start)
  BY <1>3, <1>5 DEF TapeInv
<1>8. start[Len(handled[c]) + 1] + Ahead(c) = start[n] + written[c][t]
  BY <1>1, <1>5, <1>6, <1>7 DEF Tape
<1>9. \A j \in 1..n : sent'[c][j] \in Message /\ start[j + 1] = start[j] + Size(sent'[c][j])
  BY <1>1, <1>5, <1>7, TapeType DEF Tape
<1>10. \A i, j \in 1..n + 1 : i <= j => start[i] <= start[j]
  BY <1>5, <1>7 DEF Tape
<1>11. \A j \in 1..n : \A k \in 1..Size(sent'[c][j]) : \A i \in 1..Ahead(c) :
         start[Len(handled[c]) + 1] + i = start[j] + k =>
           CellAhead(c, i) = [msg |-> sent'[c][j], k |-> k]
  BY <1>1, <1>5, <1>7 DEF Tape
<1>12. /\ IsInitialPart(handled[c], sent'[c])
       /\ Reading(c) => /\ Len(handled[c]) < n
                        /\ Len(cells) + need = Size(sent'[c][Len(handled[c]) + 1])
  BY <1>1, <1>3, <1>5 DEF TapeInv
<1>13. n = Len(sent'[c]) /\ current[c][t] = sent'[c][n]
  BY <1>1, <1>5, <1>6
<1>14. EndsIn(c, current[c][t], written[c][t], n, start)
  BY <1>8, <1>9, <1>10, <1>11, <1>13 DEF EndsIn
<1> QED
  BY <1>1, <1>4, <1>12, <1>14, WriteConn

\* What the receiver does on one connection leaves the others alone.
LEMMA OtherConn ==
  ASSUME TypeOK, NEW c \in Conns, NEW d \in Conns, d # c, ConnInv(d),
         serving \in {c, "idle"}, serving' \in {c, "idle"},
         stream'[d] = stream[d], handled'[d] = handled[d], alive' = alive,
         UNCHANGED sendVars
  PROVE  ConnInv(d)'
<1>1. serving # d /\ serving' # d
  BY FramingAssumptions
<1>2. Read(d)' = Read(d) /\ ~Reading(d)'
  BY <1>1 DEF Read, Reading
<1> QED
  BY <1>2, ConnFrame DEF sendVars

\* A whole message is at hand: dsm_handle_message is called with it.
LEMMA HandleConn ==
  ASSUME TypeOK, NEW c \in Conns, ConnInv(c), ~overlap[c], serving = c,
         NEW k \in 0..avail[c], Consume(c, k), UNCHANGED <<alive, sendVars>>,
         NEW got \in Seq(Cell), Len(got) > 0, Handle(c, got), Ahead(c) > 0,
         Len(got) = Len(Read(c)) + k,
         Len(got) = Size(sent[c][Len(handled[c]) + 1]),
         \A i \in 1..Len(got) : got[i] = CellAhead(c, i)
  PROVE  ConnInv(c)'
<1> DEFINE m == sent[c][Len(handled[c]) + 1]
<1>1. WriterInv(c) /\ TapeInv(c)
  BY DEF ConnInv
<1>2. /\ m \in Message
      /\ \A i \in 1..Size(m) : i <= Ahead(c) => CellAhead(c, i) = [msg |-> m, k |-> i]
  BY <1>1, NextMessage
<1>3. /\ Len(Read(c)) \in Nat /\ Len(stream[c]) \in Nat /\ k \in Nat /\ k <= Len(stream[c])
      /\ Ahead(c) = Len(Read(c)) + Len(stream[c]) /\ Size(m) \in Nat
  BY <1>2, TapeType, StreamType, CellFacts, SMTT(30)
<1>4. Size(m) <= Ahead(c)
  BY <1>3
<1>5. ASSUME NEW i \in 1..Len(got) PROVE got[i] = CellsOf(m)[i]
  <2>1. i \in 1..Size(m) /\ i <= Ahead(c)
    BY <1>3, <1>4
  <2> QED
    BY <1>2, <2>1, CellFacts
<1>6. got = CellsOf(m)
  <2>1. CellsOf(m) \in Seq(Cell) /\ Len(CellsOf(m)) = Size(m)
    BY <1>2, CellFacts
  <2> HIDE DEF m
  <2> QED
    BY <1>5, <2>1, SeqEqual DEF m
<1>7. got[1].msg = m
  <2>1. 1 \in 1..Size(m)
    BY <1>3
  <2> QED
    <3>1. CellsOf(m)[1] = [msg |-> m, k |-> 1]
      BY <1>2, <2>1, CellFacts
    <3>2. [msg |-> m, k |-> 1].msg = m
      OBVIOUS
    <3> HIDE DEF m
    <3> QED
      BY <1>6, <3>1, <3>2
<1>8. /\ \E h \in Message \cup {Garbled} :
           /\ handled' = [handled EXCEPT ![c] = Append(handled[c], h)]
           /\ got = CellsOf(got[1].msg) => h = got[1].msg
      /\ step' = "peek" /\ cells' = <<>> /\ serving' = serving
  BY HandleFacts
<1>9. handled'[c] = Append(handled[c], m)
  BY <1>6, <1>7, <1>8 DEF TypeOK
<1>10. Read(c)' = <<>> /\ ~Reading(c)'
  BY <1>8 DEF Read, Reading
<1>11. /\ Len(stream'[c]) = Len(stream[c]) - k
       /\ \A i \in 1..Len(stream'[c]) : stream'[c][i] = stream[c][i + k]
  BY ConsumeFacts
<1>12. TapeInv(c)'
  <2>1. Len(Read(c)) + k = Size(sent[c][Len(handled[c]) + 1])
    OBVIOUS
  <2> QED
    BY <1>1, <1>3, <1>9, <1>10, <1>11, <2>1, TapeHandled DEF sendVars
<1>13. WriterInv(c)'
  BY <1>1 DEF WriterInv, sendVars
<1> QED
  BY <1>12, <1>13 DEF ConnInv

\* The cells that are read go on in front of the stream.
LEMMA TakeConn ==
  ASSUME TypeOK, NEW c \in Conns, ConnInv(c), ~overlap[c], serving = c, serving' = c,
         NEW k \in 0..avail[c], Consume(c, k), UNCHANGED <<alive, handled, sendVars>>,
         NEW got \in Seq(Cell), cells' = got, Ahead(c) > 0,
         Len(got) = Len(Read(c)) + k,
         \A i \in 1..Len(got) : got[i] = CellAhead(c, i),
         Len(got) + need' = Size(sent[c][Len(handled[c]) + 1])
  PROVE  ConnInv(c)'
<1>1. WriterInv(c) /\ TapeInv(c)
  BY DEF ConnInv
<1>2. Len(handled[c]) + 1 \in 1..Len(sent[c]) /\ Len(handled[c]) \in Nat /\ Len(sent[c]) \in Nat
  BY <1>1, NextMessage, TapeType
<1>3. PICK r \in Nat, s \in Nat : r = Len(Read(c)) /\ s = Len(stream[c]) /\ k <= s /\ k \in Nat
  BY TapeType, StreamType, SMTT(30)
<1>4. /\ Len(stream'[c]) = s - k /\ s - k \in Nat
      /\ \A i \in 1..(s - k) : stream'[c][i] = stream[c][i + k]
  BY <1>3, ConsumeFacts
<1>5. Read(c)' = got /\ Len(Read(c)') = r + k
  BY <1>3 DEF Read
<1>6. Ahead(c)' = Ahead(c) /\ Ahead(c) = r + s
  <2>1. (r + k) + (s - k) = r + s
    BY <1>3
  <2>2. Ahead(c)' = (r + k) + (s - k)
    BY <1>4, <1>5 DEF Ahead
  <2> QED
    BY <1>3, <2>1, <2>2 DEF Ahead
<1>7. ASSUME NEW i \in 1..Ahead(c) PROVE CellAhead(c, i)' = CellAhead(c, i)
  <2>0. i \in Nat /\ 1 <= i /\ i <= r + s
    BY <1>6
  <2>1. CASE i <= r + k
    <3>1. i \in 1..Len(got)
      BY <1>3, <2>0, <2>1
    <3> QED
      BY <1>5, <2>1, <3>1 DEF CellAhead
  <2>2. CASE ~(i <= r + k)
    <3>1. i - (r + k) \in 1..(s - k) /\ (i - (r + k)) + k = i - r /\ ~(i <= r)
      <4>1. ~(i <= r) /\ (i - (r + k)) + k = i - r
        BY <1>3, <2>0, <2>2
      <4>2. i - (r + k) <= s - k /\ 1 <= i - (r + k)
        BY <1>3, <2>0, <2>2
      <4>3. i - (r + k) \in Int /\ s - k \in Int
        BY <1>3, <2>0
      <4> QED
        BY <4>1, <4>2, <4>3
    <3>2. CellAhead(c, i)' = stream'[c][i - (r + k)]
      BY <1>5, <2>2 DEF CellAhead
    <3>3. CellAhead(c, i) = stream[c][i - r]
      BY <1>3, <3>1 DEF CellAhead
    <3> QED
      BY <1>4, <3>1, <3>2, <3>3
  <2> QED
    BY <2>1, <2>2
<1>8. /\ IsInitialPart(handled[c], sent[c])'
      /\ \E start \in [1..Len(sent'[c]) + 1 -> Nat] : Tape(c, start)'
  BY <1>1, <1>6, <1>7, TapeSame DEF sendVars
<1>9. /\ (Len(handled[c]) < Len(sent[c]))'
      /\ (Len(cells) + need = Size(sent[c][Len(handled[c]) + 1]))'
  BY <1>2 DEF sendVars
<1>10. WriterInv(c)'
  BY <1>1 DEF WriterInv, sendVars
<1> QED
  BY <1>8, <1>9, <1>10 DEF ConnInv, TapeInv

LEMMA ReadHeaderConn ==
  ASSUME TypeOK, ReceiverInv, NEW c \in Conns, ConnInv(c), ReadHeader(c)
  PROVE  ConnInv(c)'
<1> DEFINE got == SubSeq(stream[c], 1, HeaderCells)
<1> DEFINE m == sent[c][Len(handled[c]) + 1]
<1>1. /\ serving = c /\ step = "peek" /\ avail[c] >= HeaderCells /\ Consume(c, HeaderCells)
      /\ UNCHANGED <<alive, sendVars>> /\ Read(c) = <<>>
  BY DEF ReadHeader, Peeking, ReceiverInv, Read
<1> SUFFICES ASSUME ~overlap[c] PROVE ConnInv(c)'
  BY <1>1 DEF ConnInv, sendVars
<1>2. /\ HeaderCells \in Nat \ {0} /\ HeaderCells \in 0..avail[c]
      /\ HeaderCells \in 0..Len(stream[c])
      /\ got \in Seq(Cell) /\ Len(got) = HeaderCells
      /\ \A i \in 1..HeaderCells : got[i] = stream[c][i]
  BY <1>1, HeaderFacts
<1>3. Len(Read(c)) = 0 /\ Ahead(c) = Len(stream[c]) /\ Ahead(c) > 0 /\ Len(stream[c]) \in Nat
  BY <1>1, <1>2, TapeType, EmptySeq
<1>4. /\ m \in Message
      /\ \A i \in 1..Size(m) : i <= Ahead(c) => CellAhead(c, i) = [msg |-> m, k |-> i]
  BY <1>3, NextMessage DEF ConnInv
<1>5. Size(m) \in Nat /\ Size(m) = HeaderCells + m.len /\ m.len \in 0..MaxLen
  BY <1>4, CellFacts
<1>6. ASSUME NEW i \in 1..HeaderCells
      PROVE  got[i] = CellAhead(c, i) /\ got[i] = [msg |-> m, k |-> i]
  <2>1. i \in 1..Size(m) /\ i <= Ahead(c) /\ ~(i <= 0) /\ i - 0 = i
    <3> HIDE DEF m, got
    <3>1. PICK l \in Nat : l = m.len
      BY <1>5, FramingAssumptions
    <3>2. i \in Nat /\ 1 <= i /\ i <= HeaderCells + l
      BY <1>2
    <3>3. i <= Ahead(c)
      BY <1>2, <1>3
    <3> QED
      BY <1>5, <3>1, <3>2, <3>3
  <2>2. CellAhead(c, i) = stream[c][i]
    BY <1>3, <2>1 DEF CellAhead
  <2> QED
    BY <1>2, <1>4, <2>1, <2>2
<1>7. got[1].k = 1 /\ got[HeaderCells].k = HeaderCells /\ got[HeaderCells].msg = m
  <2>1. 1 \in 1..HeaderCells /\ HeaderCells \in 1..HeaderCells
    BY <1>2
  <2> QED
    <3>1. got[1] = [msg |-> m, k |-> 1] /\ got[HeaderCells] = [msg |-> m, k |-> HeaderCells]
      BY <1>6, <2>1
    <3> HIDE DEF m, got
    <3> QED
      BY <3>1
<1>8. LenRead(got) = {m.len}
  BY <1>7 DEF LenRead
<1>9. \/ m.len > MaxLen
      \/ m.len = 0 /\ Handle(c, got)
      \/ cells' = got /\ need' = m.len /\ UNCHANGED <<serving, handled>>
  BY <1>7, <1>8 DEF ReadHeader
<1>10. ~(m.len > MaxLen)
  BY <1>5, FramingAssumptions
<1>11. Len(got) = Len(Read(c)) + HeaderCells /\ Len(got) > 0
  BY <1>2, <1>3
<1>12. CASE m.len = 0 /\ Handle(c, got)
  <2>1. Len(got) = Size(m)
    BY <1>2, <1>5, <1>12
  <2> HIDE DEF got
  <2> QED
    BY <1>1, <1>2, <1>3, <1>6, <1>11, <1>12, <2>1, HandleConn
<1>13. CASE cells' = got /\ need' = m.len /\ UNCHANGED <<serving, handled>>
  <2>1. Len(got) + need' = Size(m)
    BY <1>2, <1>5, <1>13
  <2> HIDE DEF got
  <2> QED
    BY <1>1, <1>2, <1>3, <1>6, <1>11, <1>13, <2>1, TakeConn
<1> QED
  BY <1>9, <1>10, <1>12, <1>13

LEMMA ReadPayloadConn ==
  ASSUME TypeOK, ReceiverInv, NEW c \in Conns, ConnInv(c), ReadPayload(c)
  PROVE  ConnInv(c)'
<1> DEFINE k == PayloadRead(c)
<1> DEFINE got == cells \o SubSeq(stream[c], 1, k)
<1>1. /\ serving = c /\ step = "payload" /\ need > 0 /\ avail[c] > 0 /\ Consume(c, k)
      /\ UNCHANGED <<alive, sendVars>> /\ Read(c) = cells /\ Reading(c)
  BY DEF ReadPayload, Reading, ReceiverInv, Read, PayloadRead
<1> SUFFICES ASSUME ~overlap[c] PROVE ConnInv(c)'
  BY <1>1 DEF ConnInv, sendVars
<1>2. /\ k \in Nat \ {0} /\ k \in 0..avail[c] /\ k <= need /\ k \in 0..Len(stream[c])
      /\ got \in Seq(Cell) /\ Len(got) = Len(cells) + k /\ Len(cells) \in Nat
      /\ \A i \in 1..Len(cells) + k :
           got[i] = IF i <= Len(cells) THEN cells[i] ELSE stream[c][i - Len(cells)]
  BY <1>1, PayloadFacts
<1>3. \/ k = need /\ Handle(c, got)
      \/ /\ k # need /\ cells' = got /\ need' = need - k
         /\ UNCHANGED <<serving, step, handled>>
  BY DEF ReadPayload, PayloadRead
<1> HIDE DEF k, got
<1>4. Ahead(c) > 0 /\ Len(got) > 0 /\ Len(got) = Len(Read(c)) + k
  BY <1>1, <1>2, TapeType
<1>5. \A i \in 1..Len(got) : got[i] = CellAhead(c, i)
  BY <1>1, <1>2 DEF CellAhead
<1>6. Len(cells) + need = Size(sent[c][Len(handled[c]) + 1]) /\ need \in Nat
  BY <1>1, FramingAssumptions DEF ConnInv, TapeInv, TypeOK
<1>7. CASE k = need /\ Handle(c, got)
  <2>1. Len(got) = Size(sent[c][Len(handled[c]) + 1])
    BY <1>2, <1>6, <1>7
  <2> QED
    BY <1>1, <1>2, <1>4, <1>5, <1>7, <2>1, HandleConn
<1>8. CASE /\ k # need /\ cells' = got /\ need' = need - k
           /\ UNCHANGED <<serving, step, handled>>
  <2>1. Len(got) + need' = Size(sent[c][Len(handled[c]) + 1])
    BY <1>2, <1>6, <1>8
  <2> QED
    BY <1>1, <1>2, <1>4, <1>5, <1>8, <2>1, TakeConn
<1> QED
  BY <1>3, <1>7, <1>8

-----------------------------------------------------------------------------
(* The theorems *)

LEMMA FrameInit ==
  ASSUME Init
  PROVE  FrameInv
<1>1. TypeOK
  <2>1. \A S : <<>> \in Seq(S) /\ Len(<<>>) = 0
    BY EmptySeq
  <2>2. /\ current \in [Conns -> [Threads -> Message \cup {None}]]
        /\ written \in [Conns -> [Threads -> Nat]] /\ begun \in [Conns -> [Threads -> Nat]]
    BY DEF Init
  <2>3. /\ stream \in [Conns -> Seq(Cell)] /\ sent \in [Conns -> Seq(Message)]
        /\ handled \in [Conns -> Seq(Message \cup {Garbled})] /\ cells \in Seq(Cell)
    BY <2>1 DEF Init
  <2>4. /\ avail \in [Conns -> Nat]
        /\ \A c \in Conns : avail[c] \in 0..Len(stream[c]) /\ Len(stream[c]) <= Capacity
    BY <2>1, FramingAssumptions DEF Init
  <2> QED
    BY <2>2, <2>3, <2>4, FramingAssumptions DEF Init, TypeOK
<1>2. ReceiverInv
  BY DEF Init, ReceiverInv
<1>3. ASSUME NEW c \in Conns PROVE WriterInv(c) /\ TapeInv(c)
  <2>1. sent[c] = <<>> /\ handled[c] = <<>> /\ Read(c) = <<>> /\ stream[c] = <<>>
    BY DEF Init, Read
  <2>2. /\ Len(sent[c]) = 0 /\ Len(handled[c]) = 0 /\ Len(Read(c)) = 0 /\ Len(stream[c]) = 0
    BY <2>1, EmptySeq
  <2>3. \A t \in Threads : current[c][t] = None
    BY DEF Init
  <2>4. WriterInv(c)
    BY <2>3 DEF WriterInv
  <2>5. ~Reading(c) /\ IsInitialPart(handled[c], sent[c])
    BY <2>2 DEF Init, Reading, IsInitialPart
  <2> DEFINE start == [j \in 1..0 + 1 |-> 0]
  <2>6. start \in [1..0 + 1 -> Nat] /\ start[0 + 1] = 0 /\ \A j \in 1..0 + 1 : start[j] = 0
    OBVIOUS
  <2>7. Ahead(c) = 0
    BY <2>2 DEF Ahead
  <2> HIDE DEF start
  <2>8. Tape(c, start)
    <3>1. /\ \A j \in 1..0 : FALSE
          /\ \A i \in 1..Ahead(c) : FALSE
          /\ start[0 + 1] + Ahead(c) = start[0 + 1]
      BY <2>6, <2>7
    <3>2. \A i, j \in 1..0 + 1 : start[i] <= start[j]
      BY <2>6
    <3>3. start[0 + 1] <= start[0 + 1]
      BY <2>6
    <3> QED
      BY <2>2, <2>3, <3>1, <3>2, <3>3 DEF Tape
  <2> QED
    BY <2>2, <2>4, <2>5, <2>6, <2>8 DEF TapeInv
<1> QED
  BY <1>1, <1>2, <1>3 DEF FrameInv

LEMMA FrameConnStep ==
  ASSUME TypeOK, ReceiverInv, NEW d \in Conns, ConnInv(d), Next
  PROVE  ConnInv(d)'
<1>1. ASSUME NEW c \in Conns, NEW t \in Threads, NEW len \in Lens[c], SendBegin(c, t, len)
      PROVE  ConnInv(d)'
  <2>1. CASE d = c
    BY <1>1, <2>1, SendBeginConn
  <2>2. CASE d # c
    <3>1. /\ stream'[d] = stream[d] /\ written'[d] = written[d] /\ current'[d] = current[d]
          /\ overlap'[d] = overlap[d] /\ sent'[d] = sent[d]
      BY <1>1, <2>2 DEF SendBegin, WriteCells, TypeOK
    <3>2. /\ UNCHANGED recvVars /\ alive' = alive
      BY <1>1 DEF SendBegin
    <3> QED
      BY <3>1, <3>2, ConnFrame DEF recvVars, Read, Reading
  <2> QED
    BY <2>1, <2>2
<1>2. ASSUME NEW c \in Conns, NEW t \in Threads, SendCells(c, t)
      PROVE  ConnInv(d)'
  <2>1. CASE d = c
    BY <1>2, <2>1, SendCellsConn
  <2>2. CASE d # c
    <3>1. /\ stream'[d] = stream[d] /\ written'[d] = written[d] /\ current'[d] = current[d]
          /\ overlap'[d] = overlap[d] /\ sent'[d] = sent[d]
      BY <1>2, <2>2 DEF SendCells, WriteCells, TypeOK
    <3>2. /\ UNCHANGED recvVars /\ alive' = alive
      BY <1>2 DEF SendCells
    <3> QED
      BY <3>1, <3>2, ConnFrame DEF recvVars, Read, Reading
  <2> QED
    BY <2>1, <2>2
<1>3. ASSUME NEW c \in Conns, Crash(c) PROVE ConnInv(d)'
  <2>0. UNCHANGED <<recvVars, sendVars>>
    BY <1>3 DEF Crash
  <2>1. PICK k \in avail[c]..Len(stream[c]) : stream' = [stream EXCEPT ![c] = SubSeq(stream[c], 1, k)]
    BY <1>3 DEF Crash
  <2>2. CASE d = c
    <3>1. k \in 0..Len(stream[c]) /\ Len(stream[c]) \in Nat
      BY StreamType
    <3>2. /\ Len(stream'[c]) = k /\ \A i \in 1..k : stream'[c][i] = stream[c][i]
      BY <2>1, <3>1, TakeFacts DEF TypeOK
    <3>3. ~alive'[c] /\ Read(c)' = Read(c) /\ (Reading(c)' <=> Reading(c))
      BY <1>3, <2>0 DEF Crash, TypeOK, Read, Reading, recvVars
    <3>4. PICK r \in Nat, s \in Nat : r = Len(Read(c)) /\ s = Len(stream[c])
      BY TapeType
    <3>5. Ahead(c)' = r + k /\ Ahead(c) = r + s /\ r + k \in Nat /\ r + k <= r + s
      BY <3>1, <3>2, <3>3, <3>4 DEF Ahead
    <3>6. ASSUME NEW i \in 1..(r + k) PROVE CellAhead(c, i)' = CellAhead(c, i)
      <4>1. CASE i <= r
        BY <3>3, <3>4, <4>1 DEF CellAhead
      <4>2. CASE ~(i <= r)
        <5>1. i - r \in 1..k
          BY <3>1, <4>2
        <5> QED
          BY <3>2, <3>3, <3>4, <4>2, <5>1 DEF CellAhead
      <4> QED
        BY <4>1, <4>2
    <3> QED
      BY <2>0, <2>2, <3>3, <3>5, <3>6, TapeShrinks DEF recvVars, sendVars
  <2>3. CASE d # c
    <3>1. stream'[d] = stream[d] /\ alive'[d] = alive[d]
      BY <1>3, <2>1, <2>3 DEF Crash, TypeOK
    <3> QED
      BY <2>0, <3>1, ConnFrame DEF recvVars, sendVars, Read, Reading
  <2> QED
    BY <2>2, <2>3
<1>4. ASSUME NEW c \in Conns, Arrive(c) PROVE ConnInv(d)'
  BY <1>4, ConnFrame DEF Arrive, recvVars, sendVars, Read, Reading
<1>5. ASSUME NEW c \in Conns, EpollWait(c) PROVE ConnInv(d)'
  <2>1. cells = <<>> /\ serving # d
    BY <1>5, FramingAssumptions DEF EpollWait, ReceiverInv
  <2>2. Read(d)' = Read(d) /\ ~Reading(d)'
    BY <1>5, <2>1 DEF EpollWait, Read, Reading
  <2> QED
    BY <1>5, <2>2, ConnFrame DEF EpollWait, sendVars
<1>6. ASSUME NEW c \in Conns, PeekEof(c) \/ PeekEmpty(c) \/ PeekShort(c) PROVE ConnInv(d)'
  <2>1. /\ serving = c /\ step = "peek" /\ Return
        /\ UNCHANGED <<alive, stream, handled, sendVars>>
    BY <1>6 DEF PeekEof, PeekEmpty, PeekShort, Peeking
  <2>2. Read(d)' = Read(d) /\ ~Reading(d)'
    BY <2>1, FramingAssumptions DEF Return, Read, Reading, ReceiverInv
  <2> QED
    BY <2>1, <2>2, ConnFrame DEF sendVars
<1>7. ASSUME NEW c \in Conns, ReadHeader(c) PROVE ConnInv(d)'
  <2>1. CASE d = c
    BY <1>7, <2>1, ReadHeaderConn
  <2>2. CASE d # c
    <3>1. /\ serving = c /\ serving' \in {c, "idle"} /\ UNCHANGED <<alive, sendVars>>
          /\ handled'[d] = handled[d] /\ stream'[d] = stream[d]
      BY <1>7, <2>2 DEF ReadHeader, Peeking, Return, Handle, Consume, TypeOK
    <3> QED
      BY <2>2, <3>1, OtherConn
  <2> QED
    BY <2>1, <2>2
<1>8. ASSUME NEW c \in Conns, ReadPayload(c) PROVE ConnInv(d)'
  <2>1. CASE d = c
    BY <1>8, <2>1, ReadPayloadConn
  <2>2. CASE d # c
    <3>1. /\ serving = c /\ serving' \in {c, "idle"} /\ UNCHANGED <<alive, sendVars>>
          /\ handled'[d] = handled[d] /\ stream'[d] = stream[d]
      BY <1>8, <2>2 DEF ReadPayload, Reading, Handle, Consume, TypeOK
    <3> QED
      BY <2>2, <3>1, OtherConn
  <2> QED
    BY <2>1, <2>2
<1>9. ASSUME NEW c \in Conns, ReadWait(c) PROVE ConnInv(d)'
  BY <1>9, ConnFrame DEF ReadWait, sendVars, Read, Reading
<1>10. ASSUME NEW c \in Conns, ReadEof(c) PROVE ConnInv(d)'
  <2>1. /\ serving = c /\ Return /\ ~alive[c] /\ stream[c] = <<>>
        /\ UNCHANGED <<alive, stream, handled, sendVars>>
    BY <1>10 DEF ReadEof, Reading, Eof
  <2>2. CASE d = c
    <3>1. Read(c)' = <<>> /\ ~Reading(c)'
      BY <2>1, FramingAssumptions DEF Return, Read, Reading
    <3>2. Ahead(c)' = 0 /\ Ahead(c) \in Nat
      BY <2>1, <3>1, EmptySeq, TapeType DEF Ahead
    <3> QED
      BY <2>1, <2>2, <3>1, <3>2, TapeShrinks DEF sendVars
  <2>3. CASE d # c
    BY <2>1, <2>3, OtherConn DEF Return
  <2> QED
    BY <2>2, <2>3
<1> QED
  BY <1>1, <1>2, <1>3, <1>4, <1>5, <1>6, <1>7, <1>8, <1>9, <1>10 DEF Next, SendStep, ReceiveStep

\* The inductive invariant of the framing: the cells that are read or under way on
\* a connection are those of the messages sent and not handled, in their order.
THEOREM FrameInvariant == Spec => []FrameInv
<1>1. Init => FrameInv
  BY FrameInit
<1>2. FrameInv /\ [Next]_vars => FrameInv'
  <2> SUFFICES ASSUME FrameInv, [Next]_vars PROVE FrameInv'
    OBVIOUS
  <2>0. TypeOK /\ ReceiverInv /\ \A c \in Conns : ConnInv(c)
    BY DEF FrameInv, ConnInv
  <2>1. CASE Next
    <3>1. TypeOK' /\ ReceiverInv'
      BY <2>0, <2>1, FrameTypeStep
    <3>2. \A c \in Conns : ConnInv(c)'
      BY <2>0, <2>1, FrameConnStep
    <3> QED
      BY <3>1, <3>2 DEF FrameInv, ConnInv
  <2>2. CASE UNCHANGED vars
    <3>1. TypeOK' /\ ReceiverInv'
      BY <2>0, <2>2 DEF TypeOK, ReceiverInv, vars
    <3>2. ASSUME NEW c \in Conns PROVE ConnInv(c)'
      BY <2>0, <2>2, ConnFrame DEF vars, Read, Reading
    <3> QED
      BY <3>1, <3>2 DEF FrameInv, ConnInv
  <2> QED
    BY <2>1, <2>2
<1> QED
  BY <1>1, <1>2, PTL DEF Spec

\* The sockets' buffers are never over-full, what has arrived has been written, and
\* the receiving thread is never short of or beyond a payload's length.
THEOREM FramingTypeCorrect == Spec => []TypeOK
<1>1. FrameInv => TypeOK
  BY DEF FrameInv
<1> QED
  BY <1>1, FrameInvariant, PTL

\* handle_client_data hands dsm_handle_message every message whole, once and in the
\* order of dsm_tcp_send, for any number of connections, threads and messages and any
\* way the kernel cuts the stream up, as long as no two threads of the peer write to
\* the connection at the same time.
THEOREM FramingFramesIntact == Spec => []FramesIntact
<1>1. FrameInv => FramesIntact
  BY DEF FrameInv, FramesIntact, TapeInv
<1> QED
  BY <1>1, FrameInvariant, PTL
=============================================================================
