----------------------------- MODULE DsmFraming -----------------------------
(***************************************************************************)
(* Framing on the TCP connections: dsm_tcp_send on one side, and           *)
(* handle_client_data with the epoll loop on the other.                    *)
(*                                                                         *)
(* A message is a header and, if its payload_len says so, a payload.  They *)
(* are written by two calls of dsm_tcp_send_raw, each of which may take    *)
(* several send()s, and no lock keeps two threads of a node from writing to *)
(* the same connection at the same time.  The other side's one TCP thread  *)
(* serves all its connections: it peeks for a whole header, reads it, then *)
(* loops until the payload is complete.  Sockets it accepted are level-    *)
(* triggered, sockets it connected itself edge-triggered.                  *)
(*                                                                         *)
(* The module follows the streams towards one node.  Bytes are grouped in  *)
(* cells, HeaderCells to a header: the first carries the magic, the last   *)
(* payload_len.  A payload is taken never to look like a magic.            *)
(***************************************************************************)
EXTENDS Integers, Sequences, FiniteSets

CONSTANTS
  Conns,        \* the connections of the receiving node
  Threads,      \* the threads of a peer that send
  Senders,      \* Senders[c]: the threads that use connection c
  Edge,         \* the edge-triggered connections
  MayCrash,     \* connections whose peer may die
  HeaderCells,  \* cells of a header
  Lens,         \* Lens[c]: the lengths, in cells, of payloads on connection c
  MaxLen,       \* TCP_BUFFER_SIZE: the longest payload accepted
  Capacity,     \* cells the sockets' buffers hold
  MaxMessages   \* bound: messages per thread

ASSUME FramingAssumptions ==
  /\ "idle" \notin Conns
  /\ Senders \in [Conns -> SUBSET Threads]
  /\ Edge \subseteq Conns /\ MayCrash \subseteq Conns
  /\ HeaderCells \in Nat \ {0} /\ MaxLen \in Nat
  /\ Lens \in [Conns -> SUBSET (0..MaxLen)]
  /\ Capacity \in Nat /\ Capacity >= HeaderCells
  /\ MaxMessages \in Nat

Message == [thread : Threads, number : Nat, len : 0..MaxLen]
Size(m) == HeaderCells + m.len
\* The k-th cell of a message.
Cell == [msg : Message, k : Nat]
CellsOf(m) == [k \in 1..Size(m) |-> [msg |-> m, k |-> k]]

None == [thread |-> "none"]   \* no message
Garbled == [thread |-> "garbled"]   \* what is handled when the cells do not fit

VARIABLES
  \* the senders
  current,   \* current[c][t]: the message thread t is writing, or None
  written,   \* written[c][t]: how many of its cells are written
  begun,     \* begun[c][t]: messages the thread has begun
  alive,     \* alive[c]: the peer lives
  \* the connections
  stream,    \* stream[c]: cells written and not read yet
  avail,     \* avail[c]: how many of them have arrived
  event,     \* event[c]: something has arrived since epoll_wait told of c
  \* the receiving TCP thread
  open,      \* open[c]: its socket is open
  serving,   \* the connection handle_client_data works on, or "idle"
  step,      \* peek | payload
  cells,     \* the cells of the message it is reading
  need,      \* the payload cells still to come
  eagain,    \* is the thread's errno EAGAIN?
  \* history
  handled,   \* handled[c]: what dsm_handle_message was called with
  sent,      \* sent[c]: messages in the order of their first cells
  overlap    \* overlap[c]: two threads have written at the same time

sendVars == <<current, written, begun, sent, overlap>>
recvVars == <<open, serving, step, cells, need, eagain, handled>>
vars == <<current, written, begun, alive, stream, avail, event, open, serving, step,
          cells, need, eagain, handled, sent, overlap>>

Init ==
  /\ current = [c \in Conns |-> [t \in Threads |-> None]]
  /\ written = [c \in Conns |-> [t \in Threads |-> 0]]
  /\ begun = [c \in Conns |-> [t \in Threads |-> 0]]
  /\ alive = [c \in Conns |-> TRUE]
  /\ stream = [c \in Conns |-> <<>>]
  /\ avail = [c \in Conns |-> 0]
  /\ event = [c \in Conns |-> FALSE]
  /\ open = [c \in Conns |-> TRUE]
  /\ serving = "idle" /\ step = "peek" /\ cells = <<>> /\ need = 0
  /\ eagain \in BOOLEAN      \* from whatever call failed last
  /\ handled = [c \in Conns |-> <<>>]
  /\ sent = [c \in Conns |-> <<>>]
  /\ overlap = [c \in Conns |-> FALSE]

-----------------------------------------------------------------------------
(* The senders: dsm_tcp_send, and the pairs of dsm_tcp_send_raw elsewhere *)

\* One send(): some of the cells of the part that is due, header or payload, fit
\* the buffers.  If none does it is EAGAIN, and a retry.
WriteCells(c, t, m, from) ==
  \E to \in from + 1..(IF from < HeaderCells THEN HeaderCells ELSE Size(m)) :
    /\ Len(stream[c]) + to - from <= Capacity
    /\ stream' = [stream EXCEPT ![c] = @ \o SubSeq(CellsOf(m), from + 1, to)]
    /\ written' = [written EXCEPT ![c][t] = IF to = Size(m) THEN 0 ELSE to]
    /\ current' = [current EXCEPT ![c][t] = IF to = Size(m) THEN None ELSE m]
    /\ overlap' = [overlap EXCEPT ![c] = @ \/ \E u \in Threads \ {t} : current[c][u] # None]

\* dsm_tcp_send is called: the first send() of the header.
SendBegin(c, t, len) ==
  /\ alive[c] /\ t \in Senders[c]
  /\ current[c][t] = None /\ begun[c][t] < MaxMessages
  /\ LET m == [thread |-> t, number |-> begun[c][t] + 1, len |-> len]
     IN  WriteCells(c, t, m, 0) /\ sent' = [sent EXCEPT ![c] = Append(@, m)]
  /\ begun' = [begun EXCEPT ![c][t] = @ + 1]
  /\ UNCHANGED <<alive, avail, event, recvVars>>

\* It goes on.
SendCells(c, t) ==
  /\ alive[c] /\ current[c][t] # None
  /\ WriteCells(c, t, current[c][t], written[c][t])
  /\ UNCHANGED <<begun, sent, alive, avail, event, recvVars>>

\* The peer dies.  Of what it has written a part arrives.
Crash(c) ==
  /\ c \in MayCrash /\ alive[c]
  /\ alive' = [alive EXCEPT ![c] = FALSE]
  /\ \E k \in avail[c]..Len(stream[c]) : stream' = [stream EXCEPT ![c] = SubSeq(@, 1, k)]
  /\ event' = [event EXCEPT ![c] = TRUE]
  /\ UNCHANGED <<avail, recvVars, sendVars>>

Arrive(c) ==
  /\ \E k \in avail[c] + 1..Len(stream[c]) : avail' = [avail EXCEPT ![c] = k]
  /\ event' = [event EXCEPT ![c] = TRUE]
  /\ UNCHANGED <<alive, stream, recvVars, sendVars>>

-----------------------------------------------------------------------------
(* The receiver: tcp_server_thread_func and handle_client_data *)

Eof(c) == ~alive[c] /\ stream[c] = <<>>

Readable(c) == IF c \in Edge THEN event[c] ELSE avail[c] > 0 \/ Eof(c)

\* Since the thread last came here, other calls of it may have failed and set errno.
EpollWait(c) ==
  /\ serving = "idle" /\ open[c] /\ Readable(c)
  /\ serving' = c /\ step' = "peek"
  /\ event' = [event EXCEPT ![c] = FALSE]
  /\ eagain' \in BOOLEAN
  /\ UNCHANGED <<alive, stream, avail, open, cells, need, handled, sendVars>>

Peeking(c) == serving = c /\ step = "peek"
Reading(c) == serving = c /\ step = "payload"
Return == serving' = "idle" /\ step' = "peek" /\ cells' = <<>> /\ need' = 0
Consume(c, k) == /\ stream' = [stream EXCEPT ![c] = SubSeq(@, k + 1, Len(@))]
                 /\ avail' = [avail EXCEPT ![c] = @ - k]

\* Faulty variant: the end of the connection is not acted on.
PeekEofIgnored(c) ==
  /\ Peeking(c) /\ avail[c] = 0 /\ Eof(c)
  /\ Return
  /\ UNCHANGED <<alive, stream, avail, event, open, eagain, handled, sendVars>>

PeekEof(c) ==  \* recv returns 0: the socket is closed
  /\ Peeking(c) /\ avail[c] = 0 /\ Eof(c)
  /\ open' = [open EXCEPT ![c] = FALSE]
  /\ Return
  /\ UNCHANGED <<alive, stream, avail, event, eagain, handled, sendVars>>

\* Faulty variant: EAGAIN is taken for the end of the connection.
PeekEmptyCloses(c) ==
  /\ Peeking(c) /\ avail[c] = 0 /\ ~Eof(c)
  /\ open' = [open EXCEPT ![c] = FALSE]
  /\ Return
  /\ UNCHANGED <<alive, stream, avail, event, eagain, handled, sendVars>>

PeekEmpty(c) ==  \* EAGAIN
  /\ Peeking(c) /\ avail[c] = 0 /\ ~Eof(c)
  /\ eagain' = TRUE
  /\ Return
  /\ UNCHANGED <<alive, stream, avail, event, open, handled, sendVars>>

PeekShort(c) ==  \* not a whole header yet
  /\ Peeking(c) /\ avail[c] > 0 /\ avail[c] < HeaderCells
  /\ Return
  /\ UNCHANGED <<alive, stream, avail, event, open, eagain, handled, sendVars>>

\* Faulty variant: one message per event.
HandleOne(c, got) ==
  /\ handled' = [handled EXCEPT ![c] =
                   Append(@, IF got = CellsOf(got[1].msg) THEN got[1].msg ELSE Garbled)]
  /\ Return
  /\ eagain' \in BOOLEAN

\* dsm_handle_message; the loop goes on with the next message.  A call that fails
\* in the handler sets errno.
Handle(c, got) ==
  /\ handled' = [handled EXCEPT ![c] =
                   Append(@, IF got = CellsOf(got[1].msg) THEN got[1].msg ELSE Garbled)]
  /\ step' = "peek" /\ cells' = <<>> /\ need' = 0
  /\ eagain' \in BOOLEAN
  /\ UNCHANGED serving

\* payload_len as it is read: if the last cell belongs to something else, anything.
LenRead(got) == IF got[HeaderCells].k = HeaderCells THEN {got[HeaderCells].msg.len}
                                                    ELSE 0..MaxLen + 1

\* A header is read.  Without the magic, or too long, the rest is left where it
\* is and the loop is left.
ReadHeader(c) ==
  /\ Peeking(c) /\ avail[c] >= HeaderCells
  /\ Consume(c, HeaderCells)
  /\ LET got == SubSeq(stream[c], 1, HeaderCells)
     IN  IF got[1].k # 1 THEN Return /\ UNCHANGED <<handled, eagain>>
         ELSE \E len \in LenRead(got) :
           \/ len > MaxLen /\ Return /\ UNCHANGED <<handled, eagain>>
           \/ len = 0 /\ Handle(c, got)
           \/ /\ len \in 1..MaxLen
              /\ step' = "payload" /\ cells' = got /\ need' = len
              /\ UNCHANGED <<serving, handled, eagain>>
  /\ UNCHANGED <<alive, event, open, sendVars>>

\* Faulty variants: recv takes whatever there is; a payload that comes in
\* pieces is handled at once.
ReadPayloadGreedy(c) ==
  /\ Reading(c) /\ avail[c] > 0
  /\ LET got == cells \o SubSeq(stream[c], 1, avail[c])
     IN  /\ Consume(c, avail[c])
         /\ IF avail[c] = need THEN Handle(c, got)
            ELSE /\ cells' = got /\ need' = need - avail[c]
                 /\ UNCHANGED <<serving, step, handled, eagain>>
  /\ UNCHANGED <<alive, event, open, sendVars>>
ReadPayloadOnce(c) ==
  /\ Reading(c) /\ avail[c] > 0
  /\ LET k == IF avail[c] < need THEN avail[c] ELSE need
     IN  Consume(c, k) /\ Handle(c, cells \o SubSeq(stream[c], 1, k))
  /\ UNCHANGED <<alive, event, open, sendVars>>

ReadPayload(c) ==  \* recv returns what there is, up to what is missing
  /\ Reading(c) /\ avail[c] > 0
  /\ LET k == IF avail[c] < need THEN avail[c] ELSE need
         got == cells \o SubSeq(stream[c], 1, k)
     IN  /\ Consume(c, k)
         /\ IF k = need THEN Handle(c, got)
            ELSE /\ cells' = got /\ need' = need - k
                 /\ UNCHANGED <<serving, step, handled, eagain>>
  /\ UNCHANGED <<alive, event, open, sendVars>>

ReadWait(c) ==  \* EAGAIN: usleep and try again
  /\ Reading(c) /\ avail[c] = 0 /\ ~Eof(c) /\ ~eagain
  /\ eagain' = TRUE
  /\ UNCHANGED <<alive, stream, avail, event, open, serving, step, cells, need, handled, sendVars>>

\* recv returns 0 and leaves errno alone.  If it happens to be EAGAIN the loop
\* goes on, for good; if not, the message is dropped and the socket kept.
ReadEof(c) ==
  /\ Reading(c) /\ avail[c] = 0 /\ Eof(c) /\ ~eagain
  /\ Return
  /\ UNCHANGED <<alive, stream, avail, event, open, eagain, handled, sendVars>>

-----------------------------------------------------------------------------

SendStep(c) == \E t \in Threads : SendCells(c, t)
ReceiveStep == \E c \in Conns : \/ PeekEof(c) \/ PeekEmpty(c) \/ PeekShort(c)
                                \/ ReadHeader(c) \/ ReadPayload(c) \/ ReadWait(c) \/ ReadEof(c)

Next == \/ \E c \in Conns : \/ SendStep(c) \/ Arrive(c) \/ Crash(c) \/ EpollWait(c)
                            \/ \E t \in Threads, len \in Lens[c] : SendBegin(c, t, len)
        \/ ReceiveStep

Spec == Init /\ [][Next]_vars

\* Threads are scheduled and what is written arrives.  epoll_wait tells of every
\* ready connection in turn: strong fairness, since it is only called when the
\* thread has returned from the others.
Fairness == /\ WF_vars(ReceiveStep)
            /\ \A c \in Conns : /\ WF_vars(Arrive(c)) /\ SF_vars(EpollWait(c))
                                /\ \A t \in Threads : WF_vars(SendCells(c, t))
FairSpec == Spec /\ Fairness

-----------------------------------------------------------------------------
(* Properties *)

TypeOK ==
  /\ current \in [Conns -> [Threads -> Message \cup {None}]]
  /\ written \in [Conns -> [Threads -> Nat]] /\ begun \in [Conns -> [Threads -> Nat]]
  /\ stream \in [Conns -> Seq(Cell)] /\ avail \in [Conns -> Nat]
  /\ \A c \in Conns : avail[c] \in 0..Len(stream[c]) /\ Len(stream[c]) <= Capacity
  /\ {alive, event, open, overlap} \subseteq [Conns -> BOOLEAN]
  /\ serving \in Conns \cup {"idle"} /\ step \in {"peek", "payload"}
  /\ cells \in Seq(Cell) /\ need \in 0..MaxLen /\ eagain \in BOOLEAN
  /\ handled \in [Conns -> Seq(Message \cup {Garbled})]
  /\ sent \in [Conns -> Seq(Message)]

IsInitialPart(s, u) == Len(s) <= Len(u) /\ \A i \in 1..Len(s) : s[i] = u[i]

\* Messages are handled whole, once and in the order they were sent, however
\* they are cut up on the way, as long as no two threads of the peer write at
\* the same time.
FramesIntact == \A c \in Conns : ~overlap[c] => IsInitialPart(handled[c], sent[c])

LastCell(m) == [msg |-> m, k |-> Size(m)]

\* The peer has died in the middle of a message.
Cut(c) ==
  /\ ~alive[c]
  /\ IF stream[c] = <<>> THEN Reading(c)
     ELSE LET last == stream[c][Len(stream[c])] IN last # LastCell(last.msg)

\* Framing is lost on a connection, or a message will never be complete: the
\* one TCP thread may then wait for cells that do not come.
Disturbed == \E c \in Conns : overlap[c] \/ Cut(c)

\* A message that has arrived is handled, on every connection, with sockets of
\* both kinds, unless a connection is disturbed.
MessagesHandled ==
  \A c \in Conns : \A m \in [thread : Senders[c], number : 1..MaxMessages, len : Lens[c]] :
    (\E i \in 1..avail[c] : stream[c][i] = LastCell(m))
      ~> (Disturbed \/ \E i \in 1..Len(handled[c]) : handled[c][i] = m)

\* The socket of a peer that is gone is closed, unless a connection is disturbed.
EofNoticed == \A c \in Conns : ~alive[c] ~> (Disturbed \/ ~open[c])

-----------------------------------------------------------------------------
(* The inductive invariant behind FramesIntact *)

\* What the TCP thread has at hand where it is.
ReceiverInv ==
  /\ serving = "idle" => step = "peek"
  /\ step = "peek" => cells = <<>> /\ need = 0
  /\ step = "payload" => need > 0 /\ Len(cells) >= HeaderCells

\* One thread writes at a time: the message it writes is the last one begun.
WriterInv(c) ==
  \A t \in Threads : current[c][t] # None =>
    /\ sent[c] # <<>> /\ current[c][t] = sent[c][Len(sent[c])]
    /\ written[c][t] \in 1..Size(current[c][t]) - 1
    /\ \A u \in Threads : current[c][u] # None => u = t

\* The cells that are not handled yet: those of the message being read, then those
\* still in the stream.
Read(c) == IF serving = c THEN cells ELSE <<>>
Ahead(c) == Len(Read(c)) + Len(stream[c])
CellAhead(c, i) == IF i <= Len(Read(c)) THEN Read(c)[i] ELSE stream[c][i - Len(Read(c))]

\* They are the cells of the messages not handled yet, one message after the other,
\* where start[j] is how many cells precede message j on the connection.
Tape(c, start) ==
  LET here == start[Len(handled[c]) + 1]
  IN  /\ \A j \in 1..Len(sent[c]) : start[j + 1] = start[j] + Size(sent[c][j])
      /\ \A i, j \in 1..Len(sent[c]) + 1 : i <= j => start[i] <= start[j]
      /\ here + Ahead(c) <= start[Len(sent[c]) + 1]
      /\ \A j \in 1..Len(sent[c]) : \A k \in 1..Size(sent[c][j]) : \A i \in 1..Ahead(c) :
           here + i = start[j] + k => CellAhead(c, i) = [msg |-> sent[c][j], k |-> k]
      /\ alive[c] => \/ /\ \A t \in Threads : current[c][t] = None
                        /\ here + Ahead(c) = start[Len(sent[c]) + 1]
                     \/ \E t \in Threads :
                        /\ current[c][t] # None
                        /\ here + Ahead(c) = start[Len(sent[c])] + written[c][t]

TapeInv(c) ==
  /\ IsInitialPart(handled[c], sent[c])
  /\ \E start \in [1..Len(sent[c]) + 1 -> Nat] : Tape(c, start)
  /\ Reading(c) => /\ Len(handled[c]) < Len(sent[c])
                   /\ Len(cells) + need = Size(sent[c][Len(handled[c]) + 1])

FrameInv ==
  /\ TypeOK /\ ReceiverInv
  /\ \A c \in Conns : ~overlap[c] => WriterInv(c) /\ TapeInv(c)
=============================================================================
