----------------------------- MODULE EpollServer -----------------------------
(***************************************************************************)
(* epoll/epoll_socket.cpp: the edge-triggered server.  One thread loops    *)
(* over epoll_wait; a connection registered for EPOLLIN is read into the   *)
(* buffer of its descriptor until a read ends with "\r\n\r\n", then        *)
(* registered for EPOLLOUT, answered with the fixed reply, and registered  *)
(* for EPOLLIN again.                                                      *)
(*                                                                         *)
(* One action is one system call of the thread with everything the thread  *)
(* does up to the next one; an epoll_ctl is part of the step of the call   *)
(* it follows, but for the one after EAGAIN, where arrivals in between     *)
(* count.  Bytes are <<c, i>>, the i-th byte of Stream[c], so that a       *)
(* buffer tells where its contents come from.                              *)
(***************************************************************************)
EXTENDS Epoll

CONSTANTS
  INIT_BUF_SIZE,   \* first size of a receive buffer
  NUM,             \* slots in the tables recv_msg, total_len, used_size
  HEAD_LEN,        \* bytes of the printed length sent before the body
  REPLY_LEN,       \* strlen(REPLY_MSG)
  WRITE_SIZE       \* bytes asked of every write of the body

ASSUME BufferAssumption == INIT_BUF_SIZE \in Nat \ {0}
\* The code indexes its tables by descriptor and does not check; what it does
\* beyond their end is not followed.
ASSUME SlotAssumption == NUM \in Nat /\ LastFd < NUM
ASSUME ReplyAssumption ==
  HEAD_LEN \in Nat \ {0} /\ REPLY_LEN \in Nat \ {0} /\ WRITE_SIZE \in Nat \ {0}

VARIABLES
  recv_msg,     \* receive buffer of each descriptor, NULL or total_len bytes
  total_len,    \* its size
  used_size,    \* how many of its bytes have been received
  finish_flag,  \* the last read ended a request
  heap,         \* receive buffers allocated and not deleted
  pc,           \* where the thread is: "loop", "read", "again", "body", "dead"
  cur,          \* descriptor the handler works on
  left_len,     \* bytes of the body still to be sent
  events,       \* events of this epoll_wait not handled yet
  requests,     \* history: the requests received on each connection
  replies       \* history: replies on the wire, see ReplyRecord

tables == <<recv_msg, total_len, used_size, finish_flag, heap>>
thread == <<pc, cur, left_len, events>>
history == <<requests, replies>>
vars == <<sockVars, epollVars, tables, thread, history>>

NULL == <<>>
NulByte == <<NoConn, 0>>
Unknown == <<NoConn, 1>>   \* memory nobody has written, see SocketEpollServer
Bytes == (Conns \X Nat) \cup {NulByte, Unknown}

\* The text printed for a request, where in the stream it ended, and whether
\* the peer asked ahead: it had not read all of the replies before.
RequestRecord == [text : Seq(Bytes), upto : Nat, ahead : BOOLEAN]

\* Whole replies, bytes of the last body sent, whether one was cut short.
ReplyRecord == [whole : Nat, body : Nat, torn : BOOLEAN]

EpollServerTypeOK ==
  /\ SockTypeOK
  /\ EpollTypeOK
  /\ recv_msg \in [Fds -> Seq(Bytes)]
  /\ total_len \in [Fds -> Nat]
  /\ used_size \in [Fds -> Nat]
  /\ finish_flag \in [Fds -> BOOLEAN]
  /\ heap \in Nat
  /\ pc \in {"loop", "read", "again", "body", "dead"}
  /\ cur \in Watched
  /\ left_len \in Int
  /\ events \subseteq [fd : Watched, ev : {"IN", "OUT"}]
  /\ requests \in [Conns -> Seq(RequestRecord)]
  /\ replies \in [Conns -> ReplyRecord]

Init ==
  /\ SockInit
  /\ EpollInit
  /\ recv_msg = [fd \in Fds |-> NULL]
  /\ total_len = [fd \in Fds |-> 0]
  /\ used_size = [fd \in Fds |-> 0]
  /\ finish_flag = [fd \in Fds |-> FALSE]
  /\ heap = 0
  /\ pc = "loop"
  /\ cur = ListenFd
  /\ left_len = 0
  /\ events = {}
  /\ requests = [c \in Conns |-> <<>>]
  /\ replies = [c \in Conns |-> [whole |-> 0, body |-> 0, torn |-> FALSE]]

-----------------------------------------------------------------------------
(***************************************************************************)
(* onepoll: with no event left, epoll_wait; otherwise the next event.      *)
(***************************************************************************)
Wait ==
  /\ pc = "loop" /\ events = {}
  /\ \E batch \in SUBSET ready :
       /\ EpollWait(batch)
       /\ events' = {EventOf(fd) : fd \in batch}
  /\ UNCHANGED <<sockVars, tables, history, pc, cur, left_len>>

\* Mutant: the loop does not move on to the next event.
Event_NotConsumed(fd, ev) ==
  /\ pc = "loop"
  /\ [fd |-> fd, ev |-> ev] \in events
  /\ UNCHANGED events

\* Mutant: only onaccept moves on to the next event.
Event_StaysForHandler(fd, ev) ==
  /\ pc = "loop"
  /\ [fd |-> fd, ev |-> ev] \in events
  /\ events' = IF fd = ListenFd THEN events \ {[fd |-> fd, ev |-> ev]} ELSE events

Event(fd, ev) ==
  /\ pc = "loop"
  /\ [fd |-> fd, ev |-> ev] \in events
  /\ events' = events \ {[fd |-> fd, ev |-> ev]}

(***************************************************************************)
(* onaccept: one accept per event.  The descriptor is used even when       *)
(* epoll_ctl refuses it, and it is not closed then.                        *)
(***************************************************************************)
Accept ==
  /\ Event(ListenFd, "IN")
  /\ \E c \in backlog, fd \in Fds :
       /\ LowestFree(fd)
       /\ conn_at' = [conn_at EXCEPT ![fd] = c]
       /\ backlog' = backlog \ {c}
       /\ \/ Register(fd, "IN", HotIn(Unread(c), peer[c]))
          \/ "enospc" \in Faults /\ UNCHANGED epollVars
  /\ UNCHANGED <<peer, arrived, taken, outq, tables, history, pc, cur, left_len>>

AcceptFails ==
  /\ Event(ListenFd, "IN")
  /\ \A fd \in Fds : conn_at[fd] # NoConn
  /\ UNCHANGED <<sockVars, epollVars, tables, history, pc, cur, left_len>>

-----------------------------------------------------------------------------
(***************************************************************************)
(* onread.  OnRead is its beginning; the actions after it are the rounds   *)
(* of its loop, each with adjust_buf and one read.                         *)
(***************************************************************************)
BeginRead(fd, first) ==         \* first: the contents of a first buffer
  /\ Event(fd, "IN")
  /\ fd \in Fds
  /\ finish_flag' = [finish_flag EXCEPT ![fd] = FALSE]
  /\ IF recv_msg[fd] = NULL
       THEN /\ recv_msg' = [recv_msg EXCEPT ![fd] = first]
            /\ used_size' = [used_size EXCEPT ![fd] = 0]
            /\ total_len' = [total_len EXCEPT ![fd] = INIT_BUF_SIZE]
            /\ heap' = heap + 1
       ELSE UNCHANGED <<recv_msg, used_size, total_len, heap>>
  /\ pc' = "read" /\ cur' = fd
  /\ UNCHANGED <<sockVars, epollVars, history, left_len>>

OnRead(fd) == BeginRead(fd, [i \in 1 .. INIT_BUF_SIZE |-> NulByte])

CharOf(b) == IF b = NulByte THEN "0" ELSE Stream[b[1]][b[2]]

\* strlen of the buffer reaches beyond its i-th byte.
BeforeNul(buf, i) == \A j \in 1 .. i : CharOf(buf[j]) # "0"

\* Mutant: adjust_buf waits until the buffer is full.
MustGrow_WhenFull(fd) == total_len[fd] - used_size[fd] < 1

\* adjust_buf: the buffer doubles when no more than one byte is left in it.
\* memcpy copies strlen bytes into zeroed memory; the old buffer is kept.
MustGrow(fd) == total_len[fd] - used_size[fd] <= 1
Size(fd) == IF MustGrow(fd) THEN 2 * total_len[fd] ELSE total_len[fd]
Grown(buf, n) ==
  [i \in 1 .. n |-> IF i <= Len(buf) /\ BeforeNul(buf, i) THEN buf[i]
                                                          ELSE NulByte]
Adjusted(fd) == IF MustGrow(fd) THEN Grown(recv_msg[fd], Size(fd))
                                ELSE recv_msg[fd]
HeapAfter(fd, released) == heap + (IF MustGrow(fd) THEN 1 ELSE 0) - released
Room(fd) == Size(fd) - used_size[fd] - 1        \* bytes asked of read

\* The buffer buf after a read of n bytes at used_size.
Received(buf, fd, n) ==
  LET c == conn_at[fd] IN
  [i \in 1 .. Size(fd) |->
     IF i \in used_size[fd] + 1 .. used_size[fd] + n
       THEN <<c, taken[c] + i - used_size[fd]>>
       ELSE buf[i]]
Filled(fd, n) == Received(Adjusted(fd), fd, n)

\* Mutant: a request needs a byte before its terminator.
Terminated_NotAlone(buf, end) ==
  end > 4 /\ \A i \in 1 .. 4 : CharOf(buf[end - 4 + i]) = <<"r", "n", "r", "n">>[i]

\* strncmp of the last four received bytes.  With fewer than four the test
\* reads the size word the allocator keeps before the buffer, whose upper
\* bytes are zero: it does not match.
Terminated(buf, end) ==
  end >= 4 /\ \A i \in 1 .. 4 : CharOf(buf[end - 4 + i]) = <<"r", "n", "r", "n">>[i]

\* Mutant: the buffer is not released.
Release_Forgotten(fd) == UNCHANGED <<recv_msg, used_size>>

Release(fd) ==                  \* release_buf
  /\ recv_msg' = [recv_msg EXCEPT ![fd] = NULL]
  /\ used_size' = [used_size EXCEPT ![fd] = 0]

\* Mutant: the descriptor is only taken off the interest list.
CloseFd_Forgotten(fd) == UNCHANGED <<conn_at, peer>>

CloseFd(fd) ==                  \* shutdown and close
  /\ conn_at' = [conn_at EXCEPT ![fd] = NoConn]
  /\ peer' = [peer EXCEPT ![conn_at[fd]] = "over"]

ReadAgain ==                    \* EAGAIN
  /\ pc = "read"
  /\ ReadWouldBlock(conn_at[cur])
  /\ recv_msg' = [recv_msg EXCEPT ![cur] = Adjusted(cur)]
  /\ total_len' = [total_len EXCEPT ![cur] = Size(cur)]
  /\ heap' = HeapAfter(cur, 0)
  /\ pc' = "again"
  /\ UNCHANGED <<sockVars, epollVars, history, used_size, finish_flag, cur,
                 left_len, events>>

Rearm ==                        \* wait for more
  LET c == conn_at[cur] IN
  /\ pc = "again"
  /\ Register(cur, "IN", HotIn(Unread(c), peer[c]))
  /\ pc' = "loop"
  /\ UNCHANGED <<sockVars, tables, history, cur, left_len, events>>

ReadCloses ==                   \* error or end of the stream
  /\ pc = "read"
  /\ ReadEnds(conn_at[cur])
  /\ Unregister(cur)
  /\ CloseFd(cur)
  /\ Release(cur)
  /\ total_len' = [total_len EXCEPT ![cur] = Size(cur)]
  /\ heap' = HeapAfter(cur, 1)
  /\ pc' = "loop"
  /\ UNCHANGED <<backlog, arrived, taken, outq, history, finish_flag, cur,
                 left_len, events>>

\* read returns n bytes; both outcomes of the test for the terminator.
ReadGets(n) ==
  LET c == conn_at[cur] IN
  /\ pc = "read"
  /\ n = Smaller(Unread(c), Room(cur)) /\ n > 0
  /\ taken' = [taken EXCEPT ![c] = @ + n]
  /\ total_len' = [total_len EXCEPT ![cur] = Size(cur)]
  /\ UNCHANGED <<conn_at, backlog, peer, arrived, outq, replies, cur, left_len,
                 events>>

\* Mutant: one read for each event.
ReadPart_OncePerEvent(n) ==
  /\ ReadGets(n)
  /\ ~ Terminated(Filled(cur, n), used_size[cur] + n)
  /\ recv_msg' = [recv_msg EXCEPT ![cur] = Filled(cur, n)]
  /\ used_size' = [used_size EXCEPT ![cur] = @ + n]
  /\ heap' = HeapAfter(cur, 0)
  /\ pc' = "loop"
  /\ UNCHANGED <<requests, finish_flag, epollVars>>

ReadPart(n) ==
  LET c == conn_at[cur] IN
  /\ ReadGets(n)
  /\ ~ Terminated(Filled(cur, n), used_size[cur] + n)
  /\ recv_msg' = [recv_msg EXCEPT ![cur] = Filled(cur, n)]
  /\ used_size' = [used_size EXCEPT ![cur] = @ + n]
  /\ heap' = HeapAfter(cur, 0)
  /\ Register(cur, "IN", HotIn(Unread(c) - n, peer[c]))
  /\ UNCHANGED <<requests, finish_flag, pc>>

ReadWhole(n) ==
  LET c == conn_at[cur]
      end == used_size[cur] + n IN
  /\ ReadGets(n)
  /\ Terminated(Filled(cur, n), end)
  /\ finish_flag' = [finish_flag EXCEPT ![cur] = TRUE]
  /\ requests' = [requests EXCEPT ![c] =
                    Append(@, [text |-> SubSeq(Filled(cur, n), 1, end - 4),
                               upto |-> taken[c] + n, ahead |-> outq[c] > 0])]
  /\ Register(cur, "OUT", HotOut(Space(c), peer[c]))
  /\ Release(cur)
  /\ heap' = HeapAfter(cur, 1)
  /\ pc' = "loop"

-----------------------------------------------------------------------------
(***************************************************************************)
(* onwrite.  The head, then the body WRITE_SIZE bytes at a time until      *)
(* REPLY_LEN bytes or more are sent.  A failed send returns without        *)
(* registering the descriptor again: it stays registered for EPOLLOUT, and *)
(* the next event sends the reply from its head.                           *)
(***************************************************************************)
Send(c, n) == outq' = [outq EXCEPT ![c] = @ + Smaller(n, Space(c))]

WriteHead(fd) ==                \* a short send is taken for a whole one
  LET c == conn_at[fd] IN
  /\ Event(fd, "OUT")
  /\ SendAccepts(c)
  /\ Send(c, HEAD_LEN)
  /\ replies' = [replies EXCEPT ![c].body = 0,
                                ![c].torn = @ \/ Space(c) < HEAD_LEN]
  /\ pc' = "body" /\ cur' = fd /\ left_len' = REPLY_LEN
  /\ UNCHANGED <<conn_at, backlog, peer, arrived, taken, epollVars, tables, requests>>

\* Mutant: the number of writes is counted instead of their bytes.
Left_CountsWrites(written) == left_len - 1

\* Mutant: a write is taken to send all it was asked to.
Left_AsAsked(written) == left_len - WRITE_SIZE

Left(written) == left_len - written

WriteBody ==
  LET c == conn_at[cur]
      written == Smaller(WRITE_SIZE, Space(c))
      left == Left(written) IN
  /\ pc = "body"
  /\ SendAccepts(c)
  /\ Send(c, WRITE_SIZE)
  /\ left_len' = left
  /\ replies' = [replies EXCEPT ![c].body = @ + written,
                                ![c].whole = IF left > 0 THEN @ ELSE @ + 1]
  /\ IF left > 0
       THEN UNCHANGED <<epollVars, pc>>
       ELSE Register(cur, "IN", HotIn(Unread(c), peer[c])) /\ pc' = "loop"
  /\ UNCHANGED <<conn_at, backlog, peer, arrived, taken, tables, requests, cur, events>>

WriteFails(fd) ==
  LET c == conn_at[fd] IN
  /\ SendFails(c)
  /\ peer' = ErrorReported(c)
  /\ UNCHANGED <<conn_at, backlog, arrived, taken, outq, epollVars, tables,
                 requests, left_len>>

WriteHeadFails(fd) ==
  /\ Event(fd, "OUT")
  /\ WriteFails(fd)
  /\ UNCHANGED <<pc, cur, replies>>

\* Mutant: after a failed write the connection is read from again.
WriteBodyFails_Rearms ==
  LET c == conn_at[cur] IN
  /\ pc = "body"
  /\ SendFails(c)
  /\ peer' = ErrorReported(c)
  /\ Register(cur, "IN", HotIn(Unread(c), peer[c]))
  /\ replies' = [replies EXCEPT ![c].torn = TRUE]
  /\ pc' = "loop"
  /\ UNCHANGED <<conn_at, backlog, arrived, taken, outq, tables, requests,
                 cur, left_len, events>>

WriteBodyFails ==
  /\ pc = "body"
  /\ WriteFails(cur)
  /\ replies' = [replies EXCEPT ![conn_at[cur]].torn = TRUE]
  /\ pc' = "loop"
  /\ UNCHANGED <<cur, events>>

\* SIGPIPE, for which no handler is installed, ends the process.
WriteKills ==
  /\ \/ \E fd \in Fds : Event(fd, "OUT") /\ SendKills(conn_at[fd])
     \/ pc = "body" /\ SendKills(conn_at[cur]) /\ UNCHANGED events
  /\ pc' = "dead"
  /\ UNCHANGED <<sockVars, epollVars, tables, history, cur, left_len>>

-----------------------------------------------------------------------------
OnAccept == Accept \/ AcceptFails

OnReadStep == \/ \E fd \in Fds : OnRead(fd)
              \/ ReadAgain
              \/ Rearm
              \/ ReadCloses
              \/ /\ pc = "read"
                 /\ \E n \in 1 .. Unread(conn_at[cur]) : ReadPart(n) \/ ReadWhole(n)

OnWriteStep == \/ \E fd \in Fds : WriteHead(fd) \/ WriteHeadFails(fd)
               \/ WriteBody
               \/ WriteBodyFails
               \/ WriteKills

ServerNext == Wait \/ OnAccept \/ OnReadStep \/ OnWriteStep

\* What peers do after the process has died is not followed.
Others == pc # "dead" /\ EnvNext /\ UNCHANGED <<tables, thread, history>>

Next == ServerNext \/ Others

Spec == Init /\ [][Next]_vars

(***************************************************************************)
(* The thread never stops taking steps; a peer reads what it is sent.      *)
(***************************************************************************)
FairSpec == /\ Spec
            /\ WF_vars(ServerNext)
            /\ \A c \in Conns : WF_vars(PeerReads(c) /\ Others)

-----------------------------------------------------------------------------
Registered(fd) == interest[fd] # "none"
Handled == IF pc \in {"read", "again", "body"} THEN {cur} ELSE {}
Pending == {e.fd : e \in events}

(***************************************************************************)
(* A buffer has the size the tables say, and read is never asked for zero  *)
(* bytes, which onread would take for the end of the stream and close the  *)
(* connection.                                                             *)
(***************************************************************************)
BuffersSized ==
  /\ \A fd \in Fds : recv_msg[fd] # NULL =>
       Len(recv_msg[fd]) = total_len[fd] /\ used_size[fd] < total_len[fd]
  /\ pc = "read" => recv_msg[cur] # NULL /\ Room(cur) > 0

(***************************************************************************)
(* Moreover, whatever has been read and however often the buffer grew, at  *)
(* least one byte follows the received ones and all that follow are zero,  *)
(* so that the strlen of adjust_buf ends inside the buffer.                *)
(***************************************************************************)
BufferBounds ==
  /\ BuffersSized
  /\ \A fd \in Fds : recv_msg[fd] # NULL =>
       \A i \in used_size[fd] + 1 .. total_len[fd] : recv_msg[fd][i] = NulByte

(***************************************************************************)
(* An event still in the array when its turn comes is about a connection   *)
(* registered for just that event, however many descriptors the handlers   *)
(* before it have closed, reused or registered anew; so no epoll_ctl of a  *)
(* handler fails, and its error paths, which forget the descriptor without *)
(* closing it, are not reached.                                            *)
(***************************************************************************)
EventsFresh ==
  /\ \A e \in events : e.fd # ListenFd =>
       conn_at[e.fd] \in Conns /\ interest[e.fd] = e.ev
  /\ pc \in {"read", "again"} => conn_at[cur] \in Conns /\ interest[cur] = "IN"
  /\ pc = "body" => conn_at[cur] \in Conns /\ interest[cur] = "OUT"
  /\ Handled \cap Pending = {}

(***************************************************************************)
(* The listening descriptor is a blocking one, but accept never blocks the *)
(* thread: a connection is waiting whenever its event is handled.          *)
(***************************************************************************)
AcceptNeverBlocks == ListenFd \in Pending => backlog # {}

(***************************************************************************)
(* No wakeup is lost on a connection although epoll reports edges only: a  *)
(* registered connection that is ready is on the ready list, among the     *)
(* events, or being handled.  One whose error a send has already reported  *)
(* is left behind.                                                         *)
(***************************************************************************)
NoLostWakeup ==
  pc # "dead" => \A fd \in Fds :
    Registered(fd) /\ Hot(conn_at[fd], interest[fd]) =>
      fd \in ready \cup Pending \cup Handled \/ peer[conn_at[fd]] = "gone"

\* Where in the stream of c the k-th request began, and the present one.
Began(c, k) == IF k = 1 THEN 0 ELSE requests[c][k - 1].upto
Delivered(c) == Began(c, Len(requests[c]) + 1)

NulFree(c) == \A i \in DOMAIN Stream[c] : Stream[c][i] # "0"
IsByte(b, c, i) == b = <<c, i>> \/ (b = NulByte /\ ~ NulFree(c))

(***************************************************************************)
(* The requests taken from a connection and the bytes in the buffer of its *)
(* descriptor are, end to end, what has been read from that connection:    *)
(* nothing of the descriptor's earlier connections, nothing twice, nothing *)
(* out of order, and nothing missing but bytes after a '\0', which memcpy  *)
(* with strlen does not carry over when the buffer grows.                  *)
(***************************************************************************)
StreamPartitioned ==
  /\ \A c \in Conns : \A k \in DOMAIN requests[c] :
       LET text == requests[c][k].text IN
       /\ Began(c, k) + Len(text) + 4 = requests[c][k].upto
       /\ \A i \in DOMAIN text : IsByte(text[i], c, Began(c, k) + i)
  /\ \A fd \in Fds : recv_msg[fd] # NULL =>
       LET c == conn_at[fd] IN
       /\ c \in Conns
       /\ Delivered(c) + used_size[fd] = taken[c]
       /\ \A i \in 1 .. used_size[fd] :
            IsByte(recv_msg[fd][i], c, Delivered(c) + i)

EndsRequest(c, p) == p >= 4 /\ SubSeq(Stream[c], p - 3, p) = <<"r", "n", "r", "n">>

(***************************************************************************)
(* However a stream without '\0' is cut into reads and however often the   *)
(* buffer grows between them, a terminator at the end of a read ends the   *)
(* request unless an earlier request already used one of its bytes.        *)
(***************************************************************************)
TerminatorNeverMissed ==
  \A c \in Conns :
    NulFree(c) /\ EndsRequest(c, taken[c]) => taken[c] - Delivered(c) < 4

(***************************************************************************)
(* A reply is cut short, and sent again from its head after the part that  *)
(* went out, only on a connection that asked again before it had read the  *)
(* reply before, or that was reset.                                        *)
(***************************************************************************)
AskedAhead(c) == \E k \in DOMAIN requests[c] : requests[c][k].ahead

TornOnlyWhenPipelined ==
  \A c \in Conns : replies[c].torn => AskedAhead(c) \/ peer[c] = "gone"

(***************************************************************************)
(* Once the thread is done with a reply its body holds every byte the head *)
(* announced, and what went out behind them is less than one write,        *)
(* however the send queue cut the writes and however often the reply was   *)
(* begun again.                                                            *)
(***************************************************************************)
Owes(c) == \E fd \in Fds : conn_at[fd] = c /\ interest[fd] = "OUT"

BodyCoversReply ==
  \A c \in Conns : replies[c].whole > 0 /\ ~ Owes(c) =>
    replies[c].body \in REPLY_LEN .. REPLY_LEN + WRITE_SIZE - 1

(***************************************************************************)
(* The server implements the protocol of RequestReply.                     *)
(***************************************************************************)
Phase(c) ==
  IF peer[c] = "over" THEN "closed"
  ELSE IF \E fd \in Fds : conn_at[fd] = c /\ interest[fd] = "IN" THEN "reading"
  ELSE IF \E fd \in Fds : conn_at[fd] = c /\ interest[fd] = "OUT" THEN "owing"
  ELSE IF \E fd \in Fds : conn_at[fd] = c THEN "unwatched" ELSE "absent"

RR == INSTANCE RequestReply WITH
        phase <- [c \in Conns |-> Phase(c)],
        asked <- [c \in Conns |-> Len(requests[c])],
        answered <- [c \in Conns |-> replies[c].whole]

\* Every step of the server is a step of RequestReply or none of its steps.
ImplementsRequestReply == RR!RRSpec

\* Under fairness it keeps the promise to answer as well, unless a peer aborts.
ImplementsRequestReplyFairly == RR!RRFairSpec

(***************************************************************************)
(* All a peer has sent is eventually read, and once its last request is    *)
(* complete every request it was sent as is answered.                      *)
(***************************************************************************)
Served(c) == taken[c] = arrived[c] /\ replies[c].whole = Len(requests[c])
StreamServed == \A c \in Conns : peer[c] = "up" ~> Served(c)

(***************************************************************************)
(* A connection whose peer has closed is closed in turn, its descriptor    *)
(* freed, in the middle of a request or of a reply as well.                *)
(***************************************************************************)
EofReclaimed == \A c \in Conns : peer[c] = "fin" ~> peer[c] = "over"

(***************************************************************************)
(* "Receive done, release": every receive buffer that is allocated and not *)
(* deleted is the buffer of a descriptor, so that adjust_buf, the end of a *)
(* request and the close paths lose none.  Here adjust_buf does; it is the *)
(* earlier server, with these tables, that keeps the count exact.          *)
(***************************************************************************)
Live == {fd \in Fds : recv_msg[fd] # NULL}
BuffersReleased == heap = Cardinality(Live)

=============================================================================
