-------------------------- MODULE SocketEpollServer --------------------------
(***************************************************************************)
(* socket/epoll_socket.cpp: the earlier server.  Its tables and its loop   *)
(* are those of EpollServer; what its handlers do differently is here.  It *)
(* waits for events without a timeout, a request ends with "nn", the first *)
(* buffer is not zeroed, a grown buffer replaces the old one, a closed     *)
(* connection leaves its buffer behind, there is no head before the reply, *)
(* and a failed write ends the reply.                                      *)
(***************************************************************************)
EXTENDS EpollServer

-----------------------------------------------------------------------------
\* epoll_wait with the timeout -1 returns only with events.
WaitForEvents == Wait /\ events' # {}

\* A byte before the buffer belongs to the allocator and is zero.
EndsWithNN(buf, end) ==
  end >= 2 /\ \A i \in {end - 1, end} : CharOf(buf[i]) = "n"

OnReadNN(fd) == BeginRead(fd, [i \in 1 .. INIT_BUF_SIZE |-> Unknown])

(***************************************************************************)
(* adjust_buf: strlen of the old buffer decides what is copied.  It ends   *)
(* at a '\0' among the received bytes or at the byte behind them; when     *)
(* nobody has written that one, it may end anywhere, and anything may      *)
(* follow the received bytes in the new buffer.  What happens when it runs *)
(* beyond the new buffer's size is not followed.                           *)
(***************************************************************************)
GrownNN(buf, n, used) ==
  [i \in 1 .. n |-> IF i <= used /\ BeforeNul(buf, i) THEN buf[i]
                    ELSE IF BeforeNul(buf, used) /\ buf[Len(buf)] = Unknown
                      THEN Unknown
                    ELSE NulByte]
AdjustedNN(fd) == IF MustGrow(fd) THEN GrownNN(recv_msg[fd], Size(fd), used_size[fd])
                                  ELSE recv_msg[fd]
FilledNN(fd, n) == Received(AdjustedNN(fd), fd, n)

\* Mutant: the old buffer is not deleted.
Adjust_Leaks == /\ recv_msg' = [recv_msg EXCEPT ![cur] = AdjustedNN(cur)]
                /\ total_len' = [total_len EXCEPT ![cur] = Size(cur)]
                /\ heap' = HeapAfter(cur, 0)
                /\ UNCHANGED used_size

Adjust == /\ recv_msg' = [recv_msg EXCEPT ![cur] = AdjustedNN(cur)]
          /\ total_len' = [total_len EXCEPT ![cur] = Size(cur)]
          /\ UNCHANGED <<heap, used_size>>      \* a new buffer, the old deleted

AgainNN ==                      \* EAGAIN; Rearm follows
  /\ pc = "read"
  /\ ReadWouldBlock(conn_at[cur])
  /\ Adjust
  /\ pc' = "again"
  /\ UNCHANGED <<sockVars, epollVars, history, finish_flag, cur, left_len, events>>

\* Mutant: the connection is closed without EPOLL_CTL_DEL and close.
CloseNN_Forgotten ==
  /\ pc = "read"
  /\ ReadEnds(conn_at[cur])
  /\ Adjust
  /\ pc' = "loop"
  /\ UNCHANGED <<sockVars, epollVars, history, finish_flag, cur, left_len, events>>

CloseNN ==                      \* error or end of the stream
  /\ pc = "read"
  /\ ReadEnds(conn_at[cur])
  /\ Adjust
  /\ Unregister(cur)
  /\ CloseFd(cur)
  /\ pc' = "loop"
  /\ UNCHANGED <<backlog, arrived, taken, outq, history, finish_flag, cur,
                 left_len, events>>

PartNN(n) ==
  LET c == conn_at[cur] IN
  /\ ReadGets(n)
  /\ ~ EndsWithNN(FilledNN(cur, n), used_size[cur] + n)
  /\ recv_msg' = [recv_msg EXCEPT ![cur] = FilledNN(cur, n)]
  /\ used_size' = [used_size EXCEPT ![cur] = @ + n]
  /\ Register(cur, "IN", HotIn(Unread(c) - n, peer[c]))
  /\ UNCHANGED <<requests, finish_flag, heap, pc>>

\* Mutant: the buffer is kept for the next request.
WholeNN_Kept(n) ==
  LET c == conn_at[cur]
      end == used_size[cur] + n IN
  /\ ReadGets(n)
  /\ EndsWithNN(FilledNN(cur, n), end)
  /\ requests' = [requests EXCEPT ![c] =
                    Append(@, [text |-> SubSeq(FilledNN(cur, n), 1, end - 2),
                               upto |-> taken[c] + n, ahead |-> outq[c] > 0])]
  /\ Register(cur, "OUT", HotOut(Space(c), peer[c]))
  /\ recv_msg' = [recv_msg EXCEPT ![cur] = FilledNN(cur, n)]
  /\ used_size' = [used_size EXCEPT ![cur] = @ + n]
  /\ pc' = "loop"
  /\ UNCHANGED <<finish_flag, heap>>

\* Mutant: the connection is not registered for EPOLLOUT.
WholeNN_StaysIn(n) ==
  LET c == conn_at[cur]
      end == used_size[cur] + n IN
  /\ ReadGets(n)
  /\ EndsWithNN(FilledNN(cur, n), end)
  /\ requests' = [requests EXCEPT ![c] =
                    Append(@, [text |-> SubSeq(FilledNN(cur, n), 1, end - 2),
                               upto |-> taken[c] + n, ahead |-> outq[c] > 0])]
  /\ Register(cur, "IN", HotIn(Unread(c) - n, peer[c]))
  /\ recv_msg' = [recv_msg EXCEPT ![cur] = NULL]
  /\ heap' = heap - 1
  /\ pc' = "loop"
  /\ UNCHANGED <<finish_flag, used_size>>

\* used_size is set again with the next buffer.
WholeNN(n) ==
  LET c == conn_at[cur]
      end == used_size[cur] + n IN
  /\ ReadGets(n)
  /\ EndsWithNN(FilledNN(cur, n), end)
  /\ requests' = [requests EXCEPT ![c] =
                    Append(@, [text |-> SubSeq(FilledNN(cur, n), 1, end - 2),
                               upto |-> taken[c] + n, ahead |-> outq[c] > 0])]
  /\ Register(cur, "OUT", HotOut(Space(c), peer[c]))
  /\ recv_msg' = [recv_msg EXCEPT ![cur] = NULL]
  /\ heap' = heap - 1
  /\ pc' = "loop"
  /\ UNCHANGED <<finish_flag, used_size>>

-----------------------------------------------------------------------------
\* The reply is copied into msg and written from there.
ReplyNN(fd) ==
  /\ Event(fd, "OUT")
  /\ replies' = [replies EXCEPT ![conn_at[fd]].body = 0]
  /\ pc' = "body" /\ cur' = fd /\ left_len' = REPLY_LEN
  /\ UNCHANGED <<sockVars, epollVars, tables, requests>>

\* What is left of the reply is given up.
WriteBreaks ==
  LET c == conn_at[cur] IN
  /\ pc = "body"
  /\ SendFails(c)
  /\ peer' = ErrorReported(c)
  /\ Register(cur, "IN", HotIn(Unread(c), peer[c]))
  /\ replies' = [replies EXCEPT ![c].torn = TRUE]
  /\ pc' = "loop"
  /\ UNCHANGED <<conn_at, backlog, arrived, taken, outq, tables, requests,
                 cur, left_len, events>>

KillsNN == pc = "body" /\ SendKills(conn_at[cur]) /\ pc' = "dead"
           /\ UNCHANGED <<sockVars, epollVars, tables, history, cur, left_len, events>>

-----------------------------------------------------------------------------
ReadNN == \/ \E fd \in Fds : OnReadNN(fd)
          \/ AgainNN
          \/ Rearm
          \/ CloseNN
          \/ pc = "read" /\ \E n \in 1 .. Unread(conn_at[cur]) : PartNN(n) \/ WholeNN(n)

WriteNN == \/ \E fd \in Fds : ReplyNN(fd)
           \/ WriteBody
           \/ WriteBreaks
           \/ KillsNN

ServerNN == WaitForEvents \/ OnAccept \/ ReadNN \/ WriteNN

NextNN == ServerNN \/ Others

SpecNN == Init /\ [][NextNN]_vars

\* As FairSpec: the thread runs on, a peer reads what it is sent.
FairSpecNN == /\ SpecNN
              /\ WF_vars(ServerNN)
              /\ \A c \in Conns : WF_vars(PeerReads(c) /\ Others)

-----------------------------------------------------------------------------
BytesOf(seq, n) == {seq[i] : i \in 1 .. n}

(***************************************************************************)
(* A buffer or a request holds a byte of another connection only if that   *)
(* one used the descriptor before and was closed in the middle of the      *)
(* request the byte belongs to.  Behind a '\0' of a stream there may be    *)
(* zeros, for what adjust_buf does not copy.  Memory nobody has written,   *)
(* which the buffers are full of, becomes part of no request.              *)
(***************************************************************************)
Leftover(b) == b[1] \in Conns /\ peer[b[1]] = "over" /\ b[2] > Delivered(b[1])
Zeroed(b) == b = NulByte /\ \E c \in Conns : ~ NulFree(c)

CarriedOnlyAfterClose ==
  /\ \A c \in Conns : \A k \in DOMAIN requests[c] :
       \A b \in BytesOf(requests[c][k].text, Len(requests[c][k].text)) :
         (b[1] = c /\ b[2] > Began(c, k)) \/ Leftover(b) \/ Zeroed(b)
  /\ \A fd \in Fds : recv_msg[fd] # NULL =>
       \A b \in BytesOf(recv_msg[fd], used_size[fd]) :
         (b[1] = conn_at[fd] /\ b[2] > Delivered(b[1])) \/ Leftover(b) \/ Zeroed(b)

(***************************************************************************)
(* The server keeps the protocol of RequestReply but for the replies it    *)
(* gives up.                                                               *)
(***************************************************************************)
ImplementsLossyRequestReply == RR!RRLossySpec

(***************************************************************************)
(* "A connection sends a second request only when the first is finished":  *)
(* as long as it asks only when it has read all it was sent, there is room *)
(* for a reply, and the rest of a reply is given up only on a connection   *)
(* that was reset, however often it asks.                                  *)
(***************************************************************************)
GivenUpForCause ==
  [][\A c \in Conns : replies'[c].torn /\ ~ replies[c].torn =>
       AskedAhead(c) \/ peer[c] = "reset"]_vars

(***************************************************************************)
(* Whatever peers do and in whatever order, again and again every watched  *)
(* connection is one whose peer is there and that is read to its end:      *)
(* those whose peer has left are closed in turn, whether a read or a write *)
(* found it out.                                                           *)
(***************************************************************************)
Idle(c) == peer[c] = "up" /\ taken[c] = arrived[c]

ReadToTheEnd ==
  [](pc # "dead") => []<>(\A fd \in Fds : Registered(fd) => Idle(conn_at[fd]))

=============================================================================
