-------------------------- MODULE EpollServiceProofs --------------------------
(***************************************************************************)
(* What the clients of EpollServer get from it, for any number of          *)
(* connections and descriptors and any streams, buffer sizes and faults.   *)
(*                                                                         *)
(* Of the streams it reads: the requests are the stream cut into pieces,   *)
(* no terminator is missed, and a reply is torn only on a connection whose *)
(* peer asked ahead or was reset.                                          *)
(*                                                                         *)
(* Of the protocol: the server implements RequestReply; the initial states *)
(* map to the initial one, and every step of the server or of a peer maps  *)
(* to a step of the protocol on one connection or to none.                 *)
(***************************************************************************)
EXTENDS EpollServerProofs

-----------------------------------------------------------------------------
(***************************************************************************)
(* The stream invariant.  StreamPartitioned speaks of the connections that *)
(* have a buffer.  For a new buffer to begin where the last request ended, *)
(* everything read from a connection without one must have been delivered  *)
(* (CaughtUp), unless it is over; and for adjust_buf to copy it all, what  *)
(* is in a buffer must be bytes of the stream (InStream).                  *)
(***************************************************************************)
InStream == \A c \in Conns : taken[c] <= arrived[c] /\ arrived[c] <= Len(Stream[c])

RequestOK(c, k) ==
  LET text == requests[c][k].text IN
  /\ Began(c, k) + Len(text) + 4 = requests[c][k].upto
  /\ \A i \in DOMAIN text : IsByte(text[i], c, Began(c, k) + i)

BufferOK(fd) ==
  recv_msg[fd] # NULL =>
    /\ conn_at[fd] \in Conns
    /\ Delivered(conn_at[fd]) + used_size[fd] = taken[conn_at[fd]]
    /\ \A i \in 1 .. used_size[fd] :
         IsByte(recv_msg[fd][i], conn_at[fd], Delivered(conn_at[fd]) + i)

CaughtUp(c) ==
  (\A fd \in Fds : conn_at[fd] = c => recv_msg[fd] = NULL) /\ peer[c] # "over" =>
    Delivered(c) = taken[c]

Found(c) == NulFree(c) /\ EndsRequest(c, taken[c]) => taken[c] - Delivered(c) < 4

StreamInv ==
  /\ InStream
  /\ \A c \in Conns : \A k \in DOMAIN requests[c] : RequestOK(c, k)
  /\ \A fd \in Fds : BufferOK(fd)
  /\ \A c \in Conns : CaughtUp(c) /\ Found(c)

\* The types the proofs below need.
LEMMA StreamTypes ==
  ASSUME IInv
  PROVE  /\ conn_at \in [Fds -> Conns \cup {NoConn}] /\ peer \in [Conns -> PeerStates]
         /\ arrived \in [Conns -> Nat] /\ taken \in [Conns -> Nat]
         /\ recv_msg \in [Fds -> Seq(Bytes)] /\ used_size \in [Fds -> Nat]
         /\ requests \in [Conns -> Seq(RequestRecord)]
         /\ \A c \in Conns : Stream[c] \in Seq(Chars) /\ Len(Stream[c]) \in Nat
         /\ \A f, g \in Fds : conn_at[f] = conn_at[g] /\ conn_at[f] \in Conns => f = g
         /\ EpollServerTypeOK /\ Dispatch /\ BuffersSized
BY StreamAssumption DEF IInv, Core, EpollServerTypeOK, SockTypeOK, Buffers, BufferBounds, Links

\* Where a connection's present request began is a place in its stream.
LEMMA DeliveredType ==
  ASSUME IInv, NEW c \in Conns
  PROVE  /\ Delivered(c) \in Nat
         /\ \A k \in DOMAIN requests[c] : Began(c, k) \in Nat
<1>1. requests[c] \in Seq(RequestRecord)
  BY StreamTypes
<1>2. \A k \in 1 .. Len(requests[c]) : requests[c][k].upto \in Nat
  <2>1. \A k \in 1 .. Len(requests[c]) : requests[c][k] \in RequestRecord
    BY <1>1, ElementOfSeq
  <2> QED
    BY <2>1 DEF RequestRecord
<1>3. Len(requests[c]) \in Nat /\ DOMAIN requests[c] = 1 .. Len(requests[c])
  BY <1>1
<1>4. \A k \in 1 .. Len(requests[c]) + 1 : Began(c, k) \in Nat
  BY <1>2, <1>3 DEF Began
<1> QED
  BY <1>3, <1>4 DEF Delivered

-----------------------------------------------------------------------------
(***************************************************************************)
(* Buffers.                                                                *)
(***************************************************************************)

\* A byte of a stream without '\0' is not taken for one.
LEMMA ByteIsNoNul ==
  ASSUME NEW c \in Conns, NulFree(c), NEW i \in DOMAIN Stream[c], NEW b, IsByte(b, c, i)
  PROVE  b = <<c, i>> /\ CharOf(b) = Stream[c][i] /\ CharOf(b) # "0"
<1>1. b = <<c, i>>
  BY DEF IsByte
<1>2. b # NulByte
  BY <1>1, ConnAssumption DEF NulByte
<1> QED
  BY <1>1, <1>2 DEF CharOf, NulFree

\* adjust_buf loses no received byte of a stream without '\0', and replaces
\* those of another at most by zeroes.
LEMMA AdjustedKeepsBytes ==
  ASSUME IInv, StreamInv, pc = "read", NEW c \in Conns, c = conn_at[cur]
  PROVE  \A i \in 1 .. used_size[cur] : IsByte(Adjusted(cur)[i], c, Delivered(c) + i)
<1> SUFFICES ASSUME NEW i \in 1 .. used_size[cur]
             PROVE  IsByte(Adjusted(cur)[i], c, Delivered(c) + i)
  OBVIOUS
<1>1. /\ cur \in Fds /\ recv_msg[cur] # NULL /\ used_size[cur] \in Nat
      /\ used_size[cur] < total_len[cur] /\ Len(recv_msg[cur]) = total_len[cur]
      /\ total_len[cur] \in Nat /\ Size(cur) \in Nat /\ total_len[cur] <= Size(cur)
  BY StreamTypes, SizesInRead DEF BuffersSized
<1>2. \A j \in 1 .. used_size[cur] : IsByte(recv_msg[cur][j], c, Delivered(c) + j)
  BY <1>1 DEF StreamInv, BufferOK
<1>3. CASE ~ MustGrow(cur)
  BY <1>2, <1>3 DEF Adjusted
<1>4. CASE MustGrow(cur)
  <2>1. Adjusted(cur)[i] = IF BeforeNul(recv_msg[cur], i) THEN recv_msg[cur][i]
                                                         ELSE NulByte
    BY <1>1, <1>4 DEF Adjusted, Grown
  <2>2. CASE NulFree(c)
    <3>1. \A j \in 1 .. used_size[cur] : Delivered(c) + j \in DOMAIN Stream[c]
      <4>1. /\ Delivered(c) + used_size[cur] = taken[c] /\ Delivered(c) \in Nat
            /\ taken[c] <= Len(Stream[c]) /\ taken[c] \in Nat
            /\ Len(Stream[c]) \in Nat /\ DOMAIN Stream[c] = 1 .. Len(Stream[c])
        <5>1. taken[c] <= arrived[c] /\ arrived[c] <= Len(Stream[c])
          BY DEF StreamInv, InStream
        <5>2. taken[c] \in Nat /\ arrived[c] \in Nat /\ Len(Stream[c]) \in Nat
              /\ DOMAIN Stream[c] = 1 .. Len(Stream[c])
          BY StreamTypes
        <5>3. Delivered(c) + used_size[cur] = taken[c]
          BY <1>1 DEF StreamInv, BufferOK
        <5> QED
          BY <5>1, <5>2, <5>3, DeliveredType
      <4> QED
        BY <1>1, <4>1
    <3>2. BeforeNul(recv_msg[cur], i)
      BY <1>1, <1>2, <2>2, <3>1, ByteIsNoNul DEF BeforeNul
    <3> QED
      BY <1>2, <2>1, <3>2
  <2>3. CASE ~ NulFree(c)
    BY <1>2, <2>1, <2>3 DEF IsByte
  <2> QED
    BY <2>2, <2>3
<1> QED
  BY <1>3, <1>4

\* After a read the buffer holds the bytes received before and the new ones.
LEMMA FilledHoldsBytes ==
  ASSUME IInv, StreamInv, pc = "read", NEW c \in Conns, c = conn_at[cur],
         NEW n \in Nat, n <= Room(cur)
  PROVE  \A i \in 1 .. used_size[cur] + n :
           IsByte(Filled(cur, n)[i], c, Delivered(c) + i)
<1> SUFFICES ASSUME NEW i \in 1 .. used_size[cur] + n
             PROVE  IsByte(Filled(cur, n)[i], c, Delivered(c) + i)
  OBVIOUS
<1>1. /\ cur \in Fds /\ used_size[cur] \in Nat
      /\ recv_msg[cur] # NULL /\ Delivered(c) \in Nat
  BY StreamTypes, SizesInRead, DeliveredType DEF BuffersSized
<1>2. CASE i <= used_size[cur]
  <2>1. Filled(cur, n)[i] = Adjusted(cur)[i]
    BY <1>1, <1>2, StreamTypes, FilledIsBuffer
  <2> QED
    BY <1>1, <1>2, <2>1, AdjustedKeepsBytes
<1>3. CASE i > used_size[cur]
  <2>1. i - used_size[cur] \in 1 .. n /\ used_size[cur] + (i - used_size[cur]) = i
    BY <1>1, <1>3
  <2>2. Filled(cur, n)[used_size[cur] + (i - used_size[cur])] =
          <<c, taken[c] + (i - used_size[cur])>>
    BY <2>1, StreamTypes, FilledIsBuffer
  <2>3. Delivered(c) + used_size[cur] = taken[c]
    BY <1>1 DEF StreamInv, BufferOK
  <2>4. taken[c] + (i - used_size[cur]) = Delivered(c) + i
    BY <1>1, <2>3
  <2> QED
    BY <2>1, <2>2, <2>4 DEF IsByte
<1> QED
  BY <1>1, <1>2, <1>3
-----------------------------------------------------------------------------
(***************************************************************************)
(* Steps that read nothing.                                                *)
(***************************************************************************)

\* A step that reads nothing, takes no descriptor away from a connection
\* with a buffer and brings no connection back keeps the invariant.
LEMMA StreamKept ==
  ASSUME IInv, StreamInv, UNCHANGED <<recv_msg, used_size, taken, requests>>,
         \A c \in Conns : arrived[c] <= arrived'[c] /\ arrived'[c] <= Len(Stream[c]),
         arrived' \in [Conns -> Nat],
         \A c \in Conns : peer[c] = "over" => peer'[c] = "over",
         \A fd \in Fds : recv_msg[fd] # NULL => conn_at'[fd] = conn_at[fd]
  PROVE  StreamInv'
<1>1. \A c \in Conns : Delivered(c)' = Delivered(c)
  BY DEF Delivered, Began
<1>2. InStream'
  <2> SUFFICES ASSUME NEW c \in Conns PROVE taken[c] <= arrived'[c]
    BY DEF InStream
  <2>1. /\ taken[c] <= arrived[c] /\ arrived[c] <= arrived'[c]
        /\ taken[c] \in Nat /\ arrived[c] \in Nat /\ arrived'[c] \in Nat
    BY StreamTypes DEF StreamInv, InStream
  <2> QED
    BY <2>1
<1>3. \A c \in Conns : \A k \in DOMAIN requests'[c] : RequestOK(c, k)'
  BY DEF StreamInv, RequestOK, Began
<1>4. \A fd \in Fds : BufferOK(fd)'
  BY <1>1 DEF StreamInv, BufferOK
<1>5. \A c \in Conns : CaughtUp(c)'
  BY <1>1 DEF StreamInv, CaughtUp
<1>6. \A c \in Conns : Found(c)'
  BY <1>1 DEF StreamInv, Found
<1> QED
  BY <1>2, <1>3, <1>4, <1>5, <1>6 DEF StreamInv

\* Such a step of which the peers' part is nothing or an error reported.
LEMMA StreamKeptByServer ==
  ASSUME IInv, StreamInv, UNCHANGED <<recv_msg, used_size, taken, requests, arrived>>,
         UNCHANGED peer \/ \E c \in Conns : peer' = ErrorReported(c),
         \A fd \in Fds : recv_msg[fd] # NULL => conn_at'[fd] = conn_at[fd]
  PROVE  StreamInv'
<1>1. \A c \in Conns : arrived[c] <= arrived'[c] /\ arrived'[c] <= Len(Stream[c])
  BY StreamTypes DEF StreamInv, InStream
<1>2. \A c \in Conns : peer[c] = "over" => peer'[c] = "over"
  BY StreamTypes DEF ErrorReported
<1>3. arrived' \in [Conns -> Nat]
  BY StreamTypes
<1>4. UNCHANGED <<recv_msg, used_size, taken, requests>>
  OBVIOUS
<1> QED
  BY <1>1, <1>2, <1>3, <1>4, StreamKept

\* The peers add to their streams, and never come back.
LEMMA StreamPeers ==
  ASSUME IInv, StreamInv, Others
  PROVE  StreamInv'
<1>1. PICK c \in Conns : PeerConnects(c) \/ PeerSends(c) \/ PeerReads(c) \/ PeerEnds(c)
  BY DEF Others, EnvNext
<1>2. UNCHANGED <<recv_msg, used_size, requests, taken, conn_at>>
  BY <1>1 DEF Others, tables, history, PeerConnects, Connect, PeerSends, PeerSend,
              PeerReads, PeerRead, PeerEnds, PeerLeaves
<1>3. \A d \in Conns : peer[d] = "over" => peer'[d] = "over"
  BY <1>1, StreamTypes DEF PeerConnects, Connect, PeerSends, PeerSend, PeerReads,
                           PeerRead, PeerEnds, PeerLeaves
<1>4. /\ \A d \in Conns : arrived[d] <= arrived'[d] /\ arrived'[d] <= Len(Stream[d])
      /\ arrived' \in [Conns -> Nat]
  <2>1. CASE UNCHANGED arrived
    BY <2>1, StreamTypes DEF StreamInv, InStream
  <2>2. CASE PeerSends(c)
    <3>1. PICK n \in 1 .. Len(Stream[c]) - arrived[c] :
            arrived' = [arrived EXCEPT ![c] = arrived[c] + n]
      BY <2>2 DEF PeerSends, PeerSend
    <3>2. arrived[c] \in Nat /\ Len(Stream[c]) \in Nat
      BY StreamTypes
    <3>3. arrived[c] + n \in Nat /\ arrived[c] <= arrived[c] + n
          /\ arrived[c] + n <= Len(Stream[c])
      BY <3>2
    <3>4. \A d \in Conns : arrived[d] <= Len(Stream[d]) /\ arrived[d] \in Nat
      BY StreamTypes DEF StreamInv, InStream
    <3>5. \A d \in Conns : arrived'[d] = IF d = c THEN arrived[c] + n ELSE arrived[d]
      BY <3>1, StreamTypes
    <3>6. arrived' \in [Conns -> Nat]
      BY <3>1, <3>3, StreamTypes
    <3>7. \A d \in Conns : arrived[d] <= arrived'[d] /\ arrived'[d] <= Len(Stream[d])
      <4> SUFFICES ASSUME NEW d \in Conns
                   PROVE  arrived[d] <= arrived'[d] /\ arrived'[d] <= Len(Stream[d])
        OBVIOUS
      <4>1. CASE d = c
        BY <3>2, <3>3, <3>5, <4>1
      <4>2. CASE d # c
        <5>1. arrived'[d] = arrived[d]
          BY <3>5, <4>2
        <5> QED
          BY <3>4, <5>1
      <4> QED
        BY <4>1, <4>2
    <3> QED
      BY <3>6, <3>7
  <2> QED
    BY <1>1, <2>1, <2>2 DEF PeerConnects, Connect, PeerReads, PeerRead, PeerEnds,
                            PeerLeaves
<1> QED
  BY <1>2, <1>3, <1>4, StreamKept

\* accept takes a descriptor without a buffer.
LEMMA StreamAccept ==
  ASSUME IInv, StreamInv, OnAccept
  PROVE  StreamInv'
<1>1. UNCHANGED <<recv_msg, used_size, taken, requests, arrived, peer>>
  BY DEF OnAccept, Accept, AcceptFails, sockVars, tables, history
<1>2. \A fd \in Fds : recv_msg[fd] # NULL => conn_at'[fd] = conn_at[fd]
  <2>1. CASE Accept
    <3>1. PICK c \in backlog, f \in Fds :
            conn_at[f] = NoConn /\ conn_at' = [conn_at EXCEPT ![f] = c]
      BY <2>1 DEF Accept, LowestFree
    <3>2. recv_msg[f] = NULL
      BY <3>1, ConnAssumption DEF StreamInv, BufferOK
    <3> QED
      BY <3>1, <3>2, StreamTypes
  <2>2. CASE AcceptFails
    BY <2>2 DEF AcceptFails, sockVars
  <2> QED
    BY <2>1, <2>2 DEF OnAccept
<1> QED
  BY <1>1, <1>2, StreamKeptByServer

\* onwrite touches no request and no buffer.
LEMMA StreamWrite ==
  ASSUME IInv, StreamInv, OnWriteStep
  PROVE  StreamInv'
<1>1. UNCHANGED <<recv_msg, used_size, taken, requests, arrived, conn_at>>
  BY DEF OnWriteStep, WriteHead, WriteHeadFails, WriteFails, WriteBody, WriteBodyFails,
         WriteKills, tables, history, sockVars
<1>2. UNCHANGED peer \/ \E c \in Conns : peer' = ErrorReported(c)
  BY HandlerKnows
     DEF IInv, OnWriteStep, WriteHead, WriteHeadFails, WriteFails, WriteBody, WriteBodyFails,
         WriteKills, sockVars
<1> QED
  BY <1>1, <1>2, StreamKeptByServer

-----------------------------------------------------------------------------
(***************************************************************************)
(* onread.                                                                 *)
(***************************************************************************)

\* A new buffer begins where the last request ended.
LEMMA StreamOnRead ==
  ASSUME IInv, StreamInv, NEW fd \in Fds, OnRead(fd)
  PROVE  StreamInv'
<1>1. CASE recv_msg[fd] # NULL
  BY <1>1, StreamKeptByServer DEF OnRead, BeginRead, sockVars, history
<1>2. CASE recv_msg[fd] = NULL
  <2>1. PICK c \in Conns : c = conn_at[fd]
    BY HandlerKnows DEF IInv, OnRead, BeginRead
  <2>2. /\ used_size' = [used_size EXCEPT ![fd] = 0]
        /\ \A f \in Fds \ {fd} : recv_msg'[f] = recv_msg[f] /\ used_size'[f] = used_size[f]
        /\ UNCHANGED <<conn_at, peer, arrived, taken, requests>>
        /\ used_size'[fd] = 0
    BY <1>2, StreamTypes DEF OnRead, BeginRead, sockVars, history
  <2>3. \A d \in Conns : Delivered(d)' = Delivered(d)
    BY <2>2 DEF Delivered, Began
  <2>4. Delivered(c) = taken[c] /\ Delivered(c) \in Nat
    <3>1. \A f \in Fds : conn_at[f] = c => f = fd
      BY <2>1, StreamTypes
    <3>2. peer[c] # "over"
      BY <2>1 DEF IInv, Core, Links
    <3> QED
      BY <1>2, <3>1, <3>2, DeliveredType DEF StreamInv, CaughtUp
  <2>5. BufferOK(fd)'
    BY <2>1, <2>2, <2>3, <2>4 DEF BufferOK
  <2>6. \A f \in Fds \ {fd} : BufferOK(f)'
    BY <2>2, <2>3 DEF StreamInv, BufferOK
  <2>7. \A d \in Conns : CaughtUp(d)'
    <3> SUFFICES ASSUME NEW d \in Conns, \A f \in Fds : conn_at[f] = d => recv_msg'[f] = NULL,
                        peer[d] # "over"
                 PROVE  Delivered(d) = taken[d]
      BY <2>2, <2>3 DEF CaughtUp
    <3>1. CASE d = c
      BY <2>4, <3>1
    <3>2. CASE d # c
      BY <2>1, <2>2, <3>2 DEF StreamInv, CaughtUp
    <3> QED
      BY <3>1, <3>2
  <2>8. InStream' /\ \A d \in Conns : Found(d)'
    BY <2>2, <2>3 DEF StreamInv, InStream, Found
  <2>9. \A d \in Conns : \A k \in DOMAIN requests'[d] : RequestOK(d, k)'
    BY <2>2 DEF StreamInv, RequestOK, Began
  <2> QED
    BY <2>5, <2>6, <2>7, <2>8, <2>9 DEF StreamInv
<1> QED
  BY <1>1, <1>2
\* A round of onread that leaves the buffer with its descriptor: n bytes of
\* the stream are behind those received before.
LEMMA StreamReadInto ==
  ASSUME IInv, StreamInv, pc = "read", NEW c \in Conns, c = conn_at[cur],
         NEW n \in Nat, n <= Unread(c), NEW buf, buf # NULL,
         recv_msg' = [recv_msg EXCEPT ![cur] = buf],
         used_size' = [used_size EXCEPT ![cur] = used_size[cur] + n],
         taken' = [taken EXCEPT ![c] = taken[c] + n],
         UNCHANGED <<conn_at, peer, arrived, requests>>,
         \A i \in 1 .. used_size[cur] + n : IsByte(buf[i], c, Delivered(c) + i),
         Found(c)'
  PROVE  StreamInv'
<1>1. /\ cur \in Fds /\ used_size[cur] \in Nat /\ taken[c] \in Nat /\ arrived[c] \in Nat
      /\ recv_msg[cur] # NULL /\ Delivered(c) \in Nat
  BY StreamTypes, SizesInRead, DeliveredType DEF BuffersSized
<1>0. PICK fd \in Fds : fd = cur
  BY <1>1
<1>2. /\ recv_msg'[cur] = buf /\ used_size'[cur] = used_size[cur] + n
      /\ taken'[c] = taken[c] + n
      /\ \A d \in Conns \ {c} : taken'[d] = taken[d]
      /\ \A f \in Fds \ {cur} : recv_msg'[f] = recv_msg[f] /\ used_size'[f] = used_size[f]
  BY <1>1, StreamTypes
<1>3. \A d \in Conns : Delivered(d)' = Delivered(d)
  BY DEF Delivered, Began
<1>4. \A f \in Fds : conn_at[f] = c => f = cur
  BY <1>1, StreamTypes
<1>5. InStream'
  <2>1. taken[c] + n <= arrived[c]
    BY <1>1 DEF Unread
  <2> QED
    BY <1>2, <2>1 DEF StreamInv, InStream
<1>6. BufferOK(fd)'
  <2>1. Delivered(c) + used_size[cur] = taken[c]
    BY <1>1 DEF StreamInv, BufferOK
  <2>2. Delivered(c) + (used_size[cur] + n) = taken[c] + n
    BY <1>1, <2>1
  <2> QED
    BY <1>0, <1>2, <1>3, <2>2 DEF BufferOK
<1>7. \A f \in Fds \ {fd} : BufferOK(f)'
  BY <1>0, <1>2, <1>3, <1>4 DEF StreamInv, BufferOK
<1>8. \A d \in Conns : CaughtUp(d)'
  <2>1. CaughtUp(c)'
    BY <1>1, <1>2 DEF CaughtUp
  <2>2. ASSUME NEW d \in Conns \ {c} PROVE CaughtUp(d)'
    <3>1. \A f \in Fds : conn_at[f] = d => f # cur
      OBVIOUS
    <3> QED
      BY <1>2, <1>3, <3>1 DEF StreamInv, CaughtUp
  <2> QED
    BY <2>1, <2>2
<1>9. \A d \in Conns : Found(d)'
  BY <1>2, <1>3 DEF StreamInv, Found
<1>10. \A d \in Conns : \A k \in DOMAIN requests'[d] : RequestOK(d, k)'
  BY DEF StreamInv, RequestOK, Began
<1> QED
  BY <1>5, <1>6, <1>7, <1>8, <1>9, <1>10 DEF StreamInv

\* Where a read stands in its stream.
LEMMA PlaceOfRead ==
  ASSUME IInv, StreamInv, pc = "read", NEW c \in Conns, c = conn_at[cur],
         NEW n \in Nat, n <= Unread(c)
  PROVE  /\ Delivered(c) \in Nat /\ used_size[cur] \in Nat /\ taken[c] \in Nat
         /\ Delivered(c) + used_size[cur] = taken[c]
         /\ \A i \in 1 .. used_size[cur] + n : Delivered(c) + i \in DOMAIN Stream[c]
<1>1. /\ Delivered(c) \in Nat /\ used_size[cur] \in Nat /\ taken[c] \in Nat
      /\ arrived[c] \in Nat /\ Len(Stream[c]) \in Nat
      /\ DOMAIN Stream[c] = 1 .. Len(Stream[c])
  BY StreamTypes, SizesInRead, DeliveredType
<1>2. Delivered(c) + used_size[cur] = taken[c]
  BY SizesInRead, StreamTypes DEF StreamInv, BufferOK, BuffersSized
<1>3. taken[c] + n <= arrived[c] /\ arrived[c] <= Len(Stream[c])
  BY <1>1 DEF Unread, StreamInv, InStream
<1>4. \A d, u, t, a, len \in Nat :
        d + u = t /\ t + n <= a /\ a <= len => \A i \in 1 .. u + n : d + i \in 1 .. len
  OBVIOUS
<1>5. \A i \in 1 .. used_size[cur] + n : Delivered(c) + i \in 1 .. Len(Stream[c])
  BY <1>1, <1>2, <1>3, <1>4
<1> QED
  BY <1>1, <1>2, <1>5

\* When the stream is without '\0' and a request ends where a read does, the
\* test for the terminator finds it, unless it is shared with the request
\* before.
LEMMA TerminatorFound ==
  ASSUME IInv, StreamInv, pc = "read", NEW c \in Conns, c = conn_at[cur],
         NEW n \in Nat, n <= Room(cur), n <= Unread(c),
         NulFree(c), EndsRequest(c, taken[c] + n), used_size[cur] + n >= 4
  PROVE  Terminated(Filled(cur, n), used_size[cur] + n)
<1>1. /\ Delivered(c) \in Nat /\ used_size[cur] \in Nat /\ taken[c] \in Nat
      /\ Delivered(c) + used_size[cur] = taken[c]
      /\ \A i \in 1 .. used_size[cur] + n : Delivered(c) + i \in DOMAIN Stream[c]
  BY PlaceOfRead
<1>2. PICK end \in Nat, from \in Nat, to \in Nat :
        /\ end = used_size[cur] + n /\ from = Delivered(c) /\ to = taken[c] + n
        /\ end >= 4 /\ from + end = to
  BY <1>1
<1>3. /\ DOMAIN Stream[c] = 1 .. Len(Stream[c]) /\ Stream[c] \in Seq(Chars)
      /\ Len(Stream[c]) \in Nat
  BY StreamTypes
<1>4. \A i \in 1 .. end : from + i \in 1 .. Len(Stream[c])
  BY <1>1, <1>2, <1>3
<1>5. \A i \in 1 .. end : IsByte(Filled(cur, n)[i], c, from + i)
  BY <1>2, FilledHoldsBytes
<1>6. EndsRequest(c, to)
  BY <1>2
<1>7. to - 3 >= 1 /\ to <= Len(Stream[c]) /\ to - 3 \in Int
  BY SMTT(20), <1>2, <1>3, <1>4
<1>8. ASSUME NEW i \in 1 .. 4
      PROVE  CharOf(Filled(cur, n)[end - 4 + i]) = <<"r", "n", "r", "n">>[i]
  <2>1. end - 4 + i \in 1 .. end /\ from + (end - 4 + i) = to - 4 + i
    BY <1>2
  <2>2. /\ IsByte(Filled(cur, n)[end - 4 + i], c, to - 4 + i)
        /\ to - 4 + i \in 1 .. Len(Stream[c])
    BY <1>4, <1>5, <2>1
  <2>3. CharOf(Filled(cur, n)[end - 4 + i]) = Stream[c][to - 4 + i]
    BY <1>3, <2>2, ByteIsNoNul
  <2>4. SubSeq(Stream[c], to - 3, to)[i] = Stream[c][to - 4 + i]
    <3>1. \A j \in to - 3 .. to : Stream[c][j] \in Chars
      <4>1. \A j \in to - 3 .. to : j \in 1 .. Len(Stream[c])
        BY <1>2, <1>3, <1>7
      <4> QED
        BY <1>3, <4>1, ElementOfSeq
    <3>2. PICK at \in Int : at = to - 3
      BY <1>7
    <3>3. i \in 1 .. to - at + 1 /\ at + i - 1 = to - 4 + i /\ to \in Int
      BY <1>2, <3>2
    <3>4. \A j \in 1 .. to - at + 1 : SubSeq(Stream[c], at, to)[j] = Stream[c][at + j - 1]
      BY <3>1, <3>2, <3>3, SubSeqProperties
    <3> QED
      BY <3>2, <3>3, <3>4
  <2> QED
    BY <1>6, <2>3, <2>4 DEF EndsRequest
<1> QED
  BY <1>2, <1>8 DEF Terminated

\* What read returns is no more than there is and than it was asked for.
LEMMA ReadSize ==
  ASSUME IInv, NEW n \in Nat, ReadGets(n), NEW c \in Conns, c = conn_at[cur]
  PROVE  n <= Room(cur) /\ n <= Unread(c) /\ n > 0
<1>1. Unread(c) \in Int /\ Room(cur) \in Nat
  BY SizesInRead, StreamTypes DEF ReadGets, Unread
<1> QED
  BY <1>1, SmallerIsBoth DEF ReadGets

\* EAGAIN: the buffer may have grown.
LEMMA StreamReadAgain ==
  ASSUME IInv, StreamInv, ReadAgain
  PROVE  StreamInv'
<1>1. PICK c \in Conns : c = conn_at[cur]
  BY HandlerKnows DEF IInv, ReadAgain
<1>2. /\ pc = "read" /\ UNCHANGED <<conn_at, peer, arrived, requests, taken, used_size>>
      /\ recv_msg' = [recv_msg EXCEPT ![cur] = Adjusted(cur)]
  BY DEF ReadAgain, sockVars, history
<1>3. used_size[cur] \in Nat /\ taken[c] \in Nat /\ arrived[c] \in Nat /\ taken[c] <= arrived[c]
  BY <1>2, StreamTypes, SizesInRead DEF StreamInv, InStream
<1>4. used_size[cur] + 0 = used_size[cur] /\ taken[c] + 0 = taken[c] /\ 0 <= Unread(c)
  BY <1>3 DEF Unread
<1>5. /\ used_size' = [used_size EXCEPT ![cur] = used_size[cur] + 0]
      /\ taken' = [taken EXCEPT ![c] = taken[c] + 0]
  BY <1>2, <1>4, StreamTypes, SizesInRead
<1>6. \A i \in 1 .. used_size[cur] + 0 : IsByte(Adjusted(cur)[i], c, Delivered(c) + i)
  BY <1>1, <1>2, <1>4, AdjustedKeepsBytes
<1>7. Adjusted(cur) # NULL
  BY <1>2, StreamTypes, SizesInRead, AdjustedIsBuffer DEF NULL
<1>8. Found(c)'
  BY <1>2 DEF StreamInv, Found, Delivered, Began
<1> QED
  BY <1>1, <1>2, <1>4, <1>5, <1>6, <1>7, <1>8, StreamReadInto

\* A read without a terminator at its end.
LEMMA StreamReadPart ==
  ASSUME IInv, StreamInv, NEW n \in Nat, ReadPart(n)
  PROVE  StreamInv'
<1>1. PICK c \in Conns : c = conn_at[cur]
  BY HandlerKnows DEF IInv, ReadPart, ReadGets
<1>2. /\ pc = "read" /\ ReadGets(n) /\ UNCHANGED <<conn_at, peer, arrived, requests>>
      /\ recv_msg' = [recv_msg EXCEPT ![cur] = Filled(cur, n)]
      /\ used_size' = [used_size EXCEPT ![cur] = used_size[cur] + n]
      /\ taken' = [taken EXCEPT ![c] = taken[c] + n]
      /\ ~ Terminated(Filled(cur, n), used_size[cur] + n)
  BY <1>1 DEF ReadPart, ReadGets
<1>3. n <= Room(cur) /\ n <= Unread(c)
  BY <1>1, <1>2, ReadSize
<1>4. Filled(cur, n) # NULL
  BY <1>2, <1>3, StreamTypes, FilledIsBuffer
<1>5. \A i \in 1 .. used_size[cur] + n : IsByte(Filled(cur, n)[i], c, Delivered(c) + i)
  BY <1>1, <1>2, <1>3, FilledHoldsBytes
<1>6. Found(c)'
  <2>1. Delivered(c)' = Delivered(c)
    BY <1>2 DEF Delivered, Began
  <2>2. taken'[c] = taken[c] + n
    BY <1>2, StreamTypes
  <2>3. /\ Delivered(c) \in Nat /\ used_size[cur] \in Nat /\ taken[c] \in Nat
        /\ Delivered(c) + used_size[cur] = taken[c]
    BY <1>1, <1>2, <1>3, PlaceOfRead
  <2>4. NulFree(c) /\ EndsRequest(c, taken[c] + n) => used_size[cur] + n < 4
    BY <1>1, <1>2, <1>3, <2>3, TerminatorFound
  <2>5. (taken[c] + n) - Delivered(c) = used_size[cur] + n
    BY <2>3
  <2> QED
    BY <2>1, <2>2, <2>4, <2>5 DEF Found
<1> QED
  BY <1>1, <1>2, <1>3, <1>4, <1>5, <1>6, StreamReadInto

\* The end of the stream: the descriptor is free, and its buffer with it.
LEMMA StreamReadCloses ==
  ASSUME IInv, StreamInv, ReadCloses
  PROVE  StreamInv'
<1>1. PICK c \in Conns : c = conn_at[cur]
  BY HandlerKnows DEF IInv, ReadCloses
<1>2. /\ conn_at' = [conn_at EXCEPT ![cur] = NoConn]
      /\ peer' = [peer EXCEPT ![c] = "over"]
      /\ recv_msg' = [recv_msg EXCEPT ![cur] = NULL]
      /\ used_size' = [used_size EXCEPT ![cur] = 0]
      /\ UNCHANGED <<arrived, taken, requests>>
  BY <1>1 DEF ReadCloses, CloseFd, Release, history
<1>3. PICK fd \in Fds : fd = cur
  BY HandlerKnows DEF IInv, ReadCloses
<1>4. /\ recv_msg'[fd] = NULL /\ peer'[c] = "over"
      /\ \A f \in Fds \ {fd} : /\ conn_at'[f] = conn_at[f]
                              /\ recv_msg'[f] = recv_msg[f]
                              /\ used_size'[f] = used_size[f]
      /\ \A d \in Conns \ {c} : peer'[d] = peer[d]
  BY <1>2, <1>3, StreamTypes
<1>5. \A d \in Conns : Delivered(d)' = Delivered(d)
  BY <1>2 DEF Delivered, Began
<1>6. InStream' /\ \A d \in Conns : Found(d)'
  BY <1>2, <1>5 DEF StreamInv, InStream, Found
<1>7. \A d \in Conns : \A k \in DOMAIN requests'[d] : RequestOK(d, k)'
  BY <1>2 DEF StreamInv, RequestOK, Began
<1>8. \A f \in Fds : BufferOK(f)'
  <2>1. BufferOK(fd)'
    BY <1>4 DEF BufferOK
  <2>2. \A f \in Fds \ {fd} : BufferOK(f)'
    BY <1>2, <1>4, <1>5 DEF StreamInv, BufferOK
  <2> QED
    BY <2>1, <2>2
<1>9. \A d \in Conns : CaughtUp(d)'
  <2>1. CaughtUp(c)'
    BY <1>4 DEF CaughtUp
  <2>2. ASSUME NEW d \in Conns \ {c} PROVE CaughtUp(d)'
    <3>1. \A f \in Fds : conn_at[f] = d => f # fd
      BY <1>1, <1>3
    <3> QED
      BY <1>2, <1>4, <1>5, <3>1 DEF StreamInv, CaughtUp
  <2> QED
    BY <2>1, <2>2
<1> QED
  BY <1>6, <1>7, <1>8, <1>9 DEF StreamInv

\* A read that ends a request: the request is the buffer without its
\* terminator, and the next one begins where the read ended.
LEMMA StreamReadWhole ==
  ASSUME IInv, StreamInv, NEW n \in Nat, ReadWhole(n)
  PROVE  StreamInv'
<1>1. PICK c \in Conns : c = conn_at[cur]
  BY HandlerKnows DEF IInv, ReadWhole, ReadGets
<1> DEFINE end == used_size[cur] + n
           text == SubSeq(Filled(cur, n), 1, end - 4)
           new == [text |-> text, upto |-> taken[c] + n, ahead |-> outq[c] > 0]
<1>2. /\ pc = "read" /\ ReadGets(n) /\ UNCHANGED <<conn_at, peer, arrived>>
      /\ recv_msg' = [recv_msg EXCEPT ![cur] = NULL]
      /\ used_size' = [used_size EXCEPT ![cur] = 0]
      /\ taken' = [taken EXCEPT ![c] = taken[c] + n]
      /\ requests' = [requests EXCEPT ![c] = Append(requests[c], new)]
      /\ end >= 4
  BY <1>1 DEF ReadWhole, ReadGets, Release, Terminated
<1>3. PICK fd \in Fds : fd = cur
  BY <1>2, HandlerKnows DEF IInv
<1>4. n <= Room(cur) /\ n <= Unread(c)
  BY <1>1, <1>2, ReadSize
<1>5. /\ Delivered(c) \in Nat /\ used_size[cur] \in Nat /\ taken[c] \in Nat
      /\ Delivered(c) + used_size[cur] = taken[c]
  BY <1>1, <1>2, <1>4, PlaceOfRead
<1>6. /\ recv_msg'[fd] = NULL /\ taken'[c] = taken[c] + n
      /\ requests'[c] = Append(requests[c], new)
      /\ \A f \in Fds \ {fd} : recv_msg'[f] = recv_msg[f] /\ used_size'[f] = used_size[f]
      /\ \A d \in Conns \ {c} : taken'[d] = taken[d] /\ requests'[d] = requests[d]
  BY <1>2, <1>3, StreamTypes
<1>7. /\ text \in Seq(Bytes) /\ Len(text) = end - 4
      /\ \A i \in 1 .. end - 4 : text[i] = Filled(cur, n)[i]
  <2>1. Filled(cur, n) \in Seq(Bytes) /\ Len(Filled(cur, n)) = Size(cur)
    BY <1>2, <1>4, StreamTypes, FilledIsBuffer
  <2>2. end - 4 \in Nat /\ end - 4 <= Size(cur) /\ Size(cur) \in Nat
    <3>1. Room(cur) \in Nat /\ Size(cur) \in Nat /\ used_size[cur] + Room(cur) = Size(cur) - 1
      BY <1>2, StreamTypes, SizesInRead
    <3>2. end >= 4 /\ n \in Nat
      BY <1>2
    <3> QED
      BY <1>4, <1>5, <3>1, <3>2
  <2>3. \A i \in 1 .. end - 4 : Filled(cur, n)[i] \in Bytes
    BY <2>1, <2>2, ElementOfSeq
  <2> QED
    BY <2>2, <2>3, SubSeqProperties
<1> HIDE DEF text, new
<1>8. /\ new.text = text /\ new.upto = taken[c] + n
      /\ Len(requests'[c]) = Len(requests[c]) + 1 /\ Len(requests[c]) \in Nat
      /\ DOMAIN requests[c] = 1 .. Len(requests[c])
      /\ DOMAIN requests'[c] = 1 .. Len(requests[c]) + 1
      /\ \A k \in 1 .. Len(requests[c]) : requests'[c][k] = requests[c][k]
      /\ requests'[c][Len(requests[c]) + 1] = new
  BY <1>6, StreamTypes DEF new
<1>9. \A k \in 1 .. Len(requests[c]) + 1 : Began(c, k)' = Began(c, k)
  BY <1>8 DEF Began
<1>10. Delivered(c)' = taken[c] + n
  BY <1>8 DEF Delivered, Began
<1>11. \A d \in Conns \ {c} : Delivered(d)' = Delivered(d)
  BY <1>6 DEF Delivered, Began
<1>12. InStream'
  <2>1. arrived[c] \in Nat
    BY StreamTypes
  <2>2. taken[c] + n <= arrived[c]
    BY <1>4, <1>5, <2>1 DEF Unread
  <2> QED
    BY <1>2, <1>6, <2>2 DEF StreamInv, InStream
<1>13. \A f \in Fds : BufferOK(f)'
  <2>1. BufferOK(fd)'
    BY <1>6 DEF BufferOK
  <2>2. ASSUME NEW f \in Fds \ {fd} PROVE BufferOK(f)'
    <3>1. conn_at[f] # c
      BY <1>1, <1>3, StreamTypes
    <3> QED
      BY <1>2, <1>6, <1>11, <3>1 DEF StreamInv, BufferOK
  <2> QED
    BY <2>1, <2>2
<1>14. \A d \in Conns : CaughtUp(d)' /\ Found(d)'
  <2>1. CaughtUp(c)' /\ Found(c)'
    BY <1>5, <1>6, <1>10 DEF CaughtUp, Found
  <2>2. ASSUME NEW d \in Conns \ {c} PROVE CaughtUp(d)' /\ Found(d)'
    <3>1. \A f \in Fds : conn_at[f] = d => f # fd
      BY <1>1, <1>3
    <3> QED
      BY <1>2, <1>6, <1>11, <3>1 DEF StreamInv, CaughtUp, Found
  <2> QED
    BY <2>1, <2>2
<1>15. \A d \in Conns : \A k \in DOMAIN requests'[d] : RequestOK(d, k)'
  <2>0. PICK m \in Nat : m = Len(requests[c])
    BY <1>8
  <2>1. \A k \in 1 .. m : RequestOK(c, k)'
    BY <1>8, <1>9, <2>0 DEF StreamInv, RequestOK
  <2>2. RequestOK(c, m + 1)'
    <3>1. Began(c, m + 1)' = Delivered(c)
      BY <1>8, <1>9, <2>0 DEF Delivered
    <3>2. Delivered(c) + (end - 4) + 4 = taken[c] + n
      BY <1>5
    <3>3. \A i \in 1 .. end - 4 : IsByte(text[i], c, Delivered(c) + i)
      <4>1. \A i \in 1 .. end : IsByte(Filled(cur, n)[i], c, Delivered(c) + i)
        BY <1>1, <1>2, <1>4, FilledHoldsBytes
      <4>2. \A i \in 1 .. end - 4 : i \in 1 .. end
        BY <1>5
      <4> QED
        BY <1>7, <4>1, <4>2
    <3>4. DOMAIN text = 1 .. end - 4
      BY <1>7
    <3> QED
      BY <1>7, <1>8, <2>0, <3>1, <3>2, <3>3, <3>4 DEF RequestOK
  <2>3. \A d \in Conns \ {c} : \A k \in DOMAIN requests'[d] : RequestOK(d, k)'
    BY <1>6 DEF StreamInv, RequestOK, Began
  <2> QED
    BY <1>8, <2>0, <2>1, <2>2, <2>3
<1> QED
  BY <1>12, <1>13, <1>14, <1>15 DEF StreamInv

-----------------------------------------------------------------------------
(***************************************************************************)
(* The theorems about the stream.                                          *)
(***************************************************************************)
LEMMA InitStream == Init => StreamInv
<1> SUFFICES ASSUME Init PROVE StreamInv
  OBVIOUS
<1>1. /\ conn_at = [fd \in Fds |-> NoConn] /\ recv_msg = [fd \in Fds |-> NULL]
      /\ arrived = [c \in Conns |-> 0] /\ taken = [c \in Conns |-> 0]
      /\ requests = [c \in Conns |-> <<>>]
  BY DEF Init, SockInit
<1>2. \A c \in Conns : Len(Stream[c]) \in Nat
  BY StreamAssumption
<1>3. \A c \in Conns : Delivered(c) = 0 /\ DOMAIN requests[c] = {}
  BY <1>1 DEF Delivered, Began
<1>4. InStream /\ \A c \in Conns : CaughtUp(c) /\ Found(c)
  BY <1>1, <1>2, <1>3 DEF InStream, CaughtUp, Found
<1> QED
  BY <1>1, <1>3, <1>4 DEF StreamInv, BufferOK

\* Every step keeps the stream invariant.
LEMMA StreamStep ==
  ASSUME IInv, StreamInv, [Next]_vars
  PROVE  StreamInv'
<1>1. CASE Others
  BY <1>1, StreamPeers
<1>2. CASE Wait
  BY <1>2, StreamKeptByServer DEF Wait, sockVars, tables, history
<1>3. CASE OnAccept
  BY <1>3, StreamAccept
<1>4. CASE OnReadStep
  <2>1. \/ \E fd \in Fds : OnRead(fd)
        \/ ReadAgain \/ Rearm \/ ReadCloses
        \/ \E n \in Nat : ReadPart(n) \/ ReadWhole(n)
    BY <1>4, ReadsAreNatural DEF IInv, Core
  <2>2. Rearm => StreamInv'
    BY StreamKeptByServer DEF Rearm, sockVars, tables, history
  <2> QED
    BY <2>1, <2>2, StreamOnRead, StreamReadAgain, StreamReadCloses, StreamReadPart,
       StreamReadWhole
<1>5. CASE OnWriteStep
  BY <1>5, StreamWrite
<1>6. CASE UNCHANGED vars
  BY <1>6, StreamKeptByServer DEF vars, sockVars, tables, history
<1> QED
  BY <1>1, <1>2, <1>3, <1>4, <1>5, <1>6 DEF Next, ServerNext

\* The stream invariant holds in every state the server reaches.
THEOREM StreamInvariance == Spec => []StreamInv
<1>1. IInv /\ StreamInv /\ [Next]_vars => StreamInv'
  BY StreamStep
<1> QED
  BY InitStream, <1>1, Invariance, PTL DEF Spec

(***************************************************************************)
(* However reads cut the streams, buffers grow and descriptors are used    *)
(* again, onread prints each stream in its order, nothing twice and        *)
(* nothing of another connection.                                          *)
(***************************************************************************)
THEOREM StreamsPartitioned == Spec => []StreamPartitioned
<1>1. StreamInv => StreamPartitioned
  BY DEF StreamInv, RequestOK, BufferOK, StreamPartitioned
<1> QED
  BY <1>1, StreamInvariance, PTL

(***************************************************************************)
(* The strncmp of onread finds the terminator at the end of a read however *)
(* the bytes of the terminator came, unless they are the last request's.   *)
(***************************************************************************)
THEOREM TerminatorsFound == Spec => []TerminatorNeverMissed
<1>1. StreamInv => TerminatorNeverMissed
  BY DEF StreamInv, Found, TerminatorNeverMissed
<1> QED
  BY <1>1, StreamInvariance, PTL

-----------------------------------------------------------------------------
(***************************************************************************)
(* Torn replies.  A peer that has not asked ahead had read all it was sent *)
(* whenever it asked; so while it is owed a reply that has not been cut    *)
(* short, the send queue holds no more than what went out of that reply    *)
(* (QueueOK), and a queue with room for one reply only refuses a write of  *)
(* it after a reset.  A connection that was reset is registered for        *)
(* EPOLLOUT ever after (TornOK).                                           *)
(***************************************************************************)
Sending(c) == pc = "body" /\ conn_at[cur] = c

Untorn(c) == ~ AskedAhead(c) /\ ~ replies[c].torn

QueueOK ==
  pc # "dead" => \A c \in Conns : Untorn(c) /\ Owes(c) =>
    outq[c] <= IF Sending(c) THEN HEAD_LEN + replies[c].body ELSE 0

TornOK ==
  \A c \in Conns : replies[c].torn =>
    AskedAhead(c) \/ (peer[c] = "gone" /\ Owes(c))

\* The types of what is sent.
LEMMA SendTypes ==
  ASSUME EpollServerTypeOK
  PROVE  /\ outq \in [Conns -> 0 .. SNDBUF] /\ SNDBUF \in Nat
         /\ requests \in [Conns -> Seq(RequestRecord)]
         /\ replies \in [Conns -> ReplyRecord]
         /\ \A c \in Conns : /\ outq[c] \in Nat /\ outq[c] <= SNDBUF
                             /\ Len(requests[c]) \in Nat
                             /\ replies[c].whole \in Nat /\ replies[c].body \in Nat
                             /\ replies[c].torn \in BOOLEAN
         /\ conn_at \in [Fds -> Conns \cup {NoConn}] /\ peer \in [Conns -> PeerStates]
         /\ interest \in [Fds -> {"none", "IN", "OUT"}]
         /\ left_len \in Int
<1>1. /\ outq \in [Conns -> 0 .. SNDBUF] /\ SNDBUF \in Nat
      /\ requests \in [Conns -> Seq(RequestRecord)]
      /\ replies \in [Conns -> ReplyRecord]
      /\ conn_at \in [Fds -> Conns \cup {NoConn}] /\ peer \in [Conns -> PeerStates]
      /\ interest \in [Fds -> {"none", "IN", "OUT"}]
      /\ left_len \in Int
  BY QueueAssumption DEF EpollServerTypeOK, SockTypeOK, EpollTypeOK
<1>2. \A c \in Conns : replies[c] \in ReplyRecord
  BY <1>1
<1>3. \A c \in Conns : replies[c].whole \in Nat /\ replies[c].body \in Nat
                       /\ replies[c].torn \in BOOLEAN
  BY <1>2 DEF ReplyRecord
<1>4. \A c \in Conns : outq[c] \in Nat /\ outq[c] <= SNDBUF /\ Len(requests[c]) \in Nat
  BY <1>1
<1> QED
  BY <1>1, <1>3, <1>4

\* Steps that receive no request.
LEMMA OnlyReadsAsk ==
  ASSUME IInv, [Next]_vars
  PROVE  UNCHANGED requests \/ \E n \in Nat : ReadWhole(n)
  BY ReadsAreNatural
     DEF IInv, Core, Next, ServerNext, Others, Wait, OnAccept, Accept, AcceptFails, OnReadStep,
         OnRead, BeginRead, ReadAgain, Rearm, ReadCloses, ReadPart, ReadGets, OnWriteStep,
         WriteHead, WriteHeadFails, WriteFails, WriteBody, WriteBodyFails, WriteKills, vars,
         history

\* A request received stays in the history.
LEMMA RequestsGrow ==
  ASSUME IInv, NEW n \in Nat, ReadWhole(n), NEW c \in Conns
  PROVE  /\ AskedAhead(c) => AskedAhead(c)'
         /\ c = conn_at[cur] /\ outq[c] > 0 => AskedAhead(c)'
<1>0. requests \in [Conns -> Seq(RequestRecord)]
  BY SendTypes DEF IInv, Core
<1>1. PICK d \in Conns : d = conn_at[cur]
  BY HandlerKnows DEF IInv, ReadWhole, ReadGets
<1>2. PICK r : /\ requests' = [requests EXCEPT ![d] = Append(requests[d], r)]
               /\ r.ahead = (outq[d] > 0)
  <2> DEFINE end == used_size[cur] + n
             text == SubSeq(Filled(cur, n), 1, end - 4)
             new == [text |-> text, upto |-> taken[d] + n, ahead |-> outq[d] > 0]
  <2>1. requests' = [requests EXCEPT ![d] = Append(requests[d], new)]
    BY <1>1 DEF ReadWhole
  <2>2. new.ahead = (outq[d] > 0)
    OBVIOUS
  <2> HIDE DEF new
  <2> QED
    BY <2>1, <2>2
<1>3. /\ requests'[d] = Append(requests[d], r)
      /\ \A e \in Conns \ {d} : requests'[e] = requests[e]
  BY <1>0, <1>2
<1>4. /\ DOMAIN requests[d] \subseteq DOMAIN requests'[d]
      /\ \A k \in DOMAIN requests[d] : requests'[d][k] = requests[d][k]
      /\ Len(requests[d]) + 1 \in DOMAIN requests'[d]
      /\ requests'[d][Len(requests[d]) + 1] = r
  BY <1>0, <1>3
<1>5. AskedAhead(c) => AskedAhead(c)'
  BY <1>3, <1>4 DEF AskedAhead
<1>6. outq[d] > 0 => AskedAhead(d)'
  BY <1>2, <1>4 DEF AskedAhead
<1> QED
  BY <1>1, <1>5, <1>6

\* Whether a peer has asked ahead is not forgotten.
LEMMA AheadStays ==
  ASSUME IInv, [Next]_vars
  PROVE  \A c \in Conns : AskedAhead(c) => AskedAhead(c)'
BY OnlyReadsAsk, RequestsGrow DEF AskedAhead

\* What is in the send queue after a step.
LEMMA TypesAfter ==
  ASSUME IInv, [Next]_vars
  PROVE  /\ outq' \in [Conns -> 0 .. SNDBUF]
         /\ \A c \in Conns : outq'[c] \in Nat
<1>1. EpollServerTypeOK'
  BY TypeStep, StreamTypes DEF IInv, Buffers
<1> QED
  BY <1>1, QueueAssumption DEF EpollServerTypeOK, SockTypeOK

\* A step that sends nothing, does not leave a reply and begins to owe none
\* keeps QueueOK.
LEMMA QueueKept ==
  ASSUME IInv, QueueOK, [Next]_vars, pc # "dead", UNCHANGED replies,
         \A c \in Conns : outq'[c] <= outq[c],
         \A c \in Conns : Owes(c)' => Owes(c),
         pc = "body" => UNCHANGED <<pc, cur, conn_at>>
  PROVE  QueueOK'
<1> SUFFICES ASSUME NEW c \in Conns, Untorn(c)', Owes(c)'
             PROVE  outq'[c] <= IF Sending(c)' THEN HEAD_LEN + replies[c].body ELSE 0
  BY DEF QueueOK
<1>1. EpollServerTypeOK
  BY DEF IInv, Core
<1>2. outq'[c] \in Nat
  BY TypesAfter
<1>3. outq[c] \in Nat /\ replies[c].body \in Nat
  BY <1>1, SendTypes
<1>4. Untorn(c)
  BY AheadStays DEF Untorn
<1>5. Sending(c) => Sending(c)'
  BY DEF Sending
<1>6. outq[c] <= IF Sending(c) THEN HEAD_LEN + replies[c].body ELSE 0
  BY <1>4 DEF QueueOK
<1>7. outq'[c] <= outq[c]
  OBVIOUS
<1> QED
  BY <1>2, <1>3, <1>5, <1>6, <1>7, ReplyAssumption

\* A step that cuts no reply short and leaves the connections that were reset
\* and are owed one as they are keeps TornOK.
LEMMA TornKept ==
  ASSUME IInv, TornOK, [Next]_vars,
         \A c \in Conns : replies'[c].torn => replies[c].torn,
         \A fd \in Fds :
           conn_at[fd] \in Conns /\ interest[fd] = "OUT" /\ peer[conn_at[fd]] = "gone" =>
             /\ conn_at'[fd] = conn_at[fd] /\ interest'[fd] = "OUT"
             /\ peer'[conn_at[fd]] = "gone"
  PROVE  TornOK'
<1> SUFFICES ASSUME NEW c \in Conns, replies'[c].torn
             PROVE  AskedAhead(c)' \/ (peer'[c] = "gone" /\ Owes(c)')
  BY DEF TornOK
<1>1. AskedAhead(c) \/ (peer[c] = "gone" /\ Owes(c))
  BY DEF TornOK
<1>2. AskedAhead(c) => AskedAhead(c)'
  BY AheadStays
<1>3. CASE peer[c] = "gone" /\ Owes(c)
  <2>1. PICK fd \in Fds : conn_at[fd] = c /\ interest[fd] = "OUT"
    BY <1>3 DEF Owes
  <2>2. conn_at'[fd] = c /\ interest'[fd] = "OUT" /\ peer'[c] = "gone"
    BY <1>3, <2>1
  <2> QED
    BY <2>2 DEF Owes
<1> QED
  BY <1>1, <1>2, <1>3

\* onwrite puts the bytes of a reply behind an empty queue.
LEMMA QueueStep ==
  ASSUME IInv, QueueOK, [Next]_vars
  PROVE  QueueOK'
<1> USE ReplyAssumption
<1>1. EpollServerTypeOK
  BY DEF IInv, Core
<1>2. CASE UNCHANGED vars
  BY <1>2 DEF QueueOK, Untorn, AskedAhead, Owes, Sending, vars, sockVars, epollVars, thread,
              history
<1>3. ASSUME UNCHANGED <<replies, outq>>, pc # "dead", pc # "body",
             \A fd \in Fds : interest'[fd] = "OUT" =>
               interest[fd] = "OUT" /\ conn_at'[fd] = conn_at[fd]
      PROVE  QueueOK'
  <2>1. \A c \in Conns : Owes(c)' => Owes(c)
    BY <1>3 DEF Owes
  <2> QED
    BY <1>1, <1>3, <2>1, QueueKept, SendTypes
<1>4. CASE Others
  <2>1. \A c \in Conns : outq'[c] <= outq[c]
    <3>1. UNCHANGED outq \/ \E c \in Conns : outq' = [outq EXCEPT ![c] = 0]
      BY <1>4
         DEF Others, EnvNext, PeerConnects, Connect, PeerSends, PeerSend, PeerReads,
             PeerRead, PeerEnds, PeerLeaves
    <3>2. \A c \in Conns : outq[c] <= outq[c] /\ 0 <= outq[c]
      BY <1>1, SendTypes
    <3>3. outq \in [Conns -> 0 .. SNDBUF]
      BY <1>1, SendTypes
    <3> QED
      BY <3>1, <3>2, <3>3
  <2>2. UNCHANGED <<replies, pc, cur, conn_at, interest>> /\ pc # "dead"
    BY <1>4 DEF Others, EnvNext, PeerConnects, Connect, PeerSends, PeerSend, PeerReads,
                PeerRead, PeerEnds, PeerLeaves, thread, history
  <2>3. \A c \in Conns : Owes(c)' => Owes(c)
    BY <2>2 DEF Owes
  <2> QED
    BY <2>1, <2>2, <2>3, QueueKept
<1>5. CASE Wait \/ OnAccept
  <2>1. UNCHANGED <<replies, outq>> /\ pc = "loop"
    BY <1>5 DEF Wait, OnAccept, Accept, AcceptFails, Event, sockVars, history
  <2>2. CASE Wait \/ AcceptFails
    BY <1>3, <2>1, <2>2 DEF Wait, EpollWait, AcceptFails, sockVars, epollVars
  <2>3. CASE Accept
    <3>1. PICK c \in backlog, f \in Fds :
            /\ LowestFree(f)
            /\ conn_at' = [conn_at EXCEPT ![f] = c]
            /\ \/ Register(f, "IN", HotIn(Unread(c), peer[c]))
               \/ UNCHANGED epollVars
      BY <2>3 DEF Accept
    <3>2. interest[f] # "OUT"
      BY <1>1, <3>1, SendTypes, ConnAssumption
         DEF LowestFree, IInv, Core, Links, Registered
    <3>3. /\ \A g \in Fds \ {f} : conn_at'[g] = conn_at[g] /\ interest'[g] = interest[g]
          /\ interest'[f] # "OUT"
      BY <1>1, <3>1, <3>2, SendTypes DEF Register, epollVars
    <3> QED
      BY <1>3, <2>1, <3>3
  <2> QED
    BY <1>5, <2>2, <2>3 DEF OnAccept
<1>6. ASSUME NEW n \in Nat, ReadWhole(n) PROVE QueueOK'
  <2>1. PICK d \in Conns : d = conn_at[cur]
    BY <1>6, HandlerKnows DEF IInv, ReadWhole, ReadGets
  <2>2. /\ pc = "read" /\ pc' = "loop" /\ cur \in Fds
        /\ UNCHANGED <<conn_at, outq, replies>>
        /\ interest' = [interest EXCEPT ![cur] = "OUT"]
    BY <1>6, HandlerKnows DEF IInv, ReadWhole, ReadGets, Register
  <2> SUFFICES ASSUME NEW c \in Conns, Untorn(c)', Owes(c)' PROVE outq[c] <= 0
    BY <2>2 DEF QueueOK, Sending
  <2>3. ~ AskedAhead(c) /\ ~ (c = d /\ outq[c] > 0)
    BY <1>6, <2>1, RequestsGrow DEF Untorn
  <2>4. CASE c = d
    BY <1>1, <2>3, <2>4, SendTypes
  <2>5. CASE c # d
    <3>1. Owes(c)
      BY <1>1, <2>1, <2>2, <2>5, SendTypes DEF Owes
    <3> QED
      BY <2>2, <2>3, <3>1 DEF QueueOK, Untorn, Sending
  <2> QED
    BY <2>4, <2>5
<1>61. CASE ReadAgain \/ \E fd \in Fds : OnRead(fd)
  BY <1>3, <1>61 DEF OnRead, BeginRead, ReadAgain, Event, sockVars, epollVars, history
<1>62. ASSUME NEW n \in Nat, Rearm \/ ReadCloses \/ ReadPart(n) PROVE QueueOK'
  <2>1. /\ pc \in {"read", "again"} /\ cur \in Fds /\ UNCHANGED <<replies, outq>>
        /\ \E ev \in {"IN", "none"} : interest' = [interest EXCEPT ![cur] = ev]
        /\ UNCHANGED conn_at \/ conn_at' = [conn_at EXCEPT ![cur] = NoConn]
    BY <1>62, HandlerKnows
       DEF IInv, Rearm, ReadCloses, CloseFd, Unregister, ReadPart, ReadGets, Register,
           sockVars, history
  <2>2. interest'[cur] # "OUT"
        /\ \A g \in Fds \ {cur} : conn_at'[g] = conn_at[g] /\ interest'[g] = interest[g]
    BY <1>1, <2>1, SendTypes
  <2> QED
    BY <1>3, <2>1, <2>2
<1>7. ASSUME NEW fd \in Fds, WriteHead(fd) PROVE QueueOK'
  <2>1. PICK d \in Conns : d = conn_at[fd]
    BY <1>7, HandlerKnows DEF IInv, WriteHead
  <2>2. /\ pc = "loop" /\ pc' = "body" /\ cur' = fd /\ UNCHANGED <<conn_at, requests>>
        /\ replies' = [replies EXCEPT ![d].body = 0,
                                      ![d].torn = @ \/ Space(d) < HEAD_LEN]
        /\ outq' = [outq EXCEPT ![d] = outq[d] + Smaller(HEAD_LEN, Space(d))]
        /\ UNCHANGED interest
    BY <1>7, <2>1 DEF WriteHead, Event, Send, epollVars
  <2>3. /\ replies'[d].torn = (replies[d].torn \/ Space(d) < HEAD_LEN)
        /\ replies'[d].body = 0
        /\ \A c \in Conns \ {d} : replies'[c] = replies[c]
    BY SMTT(20), <1>1, <2>2, SendTypes DEF ReplyRecord
  <2>4. \A c \in Conns : Untorn(c) /\ Owes(c) => outq[c] <= 0
    BY <2>2 DEF QueueOK, Sending
  <2>5. outq'[d] <= outq[d] + HEAD_LEN
    <3>1. Space(d) \in Int /\ outq[d] \in Nat
      BY <1>1, SendTypes DEF Space
    <3>2. outq'[d] = outq[d] + Smaller(HEAD_LEN, Space(d))
      BY <1>1, <2>2, SendTypes
    <3>3. /\ Smaller(HEAD_LEN, Space(d)) <= HEAD_LEN
          /\ Smaller(HEAD_LEN, Space(d)) \in Int
      BY <3>1, SmallerIsBoth
    <3> QED
      BY <3>1, <3>2, <3>3
  <2>6. outq'[d] \in Nat
    BY TypesAfter
  <2> SUFFICES ASSUME NEW c \in Conns, Untorn(c)', Owes(c)'
               PROVE  outq'[c] <= IF Sending(c)' THEN HEAD_LEN + replies'[c].body ELSE 0
    BY DEF QueueOK
  <2>71. ~ replies[c].torn
    BY <1>1, <2>3, SendTypes DEF Untorn
  <2>72. Untorn(c) /\ Owes(c)
    BY <2>2, <2>71 DEF Untorn, AskedAhead, Owes
  <2>7. outq[c] <= 0 /\ outq[c] \in Nat
    BY <1>1, <2>4, <2>72, SendTypes
  <2>8. CASE c = d
    <3>1. Sending(c)'
      BY <2>1, <2>2, <2>8 DEF Sending
    <3> QED
      BY <2>3, <2>5, <2>6, <2>7, <2>8, <3>1
  <2>9. CASE c # d
    <3>1. ~ Sending(c)'
      BY <2>1, <2>2, <2>9 DEF Sending
    <3>2. outq'[c] = outq[c]
      BY <1>1, <2>2, <2>9, SendTypes
    <3> QED
      BY <2>7, <3>1, <3>2
  <2> QED
    BY <2>8, <2>9
<1>8. ASSUME NEW fd \in Fds, WriteHeadFails(fd) PROVE QueueOK'
  BY <1>3, <1>8 DEF WriteHeadFails, WriteFails, Event, epollVars
<1>9. CASE WriteBody
  <2> DEFINE written == Smaller(WRITE_SIZE, Space(conn_at[cur]))
             left == Left(written)
  <2>1. PICK d \in Conns : d = conn_at[cur]
    BY <1>9, HandlerKnows DEF IInv, WriteBody
  <2>2. /\ pc = "body" /\ UNCHANGED <<conn_at, requests, cur>>
        /\ pc' = IF left > 0 THEN "body" ELSE "loop"
        /\ replies' = [replies EXCEPT ![d].body = @ + written,
                                      ![d].whole = IF left > 0 THEN @ ELSE @ + 1]
        /\ outq' = [outq EXCEPT ![d] = outq[d] + written]
    BY <1>9, <2>1 DEF WriteBody, Send
  <2>3. written \in Int
    BY SMTT(20), <1>1, <2>1, SmallerIsBoth, SendTypes DEF Space
  <2> HIDE DEF written, left
  <2>4. /\ replies'[d].body = replies[d].body + written
        /\ replies'[d].whole = IF left > 0 THEN replies[d].whole
                                           ELSE replies[d].whole + 1
        /\ \A c \in Conns : replies'[c].torn = replies[c].torn
        /\ \A c \in Conns \ {d} : replies'[c] = replies[c]
    BY <1>1, <2>2, SendTypes DEF ReplyRecord
  <2>5. outq'[d] = outq[d] + written /\ \A c \in Conns \ {d} : outq'[c] = outq[c]
    BY <1>1, <2>2, SendTypes
  <2> SUFFICES ASSUME NEW c \in Conns, Untorn(c)', Owes(c)'
               PROVE  outq'[c] <= IF Sending(c)' THEN HEAD_LEN + replies'[c].body ELSE 0
    BY DEF QueueOK
  <2>51. /\ left > 0 => UNCHANGED interest
         /\ ~ (left > 0) => interest' = [interest EXCEPT ![cur] = "IN"]
         /\ cur \in Fds /\ interest[cur] = "OUT"
         /\ interest \in [Fds -> {"none", "IN", "OUT"}]
    BY <1>1, <1>9, <2>1, HandlerKnows, SendTypes
       DEF IInv, WriteBody, Register, epollVars, left, written
  <2>52. \A f, g \in Fds : conn_at[f] = conn_at[g] /\ conn_at[f] \in Conns => f = g
    BY StreamTypes
  <2>53. Untorn(c) /\ Owes(c)
    <3>1. Untorn(c)
      BY <2>2, <2>4 DEF Untorn, AskedAhead
    <3>2. Owes(c)
      BY <2>2, <2>51 DEF Owes
    <3> QED
      BY <3>1, <3>2
  <2>6. CASE c = d
    <3>1. left > 0
      <4> SUFFICES ASSUME ~ (left > 0) PROVE FALSE
        OBVIOUS
      <4>1. PICK f \in Fds : conn_at[f] = c /\ interest'[f] = "OUT"
        BY <2>2 DEF Owes
      <4>2. f = cur
        BY <2>1, <2>6, <2>51, <2>52, <4>1
      <4> QED
        BY <2>51, <4>1, <4>2
    <3>2. Untorn(c) /\ Sending(c) /\ Sending(c)'
      BY <2>1, <2>2, <2>6, <2>53, <3>1 DEF Sending
    <3>3. outq[c] <= HEAD_LEN + replies[c].body
      BY <2>2, <2>53, <3>2 DEF QueueOK
    <3> QED
      BY <1>1, <2>3, <2>4, <2>5, <2>6, <3>2, <3>3, SendTypes
  <2>7. CASE c # d
    <3>1. ~ Sending(c) /\ ~ Sending(c)'
      BY <2>1, <2>2, <2>7 DEF Sending
    <3> QED
      BY <2>2, <2>5, <2>7, <2>53, <3>1 DEF QueueOK
  <2> QED
    BY <2>6, <2>7
<1>10. CASE WriteBodyFails
  <2>1. PICK d \in Conns : d = conn_at[cur]
    BY <1>10, HandlerKnows DEF IInv, WriteBodyFails
  <2>2. /\ pc = "body" /\ pc' = "loop" /\ UNCHANGED <<outq, requests, conn_at, interest>>
        /\ replies' = [replies EXCEPT ![d].torn = TRUE]
    BY <1>10, <2>1 DEF WriteBodyFails, WriteFails, epollVars
  <2>3. replies'[d].torn /\ \A c \in Conns \ {d} : replies'[c] = replies[c]
    BY <1>1, <2>2, SendTypes DEF ReplyRecord
  <2> SUFFICES ASSUME NEW c \in Conns, Untorn(c)', Owes(c)' PROVE outq[c] <= 0
    BY <2>2 DEF QueueOK, Sending
  <2>4. c # d
    BY <2>3 DEF Untorn
  <2>5. Untorn(c) /\ Owes(c) /\ ~ Sending(c)
    BY <2>1, <2>2, <2>3, <2>4 DEF Untorn, AskedAhead, Owes, Sending
  <2> QED
    BY <2>2, <2>5 DEF QueueOK
<1>11. CASE WriteKills
  BY <1>11 DEF WriteKills, QueueOK
<1>12. CASE OnReadStep
  BY <1>6, <1>61, <1>62, <1>12, ReadsAreNatural DEF IInv, Core
<1> QED
  BY <1>2, <1>4, <1>5, <1>7, <1>8, <1>9, <1>10, <1>11, <1>12
     DEF Next, ServerNext, OnWriteStep

\* A write of a reply is refused for lack of room only when the peer has asked
\* ahead, or has had a reply cut short before.
LEMMA RefusedOnlyWhenFull ==
  ASSUME IInv, QueueOK, SNDBUF >= HEAD_LEN + REPLY_LEN, pc = "body",
         NEW c \in Conns, c = conn_at[cur], Space(c) = 0, ~ replies[c].torn
  PROVE  AskedAhead(c)
<1> SUFFICES ASSUME ~ AskedAhead(c) PROVE FALSE
  OBVIOUS
<1>1. EpollServerTypeOK
  BY DEF IInv, Core
<1>2. Owes(c)
  BY HandlerKnows DEF IInv, Owes
<1>3. outq[c] <= HEAD_LEN + replies[c].body
  BY <1>2 DEF QueueOK, Untorn, Sending
<1>4. replies[c].body = REPLY_LEN - left_len /\ left_len > 0
  BY DEF IInv, Core, Bodies
<1> QED
  BY SMTT(20), <1>1, <1>3, <1>4, SendTypes, ReplyAssumption DEF Space

\* Nor is its head cut short otherwise.
LEMMA HeadFits ==
  ASSUME IInv, QueueOK, SNDBUF >= HEAD_LEN + REPLY_LEN, pc = "loop",
         NEW c \in Conns, Owes(c), Space(c) < HEAD_LEN, ~ replies[c].torn
  PROVE  AskedAhead(c)
<1> SUFFICES ASSUME ~ AskedAhead(c) PROVE FALSE
  OBVIOUS
<1>1. outq[c] <= 0
  BY DEF QueueOK, Untorn, Sending
<1> QED
  BY SMTT(20), <1>1, SendTypes, ReplyAssumption DEF IInv, Core, Space

\* Every step keeps TornOK.
LEMMA TornStep ==
  ASSUME IInv, QueueOK, TornOK, SNDBUF >= HEAD_LEN + REPLY_LEN, [Next]_vars
  PROVE  TornOK'
<1>1. EpollServerTypeOK
  BY DEF IInv, Core
<1>2. ASSUME UNCHANGED <<conn_at, interest, peer>>,
             \A c \in Conns : replies'[c].torn => replies[c].torn
      PROVE  TornOK'
  BY <1>2, TornKept
\* A step at one descriptor that waits for EPOLLIN, or for nothing.
<1>3. ASSUME NEW f \in Fds, interest[f] # "OUT", UNCHANGED replies,
             \A g \in Fds \ {f} : conn_at'[g] = conn_at[g] /\ interest'[g] = interest[g],
             \A g \in Fds \ {f} : conn_at[g] \in Conns => peer'[conn_at[g]] = peer[conn_at[g]]
      PROVE  TornOK'
  BY <1>3, TornKept
<1>4. CASE Others
  <2>1. UNCHANGED <<conn_at, interest, replies>>
    BY <1>4 DEF Others, EnvNext, PeerConnects, Connect, PeerSends, PeerSend, PeerReads,
                PeerRead, PeerEnds, PeerLeaves, history
  <2>2. \A c \in Conns : peer[c] = "gone" => peer'[c] = "gone"
    BY <1>1, <1>4, SendTypes
       DEF Others, EnvNext, PeerConnects, Connect, PeerSends, PeerSend, PeerReads,
           PeerRead, PeerEnds, PeerLeaves
  <2> QED
    BY <2>1, <2>2, TornKept
<1>5. CASE Wait \/ AcceptFails \/ WriteKills \/ UNCHANGED vars
  BY <1>2, <1>5 DEF Wait, EpollWait, AcceptFails, WriteKills, vars, sockVars, epollVars,
                    history
<1>6. CASE Accept
  <2>1. PICK c \in backlog, f \in Fds :
          /\ LowestFree(f)
          /\ conn_at' = [conn_at EXCEPT ![f] = c]
          /\ \/ Register(f, "IN", HotIn(Unread(c), peer[c]))
             \/ UNCHANGED epollVars
    BY <1>6 DEF Accept
  <2>2. interest[f] = "none"
    BY <1>1, <2>1, SendTypes, ConnAssumption DEF LowestFree, IInv, Core, Links, Registered
  <2>3. \A g \in Fds \ {f} : conn_at'[g] = conn_at[g] /\ interest'[g] = interest[g]
    BY <1>1, <2>1, SendTypes DEF Register, epollVars
  <2> QED
    BY <1>3, <1>6, <2>2, <2>3 DEF Accept, history
<1>7. ASSUME NEW fd \in Fds, OnRead(fd) PROVE TornOK'
  BY <1>2, <1>7 DEF OnRead, BeginRead, sockVars, epollVars, history
<1>71. CASE ReadAgain
  BY <1>2, <1>71 DEF ReadAgain, sockVars, epollVars, history
<1>8. ASSUME NEW n \in Nat, Rearm \/ ReadPart(n) \/ ReadWhole(n) PROVE TornOK'
  <2>1. /\ cur \in Fds /\ interest[cur] = "IN" /\ UNCHANGED <<conn_at, replies, peer>>
        /\ \E ev : interest' = [interest EXCEPT ![cur] = ev]
    BY <1>8, HandlerKnows
       DEF IInv, Rearm, ReadPart, ReadWhole, ReadGets, Register, sockVars, history
  <2> QED
    BY <1>1, <1>3, <2>1, SendTypes
<1>9. CASE ReadCloses
  <2>1. /\ cur \in Fds /\ interest[cur] = "IN" /\ UNCHANGED replies
        /\ conn_at' = [conn_at EXCEPT ![cur] = NoConn]
        /\ peer' = [peer EXCEPT ![conn_at[cur]] = "over"]
        /\ interest' = [interest EXCEPT ![cur] = "none"]
    BY <1>9, HandlerKnows DEF IInv, ReadCloses, CloseFd, Unregister, history
  <2>2. \A g \in Fds \ {cur} : conn_at[g] \in Conns => conn_at[g] # conn_at[cur]
    BY <2>1 DEF IInv, Core, Links
  <2> QED
    BY <1>1, <1>3, <2>1, <2>2, SendTypes
<1>10. ASSUME NEW fd \in Fds, WriteHead(fd) PROVE TornOK'
  <2>1. PICK d \in Conns : d = conn_at[fd] /\ interest[fd] = "OUT"
    BY <1>10, HandlerKnows DEF IInv, WriteHead
  <2>2. /\ pc = "loop" /\ UNCHANGED <<conn_at, interest, peer, requests>>
        /\ replies' = [replies EXCEPT ![d].body = 0,
                                      ![d].torn = @ \/ Space(d) < HEAD_LEN]
    BY <1>10, <2>1 DEF WriteHead, Event, epollVars
  <2>3. /\ replies'[d].torn => replies[d].torn \/ Space(d) < HEAD_LEN
        /\ \A c \in Conns \ {d} : replies'[c] = replies[c]
    BY SMTT(20), <1>1, <2>2, SendTypes DEF ReplyRecord
  <2>4. CASE Space(d) < HEAD_LEN /\ ~ replies[d].torn
    <3>1. AskedAhead(d)
      BY <2>1, <2>2, <2>4, HeadFits DEF Owes
    <3> QED
      BY <2>2, <2>3, <3>1 DEF TornOK, AskedAhead, Owes
  <2>5. CASE ~ (Space(d) < HEAD_LEN /\ ~ replies[d].torn)
    BY <1>2, <2>2, <2>3, <2>5
  <2> QED
    BY <2>4, <2>5
<1>11. ASSUME NEW c \in Conns, peer' = ErrorReported(c),
              UNCHANGED <<conn_at, interest>>,
              \A d \in Conns : replies'[d].torn => replies[d].torn
       PROVE  TornOK'
  <2>1. \A d \in Conns : peer[d] = "gone" => peer'[d] = "gone"
    BY <1>1, <1>11, SendTypes DEF ErrorReported
  <2> QED
    BY <1>11, <2>1, TornKept
<1>12. ASSUME NEW fd \in Fds, WriteHeadFails(fd) PROVE TornOK'
  <2>1. PICK c \in Conns : c = conn_at[fd]
    BY <1>12, HandlerKnows DEF IInv, WriteHeadFails
  <2> QED
    BY <1>11, <1>12, <2>1 DEF WriteHeadFails, WriteFails, epollVars
<1>13. CASE WriteBody
  <2>1. PICK d \in Conns : /\ d = conn_at[cur] /\ cur \in Fds
                           /\ UNCHANGED <<conn_at, peer>>
                           /\ peer[d] # "gone"
                           /\ \A g \in Fds \ {cur} : interest'[g] = interest[g]
    BY <1>1, <1>13, HandlerKnows, SendTypes
       DEF IInv, WriteBody, SendAccepts, Register, epollVars
  <2>2. \A c \in Conns : replies'[c].torn = replies[c].torn
    BY <1>1, <1>13, SendTypes DEF WriteBody, ReplyRecord
  <2> QED
    BY <2>1, <2>2, TornKept
<1>14. CASE WriteBodyFails
  <2>1. PICK d \in Conns : d = conn_at[cur] /\ cur \in Fds /\ interest[cur] = "OUT"
    BY <1>14, HandlerKnows DEF IInv, WriteBodyFails
  <2>2. /\ pc = "body" /\ SendFails(d) /\ peer' = ErrorReported(d)
        /\ UNCHANGED <<conn_at, interest, requests>>
        /\ replies' = [replies EXCEPT ![d].torn = TRUE]
    BY <1>14, <2>1 DEF WriteBodyFails, WriteFails, epollVars
  <2>3. \A c \in Conns \ {d} : replies'[c] = replies[c]
    BY <1>1, <2>2, SendTypes
  <2>4. \A c \in Conns : peer[c] = "gone" => peer'[c] = "gone"
    BY <1>1, <2>2, SendTypes DEF ErrorReported
  <2>5. \A c \in Conns : Owes(c)' <=> Owes(c)
    BY <2>2 DEF Owes
  <2>51. \A c \in Conns : AskedAhead(c)' <=> AskedAhead(c)
    BY <2>2 DEF AskedAhead
  <2>6. AskedAhead(d)' \/ (peer'[d] = "gone" /\ Owes(d)')
    <3>1. CASE peer[d] = "reset"
      BY <1>1, <2>1, <2>2, <2>5, <3>1, SendTypes DEF ErrorReported, Owes
    <3>2. CASE Space(d) = 0 /\ ~ replies[d].torn
      BY <2>1, <2>2, <2>51, <3>2, RefusedOnlyWhenFull
    <3>3. CASE replies[d].torn
      BY <2>4, <2>5, <2>51, <3>3 DEF TornOK
    <3> QED
      BY <2>2, <3>1, <3>2, <3>3 DEF SendFails
  <2> QED
    BY <2>3, <2>4, <2>5, <2>51, <2>6 DEF TornOK
<1> QED
  BY <1>1, <1>4, <1>5, <1>6, <1>7, <1>71, <1>8, <1>9, <1>10, <1>12, <1>13, <1>14,
     ReadsAreNatural
     DEF IInv, Core, Next, ServerNext, OnAccept, OnReadStep, OnWriteStep

\* At first nothing has been sent.
LEMMA InitTorn == Init => QueueOK /\ TornOK
  BY DEF Init, SockInit, QueueOK, TornOK, Untorn, Sending

(***************************************************************************)
(* However many requests a connection carries, a reply is cut short, and   *)
(* begun again, only after its peer asked without having read all it was   *)
(* sent, or was reset, when the send queue has room for one reply (the     *)
(* kernel's smallest is several kilobytes, the reply a few dozen bytes).   *)
(***************************************************************************)
THEOREM TornOnPipelinesOnly ==
  ASSUME SNDBUF >= HEAD_LEN + REPLY_LEN
  PROVE  Spec => []TornOnlyWhenPipelined
<1>1. IInv /\ QueueOK /\ TornOK /\ [Next]_vars => QueueOK' /\ TornOK'
  BY QueueStep, TornStep
<1>2. TornOK => TornOnlyWhenPipelined
  BY DEF TornOK, TornOnlyWhenPipelined
<1> QED
  BY InitTorn, <1>1, <1>2, Invariance, PTL DEF Spec

-----------------------------------------------------------------------------
(***************************************************************************)
(* The refinement.  The mapping takes the phase of a connection from its   *)
(* descriptor.  It needs Links to see that there is one descriptor at      *)
(* most, and Dispatch to see what a descriptor that is read or written is  *)
(* registered for.  First, what the mapped state depends on.               *)
(***************************************************************************)

\* What the phase of a connection with a descriptor is.
WatchPhase(ev) == CASE ev = "IN" -> "reading"
                    [] ev = "OUT" -> "owing"
                    [] OTHER -> "unwatched"

\* An accepted connection that is not over is in the phase its descriptor is
\* registered for.
LEMMA PhaseOfWatched ==
  Links => \A fd \in Fds : conn_at[fd] \in Conns =>
             Phase(conn_at[fd]) = WatchPhase(interest[fd])
<1> SUFFICES ASSUME Links, NEW fd \in Fds, conn_at[fd] \in Conns
             PROVE  Phase(conn_at[fd]) = WatchPhase(interest[fd])
  OBVIOUS
<1>1. peer[conn_at[fd]] # "over"
  BY DEF Links
<1>2. \A f \in Fds : conn_at[f] = conn_at[fd] => f = fd
  BY DEF Links
<1>3. CASE interest[fd] = "IN"
  BY <1>1, <1>3 DEF Phase, WatchPhase
<1>4. CASE interest[fd] = "OUT"
  BY <1>1, <1>2, <1>4 DEF Phase, WatchPhase
<1>5. CASE interest[fd] \notin {"IN", "OUT"}
  BY <1>1, <1>2, <1>5 DEF Phase, WatchPhase
<1> QED
  BY <1>3, <1>4, <1>5

\* The same after a step.
LEMMA PhaseOfWatchedNext ==
  Links' => (\A fd \in Fds : conn_at[fd] \in Conns =>
               Phase(conn_at[fd]) = WatchPhase(interest[fd]))'
BY PhaseOfWatched, PTL

\* A connection without a descriptor is absent until it is over.
LEMMA PhaseOfOthers ==
  ASSUME NEW c \in Conns, \A fd \in Fds : conn_at[fd] # c
  PROVE  Phase(c) = IF peer[c] = "over" THEN "closed" ELSE "absent"
BY DEF Phase

\* A step keeps the phase of a connection if it keeps its descriptor, what
\* that one is registered for, and whether the connection is over.
LEMMA PhaseKept ==
  ASSUME NEW c \in Conns, peer'[c] = "over" <=> peer[c] = "over",
         \A fd \in Fds : conn_at'[fd] = c <=> conn_at[fd] = c,
         \A fd \in Fds : conn_at[fd] = c => interest'[fd] = interest[fd]
  PROVE  Phase(c)' = Phase(c)
<1> DEFINE at(ev) == \E fd \in Fds : conn_at[fd] = c /\ interest[fd] = ev
           held == \E fd \in Fds : conn_at[fd] = c
<1>1. at("IN")' = at("IN") /\ at("OUT")' = at("OUT") /\ held' = held
  OBVIOUS
<1> QED
  BY <1>1 DEF Phase

\* A step that keeps registrations, requests and replies is no step of the
\* protocol.
LEMMA NoProtocolStep ==
  ASSUME UNCHANGED <<conn_at, interest, requests>>,
         \A c \in Conns : peer'[c] = "over" <=> peer[c] = "over",
         \A c \in Conns : replies'[c].whole = replies[c].whole
  PROVE  UNCHANGED RR!rrVars
<1>1. \A c \in Conns : Phase(c)' = Phase(c)
  BY PhaseKept
<1> QED
  BY <1>1 DEF RR!rrVars

\* A step that moves one connection from a phase to another.
LEMMA OneMoves ==
  ASSUME NEW d \in Conns, NEW from, NEW to, Phase(d) = from, Phase(d)' = to,
         \A c \in Conns \ {d} : Phase(c)' = Phase(c)
  PROVE  RR!Move(d, from, to)
BY DEF RR!Move

\* A step that changes neither the registration of a descriptor other than f
\* nor another connection keeps the phase of all other connections.
LEMMA OthersKept ==
  ASSUME NEW f \in Fds, NEW d \in Conns, NEW c \in Conns \ {d},
         conn_at[f] \in {d, NoConn}, conn_at'[f] \in {d, NoConn},
         \A g \in Fds \ {f} : conn_at'[g] = conn_at[g] /\ interest'[g] = interest[g],
         peer'[c] = peer[c]
  PROVE  Phase(c)' = Phase(c)
BY PhaseKept, ConnAssumption

-----------------------------------------------------------------------------
(***************************************************************************)
(* The steps that are steps of the protocol.                               *)
(***************************************************************************)

\* onaccept admits a connection, watched or not.
LEMMA AcceptAdmits ==
  ASSUME Core, Links', Accept
  PROVE  \E c \in Conns : RR!Admit(c)
<1>1. PICK c \in backlog, fd \in Fds :
        /\ LowestFree(fd)
        /\ conn_at' = [conn_at EXCEPT ![fd] = c]
        /\ \/ interest' = [interest EXCEPT ![fd] = "IN"]
           \/ UNCHANGED interest
  BY DEF Accept, Register, epollVars
<1>2. /\ c \in Conns /\ conn_at[fd] = NoConn /\ interest[fd] = "none"
      /\ conn_at \in [Fds -> Conns \cup {NoConn}]
      /\ interest \in [Fds -> {"none", "IN", "OUT"}]
  BY <1>1, ConnAssumption
     DEF Core, EpollServerTypeOK, SockTypeOK, EpollTypeOK, LowestFree, Links, Registered
<1>3. UNCHANGED <<peer, requests, replies>>
  BY DEF Accept, history
<1>4. Phase(c) = "absent"
  BY <1>1, <1>2, PhaseOfOthers DEF Core, Links
<1>5. conn_at'[fd] = c /\ interest'[fd] \in {"IN", "none"}
  BY <1>1, <1>2
<1>6. Phase(c)' \in {"reading", "unwatched"}
  <2>1. Phase(c)' = WatchPhase(interest'[fd])
    BY <1>2, <1>5, PhaseOfWatchedNext
  <2> QED
    BY <1>5, <2>1 DEF WatchPhase
<1>7. \A d \in Conns \ {c} : Phase(d)' = Phase(d)
  BY <1>1, <1>2, <1>3, <1>5, OthersKept
<1>8. RR!Move(c, "absent", "reading") \/ RR!Move(c, "absent", "unwatched")
  BY <1>2, <1>4, <1>6, <1>7, OneMoves
<1> QED
  BY <1>2, <1>3, <1>8 DEF RR!Admit

\* A step of a handler that registers its descriptor anew moves at most the
\* connection behind it.
LEMMA Reregistered ==
  ASSUME Core, Links', NEW fd \in Fds, conn_at[fd] \in Conns,
         NEW ev \in {"IN", "OUT"}, NEW hot, Register(fd, ev, hot),
         UNCHANGED <<conn_at, peer>>
  PROVE  /\ Phase(conn_at[fd])' = WatchPhase(ev)
         /\ \A c \in Conns \ {conn_at[fd]} : Phase(c)' = Phase(c)
<1>1. /\ conn_at \in [Fds -> Conns \cup {NoConn}]
      /\ interest' = [interest EXCEPT ![fd] = ev]
      /\ interest \in [Fds -> {"none", "IN", "OUT"}]
  BY DEF Register, Core, EpollServerTypeOK, SockTypeOK, EpollTypeOK
<1>2. \A g \in Fds \ {fd} : conn_at'[g] = conn_at[g] /\ interest'[g] = interest[g]
  BY <1>1
<1>3. \A c \in Conns \ {conn_at[fd]} : Phase(c)' = Phase(c)
  BY <1>2, OthersKept
<1>4. Phase(conn_at[fd])' = WatchPhase(ev)
  BY <1>1, PhaseOfWatchedNext
<1> QED
  BY <1>3, <1>4

\* What a handler reads it takes from a connection in the phase "reading",
\* what it writes it gives to one in the phase "owing".
LEMMA PhaseHandled ==
  ASSUME Core
  PROVE  /\ pc = "read" => Phase(conn_at[cur]) = "reading"
         /\ pc = "body" => Phase(conn_at[cur]) = "owing"
BY HandlerKnows, PhaseOfWatched DEF Core, WatchPhase

\* onread closes a connection on which nothing is owed.
LEMMA ReadClosesCloses ==
  ASSUME Core, ReadCloses, NEW d \in Conns, d = conn_at[cur]
  PROVE  RR!Close(d)
<1>1. /\ cur \in Fds
      /\ conn_at \in [Fds -> Conns \cup {NoConn}]
      /\ interest \in [Fds -> {"none", "IN", "OUT"}] /\ peer \in [Conns -> PeerStates]
  BY HandlerKnows DEF ReadCloses, Core, EpollServerTypeOK, SockTypeOK, EpollTypeOK
<1>2. /\ conn_at' = [conn_at EXCEPT ![cur] = NoConn]
      /\ interest' = [interest EXCEPT ![cur] = "none"]
      /\ peer' = [peer EXCEPT ![d] = "over"]
      /\ UNCHANGED <<requests, replies>>
  BY DEF ReadCloses, CloseFd, Unregister, history
<1>3. Phase(d) = "reading"
  BY PhaseHandled DEF ReadCloses
<1>4. Phase(d)' = "closed"
  BY <1>1, <1>2 DEF Phase
<1>5. \A c \in Conns \ {d} : Phase(c)' = Phase(c)
  BY <1>1, <1>2, OthersKept
<1>6. RR!Move(d, "reading", "closed")
  BY <1>1, <1>3, <1>4, <1>5, OneMoves
<1> QED
  BY <1>2, <1>6 DEF RR!Close

\* A request complete is one request more asked.
LEMMA ReadWholeAsks ==
  ASSUME Core, Links', NEW n \in Nat, ReadWhole(n), NEW d \in Conns, d = conn_at[cur]
  PROVE  RR!Ask(d)
<1>1. /\ cur \in Fds /\ UNCHANGED <<conn_at, peer, replies>>
      /\ requests \in [Conns -> Seq(RequestRecord)]
  BY HandlerKnows DEF ReadWhole, ReadGets, Core, EpollServerTypeOK
<1>2. RR!Move(d, "reading", "owing")
  <2>1. Phase(d) = "reading"
    BY PhaseHandled DEF ReadWhole, ReadGets
  <2>2. Phase(d)' = "owing" /\ \A c \in Conns \ {d} : Phase(c)' = Phase(c)
    BY <1>1, Reregistered DEF ReadWhole, WatchPhase
  <2> QED
    BY <1>1, <2>1, <2>2, OneMoves
<1>3. \E r : requests' = [requests EXCEPT ![d] = Append(requests[d], r)]
  BY DEF ReadWhole
<1>4. Len(requests'[d]) = Len(requests[d]) + 1
      /\ \A c \in Conns \ {d} : requests'[c] = requests[c]
  <2>1. PICK r : requests' = [requests EXCEPT ![d] = Append(requests[d], r)]
    BY <1>3
  <2>2. requests[d] \in Seq(RequestRecord)
    BY <1>1
  <2>3. Len(Append(requests[d], r)) = Len(requests[d]) + 1
    BY <2>2
  <2> QED
    BY <1>1, <2>1, <2>3
<1> QED
  BY <1>1, <1>2, <1>4 DEF RR!Ask

\* The write that ends a reply is one answer more.
LEMMA WriteBodyAnswers ==
  ASSUME Core, Links', WriteBody, pc' = "loop", NEW d \in Conns, d = conn_at[cur]
  PROVE  RR!Answer(d)
<1> DEFINE written == Smaller(WRITE_SIZE, Space(d))
           left == Left(written)
<1>1. /\ cur \in Fds /\ UNCHANGED <<conn_at, peer, requests>>
      /\ replies \in [Conns -> ReplyRecord]
  BY HandlerKnows DEF WriteBody, Core, EpollServerTypeOK
<1>2. ~ (left > 0)
  BY DEF WriteBody
<1>3. RR!Move(d, "owing", "reading")
  <2>1. Phase(d) = "owing"
    BY PhaseHandled DEF WriteBody
  <2>2. Phase(d)' = "reading" /\ \A c \in Conns \ {d} : Phase(c)' = Phase(c)
    BY <1>1, <1>2, Reregistered DEF WriteBody, WatchPhase
  <2> QED
    BY <1>1, <2>1, <2>2, OneMoves
<1>4. replies' = [replies EXCEPT ![d].body = @ + written,
                                 ![d].whole = IF left > 0 THEN @ ELSE @ + 1]
  BY DEF WriteBody
<1> HIDE DEF left, written
<1>5. /\ replies'[d].whole = replies[d].whole + 1
      /\ \A c \in Conns \ {d} : replies'[c] = replies[c]
  BY <1>1, <1>2, <1>4 DEF ReplyRecord
<1> QED
  BY <1>1, <1>3, <1>5 DEF RR!Answer

-----------------------------------------------------------------------------
(***************************************************************************)
(* Init and every step.                                                    *)
(***************************************************************************)
LEMMA InitRefines == Init => RR!RRInit
<1> SUFFICES ASSUME Init PROVE RR!RRInit
  OBVIOUS
<1>1. \A c \in Conns : Phase(c) = "absent"
  BY ConnAssumption, PhaseOfOthers DEF Init, SockInit
<1>2. \A c \in Conns : Len(requests[c]) = 0 /\ replies[c].whole = 0
  BY DEF Init
<1> QED
  BY <1>1, <1>2 DEF RR!RRInit

\* Every step is one of the protocol, or leaves it where it is.
LEMMA StepRefines ==
  ASSUME Core, Links', [Next]_vars
  PROVE  [RR!RRNext]_(RR!rrVars)
<1> SUFFICES (\E c \in Conns : RR!Admit(c) \/ RR!Ask(c) \/ RR!Answer(c) \/ RR!Close(c))
             \/ UNCHANGED RR!rrVars
  BY DEF RR!RRNext
<1>1. /\ interest \in [Fds -> {"none", "IN", "OUT"}] /\ peer \in [Conns -> PeerStates]
      /\ replies \in [Conns -> ReplyRecord]
  BY DEF Core, EpollServerTypeOK, SockTypeOK, EpollTypeOK
<1>2. CASE Others
  <2>1. PICK c \in Conns : PeerConnects(c) \/ PeerSends(c) \/ PeerReads(c) \/ PeerEnds(c)
    BY <1>2 DEF Others, EnvNext
  <2>2. \A d \in Conns : peer'[d] = "over" <=> peer[d] = "over"
    BY <1>1, <2>1 DEF PeerConnects, Connect, PeerSends, PeerSend, PeerReads, PeerRead,
                      PeerEnds, PeerLeaves
  <2>3. UNCHANGED <<conn_at, interest, requests, replies>>
    BY <1>2, <2>1 DEF Others, history, PeerConnects, Connect, PeerSends, PeerSend,
                      PeerReads, PeerRead, PeerEnds, PeerLeaves
  <2> QED
    BY <2>2, <2>3, NoProtocolStep
<1>3. CASE Wait \/ AcceptFails \/ WriteKills \/ \E fd \in Fds : OnRead(fd)
  BY <1>3, NoProtocolStep
     DEF Wait, EpollWait, AcceptFails, WriteKills, OnRead, BeginRead, sockVars, epollVars,
         history
<1>4. CASE Accept
  BY <1>4, AcceptAdmits
<1>51. CASE ReadAgain
  BY <1>51, NoProtocolStep DEF ReadAgain, sockVars, epollVars, history
<1>5. CASE Rearm
  <2>1. cur \in Fds /\ interest[cur] = "IN" /\ UNCHANGED <<sockVars, requests, replies>>
    BY <1>5, HandlerKnows DEF Rearm, history
  <2>2. UNCHANGED interest
    BY <1>1, <1>5, <2>1 DEF Rearm, Register
  <2> QED
    BY <2>1, <2>2, NoProtocolStep DEF sockVars
<1>6. CASE ReadCloses
  BY <1>6, HandlerKnows, ReadClosesCloses DEF ReadCloses
<1>7. ASSUME NEW n \in Nat, ReadPart(n) PROVE UNCHANGED RR!rrVars
  <2>1. /\ cur \in Fds /\ interest[cur] = "IN"
        /\ UNCHANGED <<conn_at, peer, requests, replies>>
    BY <1>7, HandlerKnows DEF ReadPart, ReadGets
  <2>2. UNCHANGED interest
    BY <1>1, <1>7, <2>1 DEF ReadPart, Register
  <2> QED
    BY <2>1, <2>2, NoProtocolStep
<1>8. ASSUME NEW n \in Nat, ReadWhole(n) PROVE \E c \in Conns : RR!Ask(c)
  BY <1>8, HandlerKnows, ReadWholeAsks DEF ReadWhole, ReadGets
<1>9. ASSUME NEW fd \in Fds, WriteHead(fd) PROVE UNCHANGED RR!rrVars
  <2>1. \A c \in Conns : replies'[c].whole = replies[c].whole
    BY <1>1, <1>9 DEF WriteHead, ReplyRecord
  <2> QED
    BY <1>9, <2>1, NoProtocolStep DEF WriteHead, epollVars
<1>10. ASSUME NEW fd, conn_at[fd] \in Conns, peer' = ErrorReported(conn_at[fd]),
              UNCHANGED <<conn_at, interest, requests>>,
              \A c \in Conns : replies'[c].whole = replies[c].whole
       PROVE  UNCHANGED RR!rrVars
  BY <1>1, <1>10, NoProtocolStep DEF ErrorReported
<1>11. ASSUME NEW fd \in Fds, WriteHeadFails(fd) PROVE UNCHANGED RR!rrVars
  BY <1>10, <1>11, HandlerKnows DEF WriteHeadFails, WriteFails, epollVars
<1>12. CASE WriteBody
  <2>1. CASE pc' = "loop"
    BY <1>12, <2>1, HandlerKnows, WriteBodyAnswers DEF WriteBody
  <2>2. CASE pc' # "loop"
    <3> DEFINE d == conn_at[cur]
               left == Left(Smaller(WRITE_SIZE, Space(d)))
    <3>1. left > 0 /\ UNCHANGED <<conn_at, interest, peer, requests>>
      BY <1>12, <2>2 DEF WriteBody, epollVars
    <3>2. \A c \in Conns : replies'[c].whole = replies[c].whole
      BY <1>1, <1>12, <3>1, HandlerKnows DEF WriteBody, ReplyRecord
    <3> QED
      BY <3>1, <3>2, NoProtocolStep
  <2> QED
    BY <2>1, <2>2
<1>13. CASE WriteBodyFails
  <2>1. \A c \in Conns : replies'[c].whole = replies[c].whole
    BY <1>1, <1>13, HandlerKnows DEF WriteBodyFails, ReplyRecord
  <2> QED
    BY <1>10, <1>13, <2>1, HandlerKnows DEF WriteBodyFails, WriteFails, epollVars
<1>14. CASE UNCHANGED vars
  BY <1>14, NoProtocolStep DEF vars, sockVars, epollVars, history
<1> QED
  BY <1>2, <1>3, <1>4, <1>5, <1>51, <1>6, <1>7, <1>8, <1>9, <1>11, <1>12, <1>13, <1>14,
     ReadsAreNatural DEF Core, Next, ServerNext, OnAccept, OnReadStep, OnWriteStep

(***************************************************************************)
(* The epoll server keeps the protocol of RequestReply on every connection *)
(* whatever the others do: it admits it once, takes one request at a time, *)
(* answers it once before the next one, and closes it only with nothing    *)
(* owed.                                                                   *)
(***************************************************************************)
THEOREM Refinement == Spec => ImplementsRequestReply
<1>1. IInv /\ IInv' /\ [Next]_vars => [RR!RRNext]_(RR!rrVars)
  BY StepRefines DEF IInv, Core
<1> QED
  BY <1>1, InitRefines, Invariance, PTL DEF Spec, ImplementsRequestReply, RR!RRSpec

=============================================================================
