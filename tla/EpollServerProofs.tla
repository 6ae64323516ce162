-------------------------- MODULE EpollServerProofs --------------------------
(***************************************************************************)
(* Proofs about EpollServer, for any number of connections and             *)
(* descriptors and any streams, buffer sizes and faults.                   *)
(*                                                                         *)
(* The properties are proved from one inductive invariant.  Its parts say  *)
(* how descriptors, connections and the list of waiting connections hang   *)
(* together (Links), what the thread knows of the descriptors it is about  *)
(* to handle (Dispatch), what the tables and the heap say of the buffers   *)
(* (Buffers), what is owed on a connection (Owed), and how much of         *)
(* the reply being written has gone out (Bodies).                          *)
(***************************************************************************)
EXTENDS EpollServer, TLAPS, FiniteSetTheorems, SequenceTheorems

Links ==
  /\ \A fd \in Fds : Registered(fd) => conn_at[fd] \in Conns
  /\ \A fd \in Fds : conn_at[fd] \in Conns =>
       conn_at[fd] \notin backlog /\ peer[conn_at[fd]] \notin {"none", "over"}
  /\ \A f, g \in Fds : conn_at[f] = conn_at[g] /\ conn_at[f] \in Conns => f = g
  /\ \A c \in backlog : peer[c] \notin {"none", "over"}

Dispatch ==
  /\ \A e \in events : e.fd = ListenFd => e.ev = "IN"
  /\ pc \in {"read", "again", "body"} => cur \in Fds
  /\ EventsFresh
  /\ AcceptNeverBlocks

Owed ==
  \A c \in Conns :
    Len(requests[c]) - replies[c].whole = IF Owes(c) THEN 1 ELSE 0

Bodies ==
  /\ BodyCoversReply
  /\ pc = "body" =>
       left_len > 0 /\ replies[conn_at[cur]].body = REPLY_LEN - left_len

\* The part of the invariant that holds of the earlier server as well.
Core == EpollServerTypeOK /\ Links /\ Dispatch

\* heap counts at least the buffers in the table, so that a delete leaves it
\* a natural number.
Buffers == BufferBounds /\ Cardinality(Live) <= heap

IInv == Core /\ Buffers /\ NoLostWakeup /\ Owed /\ Bodies

-----------------------------------------------------------------------------
(***************************************************************************)
(* What the handlers compute: sizes, and buffers of bytes.                 *)
(***************************************************************************)
LEMMA SmallerIsBoth ==
  ASSUME NEW a \in Int, NEW b \in Int
  PROVE  /\ Smaller(a, b) \in {a, b}
         /\ Smaller(a, b) <= a /\ Smaller(a, b) <= b
  BY DEF Smaller

\* The size adjust_buf leaves and the room read is given are within bounds.
LEMMA SizesInRead ==
  ASSUME EpollServerTypeOK, Dispatch, BuffersSized, pc = "read"
  PROVE  /\ cur \in Fds /\ conn_at[cur] \in Conns
         /\ Size(cur) \in Nat /\ Room(cur) \in Nat /\ Room(cur) > 0
         /\ used_size[cur] \in Nat /\ total_len[cur] \in Nat
         /\ used_size[cur] + Room(cur) = Size(cur) - 1
         /\ Len(recv_msg[cur]) = total_len[cur] /\ total_len[cur] <= Size(cur)
<1>1. cur \in Fds /\ conn_at[cur] \in Conns
  BY DEF Dispatch, EventsFresh
<1>2. used_size[cur] \in Nat /\ total_len[cur] \in Nat
  BY <1>1 DEF EpollServerTypeOK
<1>3. /\ used_size[cur] < total_len[cur] /\ Len(recv_msg[cur]) = total_len[cur]
      /\ Room(cur) > 0
  BY <1>1 DEF BuffersSized
<1>4. Size(cur) \in Nat /\ total_len[cur] <= Size(cur)
  BY <1>2 DEF Size
<1>5. Room(cur) \in Nat /\ used_size[cur] + Room(cur) = Size(cur) - 1
  BY <1>2, <1>3, <1>4 DEF Room
<1>6. QED
  BY <1>1, <1>2, <1>3, <1>4, <1>5

\* What adjust_buf returns is a buffer of the size in the tables.
LEMMA AdjustedIsBuffer ==
  ASSUME EpollServerTypeOK, Dispatch, BuffersSized, pc = "read"
  PROVE  /\ Adjusted(cur) \in Seq(Bytes)
         /\ Len(Adjusted(cur)) = Size(cur)
<1>1. /\ cur \in Fds /\ recv_msg[cur] \in Seq(Bytes)
      /\ Len(recv_msg[cur]) = total_len[cur] /\ Size(cur) \in Nat
  BY SizesInRead DEF EpollServerTypeOK
<1>2. CASE MustGrow(cur)
  <2>1. \A i \in 1 .. Size(cur) :
          (IF i <= Len(recv_msg[cur]) /\ BeforeNul(recv_msg[cur], i)
             THEN recv_msg[cur][i] ELSE NulByte) \in Bytes
    BY <1>1, ElementOfSeq DEF Bytes
  <2>2. QED
    BY <1>1, <1>2, <2>1 DEF Adjusted, Grown
<1>3. CASE ~ MustGrow(cur)
  BY <1>1, <1>3 DEF Adjusted, Size
<1>4. QED
  BY <1>2, <1>3

\* The buffer after a read is a buffer of the same size.
LEMMA ReceivedIsBuffer ==
  ASSUME EpollServerTypeOK, Dispatch, BuffersSized, pc = "read",
         NEW n \in Nat, n <= Room(cur), NEW buf \in Seq(Bytes), Len(buf) = Size(cur)
  PROVE  /\ Received(buf, cur, n) \in Seq(Bytes)
         /\ Len(Received(buf, cur, n)) = Size(cur)
         /\ Received(buf, cur, n) # NULL
         /\ \A i \in 1 .. used_size[cur] : Received(buf, cur, n)[i] = buf[i]
         /\ \A i \in 1 .. n : Received(buf, cur, n)[used_size[cur] + i] =
                             <<conn_at[cur], taken[conn_at[cur]] + i>>
<1> DEFINE c == conn_at[cur]
           byte(i) == IF i \in used_size[cur] + 1 .. used_size[cur] + n
                        THEN <<c, taken[c] + i - used_size[cur]>>
                        ELSE buf[i]
<1>1. /\ c \in Conns /\ taken[c] \in Nat /\ Size(cur) \in Nat
      /\ used_size[cur] \in Nat /\ used_size[cur] + n < Size(cur)
  BY SizesInRead DEF EpollServerTypeOK, SockTypeOK
<1>2. \A i \in 1 .. Size(cur) : buf[i] \in Bytes
  BY ElementOfSeq
<1>3. ASSUME NEW i \in 1 .. Size(cur) PROVE byte(i) \in Bytes
  <2>1. CASE i \in used_size[cur] + 1 .. used_size[cur] + n
    <3>1. taken[c] + i - used_size[cur] \in Nat
      BY <1>1, <2>1
    <3>2. QED
      BY <1>1, <2>1, <3>1 DEF Bytes
  <2>2. QED
    BY <1>2, <2>1
<1>4. Received(buf, cur, n) = [i \in 1 .. Size(cur) |-> byte(i)]
  BY DEF Received
<1> HIDE DEF byte
<1>5. Received(buf, cur, n) \in Seq(Bytes) /\ Len(Received(buf, cur, n)) = Size(cur)
  BY <1>1, <1>3, <1>4
<1>6. Received(buf, cur, n) # NULL
  BY <1>1, <1>5 DEF NULL
<1>7. \A i \in 1 .. used_size[cur] : Received(buf, cur, n)[i] = buf[i]
  BY <1>1, <1>4 DEF byte
<1>8. \A i \in 1 .. n : Received(buf, cur, n)[used_size[cur] + i] = <<c, taken[c] + i>>
  <2> SUFFICES ASSUME NEW i \in 1 .. n
               PROVE  Received(buf, cur, n)[used_size[cur] + i] = <<c, taken[c] + i>>
    OBVIOUS
  <2>1. /\ used_size[cur] + i \in 1 .. Size(cur)
        /\ taken[c] + (used_size[cur] + i) - used_size[cur] = taken[c] + i
    BY <1>1
  <2>2. byte(used_size[cur] + i) = <<c, taken[c] + i>>
    BY <1>1, <2>1 DEF byte
  <2>3. QED
    BY <1>4, <2>1, <2>2
<1>9. QED
  BY <1>5, <1>6, <1>7, <1>8

LEMMA FilledIsBuffer ==
  ASSUME EpollServerTypeOK, Dispatch, BuffersSized, pc = "read",
         NEW n \in Nat, n <= Room(cur)
  PROVE  /\ Filled(cur, n) \in Seq(Bytes)
         /\ Len(Filled(cur, n)) = Size(cur)
         /\ Filled(cur, n) # NULL
         /\ \A i \in 1 .. used_size[cur] : Filled(cur, n)[i] = Adjusted(cur)[i]
         /\ \A i \in 1 .. n : Filled(cur, n)[used_size[cur] + i] =
                             <<conn_at[cur], taken[conn_at[cur]] + i>>
  BY AdjustedIsBuffer, ReceivedIsBuffer DEF Filled

-----------------------------------------------------------------------------
(***************************************************************************)
(* Init and every step keep the types.                                     *)
(***************************************************************************)
LEMMA ListenIsApart == ListenFd \notin Fds
  BY FdAssumption DEF Fds

\* heap counts at least the buffers the descriptors hold, so a buffer more or
\* a buffer less leaves it a natural number.
LEMMA LiveStep ==
  ASSUME EpollServerTypeOK, Cardinality(Live) <= heap, NEW fd \in Fds
  PROVE  /\ Cardinality(Live) \in Nat
         /\ Cardinality(Live \cup {fd}) <= heap + 1
         /\ recv_msg[fd] # NULL => /\ Cardinality(Live \ {fd}) <= heap - 1
                                   /\ heap - 1 \in Nat
<1>1. IsFiniteSet(Live)
  <2>1. IsFiniteSet(Fds)
    BY FdAssumption, FS_Interval DEF Fds
  <2>2. Live \in SUBSET Fds
    BY DEF Live
  <2>3. QED
    BY <2>1, <2>2, FS_Subset
<1>2. Cardinality(Live) \in Nat /\ heap \in Nat
  BY <1>1, FS_CardinalityType DEF EpollServerTypeOK
<1>3. Cardinality(Live \cup {fd}) <= heap + 1
  <2>1. Cardinality(Live \cup {fd}) \in {Cardinality(Live), Cardinality(Live) + 1}
    BY <1>1, FS_AddElement
  <2>2. QED
    BY <1>2, <2>1
<1>4. ASSUME recv_msg[fd] # NULL
      PROVE  Cardinality(Live \ {fd}) <= heap - 1 /\ heap - 1 \in Nat
  <2>1. fd \in Live
    BY <1>4 DEF Live
  <2>2. Cardinality(Live \ {fd}) = Cardinality(Live) - 1
    BY <1>1, <2>1, FS_RemoveElement
  <2>3. Cardinality(Live \ {fd}) \in Nat
    BY <1>1, FS_RemoveElement, FS_CardinalityType
  <2>4. QED
    BY <1>2, <2>2, <2>3
<1>5. QED
  BY <1>2, <1>3, <1>4

\* main leaves every variable in its type.
LEMMA TypeInit == Init => EpollServerTypeOK
<1> SUFFICES ASSUME Init PROVE EpollServerTypeOK
  OBVIOUS
<1>1. SockTypeOK
  BY QueueAssumption DEF Init, SockInit, SockTypeOK, PeerStates
<1>2. EpollTypeOK
  BY DEF Init, EpollInit, EpollTypeOK, Watched
<1>3. recv_msg \in [Fds -> Seq(Bytes)]
  BY DEF Init, NULL
<1>4. requests \in [Conns -> Seq(RequestRecord)] /\ replies \in [Conns -> ReplyRecord]
  BY DEF Init, ReplyRecord
<1>5. QED
  BY <1>1, <1>2, <1>3, <1>4 DEF Init, EpollServerTypeOK, Watched

\* send keeps the types of the send queues.
LEMMA SendType ==
  ASSUME SockTypeOK, NEW c \in Conns, NEW n \in Nat, Send(c, n)
  PROVE  outq' \in [Conns -> 0 .. SNDBUF]
<1>1. outq[c] \in 0 .. SNDBUF /\ SNDBUF \in Nat
  BY QueueAssumption DEF SockTypeOK
<1>2. outq[c] + Smaller(n, Space(c)) \in 0 .. SNDBUF
  BY <1>1 DEF Smaller, Space
<1>3. QED
  BY <1>2 DEF Send, SockTypeOK

\* The peers' steps keep the types.
LEMMA EnvType ==
  ASSUME EpollServerTypeOK, Others
  PROVE  EpollServerTypeOK'
<1>1. PICK c \in Conns : PeerConnects(c) \/ PeerSends(c) \/ PeerReads(c) \/ PeerEnds(c)
  BY DEF Others, EnvNext
<1>2. SockTypeOK'
  <2>1. CASE PeerConnects(c)
    BY <2>1 DEF PeerConnects, Connect, EpollServerTypeOK, SockTypeOK, PeerStates
  <2>2. CASE PeerSends(c)
    <3>1. Len(Stream[c]) \in Nat
      BY StreamAssumption
    <3>2. QED
      BY <2>2, <3>1 DEF PeerSends, PeerSend, EpollServerTypeOK, SockTypeOK
  <2>3. CASE PeerReads(c)
    BY <2>3, QueueAssumption DEF PeerReads, PeerRead, EpollServerTypeOK, SockTypeOK
  <2>4. CASE PeerEnds(c)
    BY <2>4 DEF PeerEnds, PeerLeaves, EpollServerTypeOK, SockTypeOK, PeerStates
  <2>5. QED
    BY <1>1, <2>1, <2>2, <2>3, <2>4
<1>3. EpollTypeOK'
  BY <1>1 DEF PeerConnects, PeerSends, PeerReads, PeerEnds, Wake, Watched,
              EpollServerTypeOK, EpollTypeOK
<1>4. QED
  BY <1>2, <1>3 DEF Others, tables, thread, history, EpollServerTypeOK, Watched

\* epoll_wait keeps the types.
LEMMA WaitType ==
  ASSUME EpollServerTypeOK, Wait
  PROVE  EpollServerTypeOK'
<1>1. PICK batch \in SUBSET ready :
        EpollWait(batch) /\ events' = {EventOf(fd) : fd \in batch}
  BY DEF Wait
<1>2. EpollTypeOK'
  BY <1>1 DEF EpollWait, EpollServerTypeOK, EpollTypeOK
<1>3. events' \subseteq [fd : Watched, ev : {"IN", "OUT"}]
  <2> SUFFICES ASSUME NEW fd \in batch
               PROVE  EventOf(fd) \in [fd : Watched, ev : {"IN", "OUT"}]
    BY <1>1
  <2>1. fd \in Watched /\ HotFd(fd)
    BY <1>1 DEF EpollWait, EpollServerTypeOK, EpollTypeOK
  <2>2. fd # ListenFd => interest[fd] \in {"IN", "OUT"}
    BY <2>1 DEF HotFd, Hot
  <2>3. QED
    BY <2>1, <2>2 DEF EventOf
<1>4. QED
  BY <1>2, <1>3 DEF Wait, sockVars, tables, history, EpollServerTypeOK, SockTypeOK

\* onaccept keeps the types.
LEMMA AcceptType ==
  ASSUME EpollServerTypeOK, OnAccept
  PROVE  EpollServerTypeOK'
<1>1. SockTypeOK' /\ EpollTypeOK'
  BY DEF OnAccept, Accept, AcceptFails, Register, epollVars, sockVars, Watched,
         EpollServerTypeOK, SockTypeOK, EpollTypeOK
<1>2. events' \subseteq events
  BY DEF OnAccept, Accept, AcceptFails, Event
<1>3. QED
  BY <1>1, <1>2 DEF OnAccept, Accept, AcceptFails, tables, history,
                    EpollServerTypeOK

\* The beginning of onread keeps the types, whatever is in a first buffer.
LEMMA BeginType ==
  ASSUME EpollServerTypeOK, NEW fd \in Fds, NEW first \in Seq(Bytes),
         BeginRead(fd, first)
  PROVE  EpollServerTypeOK'
<1>1. /\ recv_msg' \in [Fds -> Seq(Bytes)]
      /\ total_len' \in [Fds -> Nat]
      /\ used_size' \in [Fds -> Nat]
      /\ heap' \in Nat
  <2>1. CASE recv_msg[fd] = NULL
    <3>1. INIT_BUF_SIZE \in Nat /\ 0 \in Nat /\ heap + 1 \in Nat
      BY BufferAssumption DEF EpollServerTypeOK
    <3>2. QED
      BY <2>1, <3>1 DEF BeginRead, EpollServerTypeOK
  <2>2. CASE recv_msg[fd] # NULL
    BY <2>2 DEF BeginRead, EpollServerTypeOK
  <2>3. QED
    BY <2>1, <2>2
<1>2. events' \subseteq events
  BY DEF BeginRead, Event
<1>3. QED
  BY <1>1, <1>2 DEF BeginRead, sockVars, epollVars, history, Watched,
                    EpollServerTypeOK, SockTypeOK, EpollTypeOK

\* The first buffer of the server is a buffer of zeros.
LEMMA ZerosAreBuffer ==
  LET zeros == [i \in 1 .. INIT_BUF_SIZE |-> NulByte] IN
  zeros \in Seq(Bytes) /\ Len(zeros) = INIT_BUF_SIZE
  BY BufferAssumption DEF Bytes

LEMMA OnReadType ==
  ASSUME EpollServerTypeOK, NEW fd \in Fds, OnRead(fd)
  PROVE  EpollServerTypeOK'
  BY BeginType, ZerosAreBuffer DEF OnRead

\* Every round of the loop of onread keeps the types.
LEMMA ReadType ==
  ASSUME EpollServerTypeOK, Dispatch, BuffersSized, Cardinality(Live) <= heap,
         ReadAgain \/ Rearm \/ ReadCloses \/ \E n \in Nat : ReadPart(n) \/ ReadWhole(n)
  PROVE  EpollServerTypeOK'
<1>0. CASE Rearm
  <2>1. cur \in Fds
    BY <1>0 DEF Rearm, Dispatch
  <2>2. QED
    BY <1>0, <2>1 DEF Rearm, Register, sockVars, tables, history, Watched,
                      EpollServerTypeOK, SockTypeOK, EpollTypeOK
<1> SUFFICES ASSUME ReadAgain \/ ReadCloses \/ \E n \in Nat : ReadPart(n) \/ ReadWhole(n)
             PROVE  EpollServerTypeOK'
  BY <1>0
<1>1. /\ pc = "read" /\ cur \in Fds /\ conn_at[cur] \in Conns
      /\ Size(cur) \in Nat /\ Room(cur) \in Nat
  BY SizesInRead DEF ReadAgain, ReadCloses, ReadPart, ReadWhole, ReadGets
<1>2. HeapAfter(cur, 0) \in Nat /\ HeapAfter(cur, 1) \in Nat
  <2>1. heap - 1 \in Nat /\ heap \in Nat
    BY <1>1, LiveStep DEF BuffersSized, EpollServerTypeOK
  <2>2. QED
    BY <2>1 DEF HeapAfter
<1>3. Adjusted(cur) \in Seq(Bytes)
  BY <1>1, AdjustedIsBuffer
<1>4. CASE ReadAgain
  BY <1>1, <1>2, <1>3, <1>4
     DEF ReadAgain, sockVars, epollVars, history, Watched,
         EpollServerTypeOK, SockTypeOK, EpollTypeOK
<1>5. CASE ReadCloses
  <2>1. NULL \in Seq(Bytes)
    BY DEF NULL
  <2>2. SockTypeOK' /\ EpollTypeOK'
    BY <1>1, <1>5 DEF ReadCloses, CloseFd, Unregister, PeerStates,
                      EpollServerTypeOK, SockTypeOK, EpollTypeOK
  <2>3. QED
    BY <1>1, <1>2, <1>5, <2>1, <2>2
       DEF ReadCloses, Release, history, EpollServerTypeOK
<1>6. ASSUME NEW n \in Nat, ReadGets(n)
      PROVE  /\ n <= Room(cur)
             /\ SockTypeOK'
             /\ total_len' \in [Fds -> Nat]
             /\ replies' \in [Conns -> ReplyRecord] /\ cur' \in Watched
             /\ left_len' \in Int
             /\ events' \subseteq [fd : Watched, ev : {"IN", "OUT"}]
  <2>1. Unread(conn_at[cur]) \in Int
    BY <1>1 DEF Unread, EpollServerTypeOK, SockTypeOK
  <2>2. n <= Room(cur)
    BY <1>1, <1>6, <2>1, SmallerIsBoth DEF ReadGets
  <2>3. taken' \in [Conns -> Nat]
    BY SMTT(20), <1>1, <1>6 DEF ReadGets, EpollServerTypeOK, SockTypeOK
  <2>4. QED
    BY <1>1, <1>6, <2>2, <2>3 DEF ReadGets, EpollServerTypeOK, SockTypeOK
<1>7. ASSUME NEW n \in Nat, ReadPart(n)
      PROVE  EpollServerTypeOK'
  <2>1. ReadGets(n) /\ n <= Room(cur)
    BY <1>6, <1>7 DEF ReadPart
  <2>2. Filled(cur, n) \in Seq(Bytes)
    BY <1>1, <2>1, FilledIsBuffer
  <2>3. /\ recv_msg' \in [Fds -> Seq(Bytes)]
        /\ used_size' \in [Fds -> Nat]
        /\ heap' \in Nat
        /\ EpollTypeOK'
    BY SMTT(20), <1>1, <1>2, <1>7, <2>2
       DEF ReadPart, Register, Watched, EpollServerTypeOK, EpollTypeOK
  <2>4. QED
    BY <1>6, <1>7, <2>1, <2>3 DEF ReadPart, EpollServerTypeOK
<1>8. ASSUME NEW n \in Nat, ReadWhole(n)
      PROVE  EpollServerTypeOK'
  <2>1. ReadGets(n) /\ n <= Room(cur)
    BY <1>6, <1>8 DEF ReadWhole
  <2>2. Filled(cur, n) \in Seq(Bytes) /\ Len(Filled(cur, n)) = Size(cur)
    BY <1>1, <2>1, FilledIsBuffer
  <2>3. used_size[cur] \in Nat /\ used_size[cur] + n < Size(cur)
    BY <1>1, <2>1, SizesInRead
  <2> DEFINE text == SubSeq(Filled(cur, n), 1, (used_size[cur] + n) - 4)
  <2>4. text \in Seq(Bytes)
    <3>1. \A i \in 1 .. (used_size[cur] + n) - 4 : Filled(cur, n)[i] \in Bytes
      BY <1>1, <2>2, <2>3, ElementOfSeq
    <3>2. QED
      BY <2>3, <3>1, SubSeqProperties
  <2>5. taken[conn_at[cur]] + n \in Nat
    BY SMTT(20), <1>1 DEF EpollServerTypeOK, SockTypeOK
  <2> DEFINE request == [text |-> text, upto |-> taken[conn_at[cur]] + n,
                         ahead |-> outq[conn_at[cur]] > 0]
  <2>6. request \in RequestRecord
    BY <2>4, <2>5 DEF RequestRecord
  <2>7. requests' \in [Conns -> Seq(RequestRecord)]
    <3>1. requests' = [requests EXCEPT ![conn_at[cur]] =
              Append(requests[conn_at[cur]], request)]
      BY <1>8, Zenon DEF ReadWhole
    <3> HIDE DEF request
    <3>2. requests[conn_at[cur]] \in Seq(RequestRecord)
      BY <1>1 DEF EpollServerTypeOK
    <3>3. Append(requests[conn_at[cur]], request) \in Seq(RequestRecord)
      BY <2>6, <3>2, AppendProperties
    <3>4. QED
      BY <3>1, <3>3 DEF EpollServerTypeOK
  <2>8. /\ recv_msg' \in [Fds -> Seq(Bytes)]
        /\ used_size' \in [Fds -> Nat]
        /\ heap' \in Nat
        /\ finish_flag' \in [Fds -> BOOLEAN]
        /\ EpollTypeOK'
    BY SMTT(20), <1>1, <1>2, <1>8
       DEF ReadWhole, Release, NULL, Register, Watched, EpollServerTypeOK,
           EpollTypeOK
  <2>9. QED
    BY <1>6, <1>8, <2>1, <2>7, <2>8 DEF ReadWhole, EpollServerTypeOK
<1>9. QED
  BY <1>4, <1>5, <1>7, <1>8

\* Every call of onwrite keeps the types.
LEMMA WriteType ==
  ASSUME EpollServerTypeOK, Dispatch, OnWriteStep
  PROVE  EpollServerTypeOK'
<1> USE ReplyAssumption
<1>1. ASSUME NEW fd \in Fds, [fd |-> fd, ev |-> "OUT"] \in events
      PROVE  conn_at[fd] \in Conns
  BY <1>1, ListenIsApart DEF Dispatch, EventsFresh
<1>2. ASSUME NEW fd, SendFails(conn_at[fd]), peer' = ErrorReported(conn_at[fd]),
             conn_at[fd] \in Conns
      PROVE  peer' \in [Conns -> PeerStates]
  BY <1>2 DEF ErrorReported, PeerStates, EpollServerTypeOK, SockTypeOK
<1>3. pc = "body" => cur \in Fds /\ conn_at[cur] \in Conns
  BY DEF Dispatch, EventsFresh
<1>4. ASSUME NEW fd \in Fds, WriteHead(fd)
      PROVE  EpollServerTypeOK'
  <2>1. conn_at[fd] \in Conns /\ events' \subseteq events
    BY <1>1, <1>4 DEF WriteHead, Event
  <2>2. outq' \in [Conns -> 0 .. SNDBUF]
    BY <1>4, <2>1, SendType DEF WriteHead, EpollServerTypeOK
  <2>3. SockTypeOK' /\ EpollTypeOK'
    BY <1>4, <2>2 DEF WriteHead, epollVars, EpollServerTypeOK, SockTypeOK, EpollTypeOK
  <2>4. replies' \in [Conns -> ReplyRecord]
    <3>1. PICK b \in BOOLEAN :
            replies' = [replies EXCEPT ![conn_at[fd]].body = 0, ![conn_at[fd]].torn = b]
      <4>1. replies[conn_at[fd]] \in ReplyRecord
        BY <2>1 DEF EpollServerTypeOK
      <4>2. (replies[conn_at[fd]].torn \/ Space(conn_at[fd]) < HEAD_LEN) \in BOOLEAN
        BY <4>1 DEF ReplyRecord
      <4>3. QED
        BY <1>4, <4>2 DEF WriteHead
    <3>2. QED
      BY <2>1, <3>1 DEF ReplyRecord, EpollServerTypeOK
  <2>5. /\ cur' \in Watched /\ left_len' \in Int /\ pc' = "body"
        /\ UNCHANGED <<recv_msg, total_len, used_size, finish_flag, heap, requests>>
    BY <1>4 DEF WriteHead, tables, Watched
  <2>6. QED
    BY <2>1, <2>3, <2>4, <2>5 DEF EpollServerTypeOK
<1>5. ASSUME NEW fd \in Fds, WriteHeadFails(fd)
      PROVE  EpollServerTypeOK'
  <2>1. conn_at[fd] \in Conns /\ events' \subseteq events
    BY <1>1, <1>5 DEF WriteHeadFails, Event
  <2>2. peer' \in [Conns -> PeerStates]
    BY <1>2, <1>5, <2>1 DEF WriteHeadFails, WriteFails
  <2>3. QED
    BY <1>5, <2>1, <2>2
       DEF WriteHeadFails, WriteFails, epollVars, tables, EpollServerTypeOK,
           SockTypeOK, EpollTypeOK
<1>6. CASE WriteBody
  <2> DEFINE c == conn_at[cur]
             written == Smaller(WRITE_SIZE, Space(c))
             left == Left(written)
  <2>1. c \in Conns /\ cur \in Fds
    BY <1>3, <1>6 DEF WriteBody
  <2>2. outq' \in [Conns -> 0 .. SNDBUF]
    BY <1>6, <2>1, SendType DEF WriteBody, EpollServerTypeOK
  <2>3. left \in Int /\ written \in Nat
    <3>1. Space(c) \in Nat
      BY <2>1, QueueAssumption DEF Space, EpollServerTypeOK, SockTypeOK
    <3>2. written \in Nat
      BY <3>1, SmallerIsBoth
    <3>3. QED
      BY <3>2 DEF Left, EpollServerTypeOK
  <2>4. EpollTypeOK' /\ pc' \in {"loop", "body"}
    BY <1>6, <2>1 DEF WriteBody, Register, epollVars, Watched,
                      EpollServerTypeOK, EpollTypeOK
  <2>5. replies' \in [Conns -> ReplyRecord]
    <3>1. replies[c] \in ReplyRecord
      BY <2>1 DEF EpollServerTypeOK
    <3>2. replies[c].body + written \in Nat /\ replies[c].whole + 1 \in Nat
      BY <2>3, <3>1 DEF ReplyRecord
    <3> HIDE DEF written, left
    <3>3. replies' = [replies EXCEPT ![c].body = @ + written,
                                    ![c].whole = IF left > 0 THEN @ ELSE @ + 1]
      BY <1>6 DEF WriteBody, written, left
    <3>4. QED
      BY <2>1, <3>1, <3>2, <3>3 DEF ReplyRecord, EpollServerTypeOK
  <2>6. left_len' = left
    BY <1>6 DEF WriteBody
  <2> HIDE DEF left
  <2>7. QED
    BY <1>6, <2>2, <2>3, <2>4, <2>5, <2>6
       DEF WriteBody, tables, EpollServerTypeOK, SockTypeOK
<1>7. CASE WriteBodyFails
  <2>1. conn_at[cur] \in Conns
    BY <1>3, <1>7 DEF WriteBodyFails
  <2>2. peer' \in [Conns -> PeerStates]
    BY <1>2, <1>7, <2>1 DEF WriteBodyFails, WriteFails
  <2>3. replies' \in [Conns -> ReplyRecord]
    BY <1>7, <2>1 DEF WriteBodyFails, ReplyRecord, EpollServerTypeOK
  <2>4. QED
    BY <1>7, <2>2, <2>3
       DEF WriteBodyFails, WriteFails, epollVars, tables, EpollServerTypeOK,
           SockTypeOK, EpollTypeOK
<1>8. CASE WriteKills
  <2>1. events' \subseteq events
    BY <1>8 DEF WriteKills, Event
  <2>2. QED
    BY <1>8, <2>1
       DEF WriteKills, sockVars, epollVars, tables, history, EpollServerTypeOK,
           SockTypeOK, EpollTypeOK
<1>9. QED
  BY <1>4, <1>5, <1>6, <1>7, <1>8 DEF OnWriteStep

\* A step that changes nothing keeps the types.
LEMMA StutterType ==
  ASSUME EpollServerTypeOK, UNCHANGED vars
  PROVE  EpollServerTypeOK'
  BY DEF vars, sockVars, epollVars, tables, thread, history, EpollServerTypeOK,
         SockTypeOK, EpollTypeOK

\* A read returns a number of bytes.
LEMMA ReadsAreNatural ==
  ASSUME EpollServerTypeOK, Dispatch, OnReadStep
  PROVE  \/ \E fd \in Fds : OnRead(fd)
         \/ ReadAgain \/ Rearm \/ ReadCloses
         \/ \E n \in Nat : ReadPart(n) \/ ReadWhole(n)
<1>1. pc = "read" => Unread(conn_at[cur]) \in Int
  BY DEF Dispatch, EventsFresh, Unread, EpollServerTypeOK, SockTypeOK
<1>2. QED
  BY <1>1 DEF OnReadStep

\* Every step keeps the types.
LEMMA TypeStep ==
  ASSUME Core, BuffersSized, Cardinality(Live) <= heap, [Next]_vars
  PROVE  EpollServerTypeOK'
  BY EnvType, WaitType, AcceptType, OnReadType, ReadType, WriteType, StutterType,
     ReadsAreNatural DEF Core, Next, ServerNext

-----------------------------------------------------------------------------
(***************************************************************************)
(* Links: descriptors and connections.                                     *)
(***************************************************************************)

\* What a handler knows of the descriptor it was called for.
LEMMA HandlerKnows ==
  ASSUME Core
  PROVE  /\ pc \in {"read", "again"} =>
              cur \in Fds /\ conn_at[cur] \in Conns /\ interest[cur] = "IN"
         /\ pc = "read" => cur \in Fds /\ conn_at[cur] \in Conns /\ interest[cur] = "IN"
         /\ pc = "body" => cur \in Fds /\ conn_at[cur] \in Conns /\ interest[cur] = "OUT"
         /\ \A fd \in Fds, ev \in {"IN", "OUT"} :
              Event(fd, ev) => conn_at[fd] \in Conns /\ interest[fd] = ev
  BY ListenIsApart DEF Core, Dispatch, EventsFresh, Event

\* Every step keeps descriptors and connections tied one to one.
LEMMA LinksStep ==
  ASSUME Core, [Next]_vars
  PROVE  Links'
<1> USE ConnAssumption DEF Links, Registered
<1>1. /\ EpollServerTypeOK /\ Links
      /\ conn_at \in [Fds -> Conns \cup {NoConn}] /\ peer \in [Conns -> PeerStates]
      /\ backlog \subseteq Conns /\ interest \in [Fds -> {"none", "IN", "OUT"}]
  BY DEF Core, EpollServerTypeOK, SockTypeOK, EpollTypeOK
<1>2. CASE UNCHANGED <<conn_at, backlog, peer, interest>>
  BY <1>1, <1>2
<1>3. CASE Others
  <2>1. PICK c \in Conns : PeerConnects(c) \/ PeerSends(c) \/ PeerReads(c) \/ PeerEnds(c)
    BY <1>3 DEF Others, EnvNext
  <2>2. CASE PeerConnects(c)
    BY <1>1, <2>2 DEF PeerConnects, Connect
  <2>3. CASE PeerSends(c) \/ PeerReads(c)
    BY <1>2, <2>3 DEF PeerSends, PeerSend, PeerReads, PeerRead
  <2>4. CASE PeerEnds(c)
    BY <1>1, <2>4 DEF PeerEnds, PeerLeaves
  <2>5. QED
    BY <2>1, <2>2, <2>3, <2>4
<1>4. CASE Wait
  BY <1>2, <1>4 DEF Wait, EpollWait, sockVars
<1>5. CASE Accept
  <2>1. PICK c \in backlog, fd \in Fds :
          /\ LowestFree(fd)
          /\ conn_at' = [conn_at EXCEPT ![fd] = c]
          /\ backlog' = backlog \ {c}
          /\ \/ interest' = [interest EXCEPT ![fd] = "IN"]
             \/ UNCHANGED interest
    BY <1>5 DEF Accept, Register, epollVars
  <2>2. conn_at[fd] = NoConn /\ UNCHANGED peer
    BY <1>5, <2>1 DEF Accept, LowestFree
  <2>3. \A f \in Fds : conn_at[f] # c
    BY <1>1, <2>1
  <2>4. QED
    BY <1>1, <2>1, <2>2, <2>3
<1>6. CASE AcceptFails
  BY <1>2, <1>6 DEF AcceptFails, sockVars, epollVars
<1>7. ASSUME NEW fd \in Fds, OnRead(fd) PROVE Links'
  BY <1>2, <1>7 DEF OnRead, BeginRead, sockVars, epollVars
<1>8. ASSUME NEW fd \in Fds, conn_at[fd] \in Conns, NEW ev \in {"IN", "OUT"},
             NEW hot, Register(fd, ev, hot), UNCHANGED <<conn_at, backlog, peer>>
      PROVE  Links'
  BY <1>1, <1>8 DEF Register
<1>9. CASE ReadAgain \/ Rearm
  BY <1>2, <1>8, <1>9, HandlerKnows DEF ReadAgain, Rearm, sockVars, epollVars
<1>10. CASE ReadCloses
  <2>1. cur \in Fds /\ conn_at[cur] \in Conns
    BY <1>10, HandlerKnows DEF ReadCloses
  <2>2. \A f \in Fds : conn_at[f] = conn_at[cur] => f = cur
    BY <1>1, <2>1
  <2>3. /\ conn_at' = [conn_at EXCEPT ![cur] = NoConn]
        /\ peer' = [peer EXCEPT ![conn_at[cur]] = "over"]
        /\ interest' = [interest EXCEPT ![cur] = "none"]
        /\ UNCHANGED backlog
    BY <1>10 DEF ReadCloses, CloseFd, Unregister
  <2>4. conn_at[cur] \notin backlog
    BY <1>1, <2>1
  <2>5. QED
    BY <1>1, <2>1, <2>2, <2>3, <2>4
<1>11. ASSUME NEW n \in Nat, ReadPart(n) \/ ReadWhole(n) PROVE Links'
  BY <1>8, <1>11, HandlerKnows DEF ReadPart, ReadWhole, ReadGets
<1>12. ASSUME NEW fd \in Fds, WriteHead(fd) PROVE Links'
  BY <1>2, <1>12 DEF WriteHead, epollVars
<1>13. CASE WriteBody
  <2>1. CASE UNCHANGED interest
    BY <1>2, <1>13, <2>1 DEF WriteBody
  <2>2. QED
    BY <1>8, <1>13, <2>1, HandlerKnows DEF WriteBody, epollVars
<1>14. ASSUME NEW fd, SendFails(conn_at[fd]), peer' = ErrorReported(conn_at[fd]),
              UNCHANGED <<conn_at, backlog, interest>>
       PROVE  Links'
  BY <1>1, <1>14 DEF ErrorReported
<1>15. ASSUME NEW fd \in Fds, WriteHeadFails(fd) PROVE Links'
  BY <1>14, <1>15 DEF WriteHeadFails, WriteFails, epollVars
<1>16. CASE WriteBodyFails
  BY <1>14, <1>16 DEF WriteBodyFails, WriteFails, epollVars
<1>17. CASE WriteKills
  BY <1>2, <1>17 DEF WriteKills, sockVars, epollVars
<1>18. CASE UNCHANGED vars
  BY <1>2, <1>18 DEF vars, sockVars, epollVars
<1>19. QED
  BY <1>3, <1>4, <1>5, <1>6, <1>7, <1>9, <1>10, <1>11, <1>12, <1>13, <1>15,
     <1>16, <1>17, <1>18, ReadsAreNatural
     DEF Core, Next, ServerNext, OnAccept, OnReadStep, OnWriteStep

-----------------------------------------------------------------------------
(***************************************************************************)
(* Dispatch: the events that have not been handled, and the one that is.   *)
(***************************************************************************)
Fresh(e) == e.fd # ListenFd => conn_at[e.fd] \in Conns /\ interest[e.fd] = e.ev

\* An event is the only one for its descriptor.
LEMMA TakenOut ==
  ASSUME Core, NEW fd \in Watched, NEW ev \in {"IN", "OUT"}, Event(fd, ev)
  PROVE  /\ pc = "loop" /\ events' \subseteq events /\ fd \notin Pending'
         /\ fd = ListenFd => backlog # {}
<1>1. /\ events \subseteq [fd : Watched, ev : {"IN", "OUT"}]
      /\ events' = events \ {[fd |-> fd, ev |-> ev]}
      /\ [fd |-> fd, ev |-> ev] \in events
  BY DEF Core, EpollServerTypeOK, Event
<1>2. ASSUME NEW e \in events, e.fd = fd PROVE e.ev = ev
  BY <1>1, <1>2 DEF Core, Dispatch, EventsFresh
<1>3. \A e \in events' : e.fd # fd
  <2> SUFFICES ASSUME NEW e \in events', e.fd = fd PROVE FALSE
    OBVIOUS
  <2>1. e = [fd |-> e.fd, ev |-> e.ev]
    BY <1>1
  <2>2. QED
    BY <1>1, <1>2, <2>1
<1>4. fd \in Pending
  BY <1>1 DEF Pending
<1>5. QED
  BY <1>1, <1>3, <1>4 DEF Event, Pending, Core, Dispatch, AcceptNeverBlocks

\* Dispatch survives a step that leaves events only on descriptors it does
\* not touch, and ends or continues the handling of a registered one.
LEMMA DispatchKept ==
  ASSUME Core, events' \subseteq events,
         \A e \in events' : e.fd # ListenFd =>
            conn_at'[e.fd] = conn_at[e.fd] /\ interest'[e.fd] = interest[e.fd],
         ListenFd \in Pending' => backlog' # {},
         pc' \in {"loop", "dead"} \/
           /\ pc' \in {"read", "again", "body"}
           /\ cur' \in Fds /\ conn_at'[cur'] \in Conns
           /\ interest'[cur'] = IF pc' = "body" THEN "OUT" ELSE "IN"
           /\ cur' \notin Pending'
  PROVE  Dispatch'
<1>1. \A e \in events' : e.fd # ListenFd =>
        conn_at'[e.fd] \in Conns /\ interest'[e.fd] = e.ev
  BY DEF Core, Dispatch, EventsFresh
<1>2. \A e \in events' : e.fd = ListenFd => e.ev = "IN"
  BY DEF Core, Dispatch
<1>3. EventsFresh'
  BY <1>1 DEF EventsFresh, Handled
<1>4. QED
  BY <1>2, <1>3 DEF Dispatch, AcceptNeverBlocks

\* A handler that begins, or ends at its first call, takes its own event out.
LEMMA DispatchTaken ==
  ASSUME Core, NEW fd \in Fds, NEW ev \in {"IN", "OUT"}, Event(fd, ev),
         UNCHANGED <<conn_at, interest, backlog>>,
         \/ pc' \in {"loop", "dead"}
         \/ cur' = fd /\ ev = "IN" /\ pc' = "read"
         \/ cur' = fd /\ ev = "OUT" /\ pc' = "body"
  PROVE  Dispatch'
<1>1. events' \subseteq events /\ fd \notin Pending'
  BY TakenOut DEF Watched
<1>2. conn_at[fd] \in Conns /\ interest[fd] = ev
  BY HandlerKnows
<1>3. ListenFd \in Pending' => backlog' # {}
  BY <1>1 DEF Pending, Core, Dispatch, AcceptNeverBlocks
<1>4. QED
  BY <1>1, <1>2, <1>3, DispatchKept

\* A handler that goes on touches no descriptor but its own.
LEMMA DispatchRound ==
  ASSUME Core, pc \in {"read", "again", "body"}, UNCHANGED <<events, backlog>>,
         \A f \in Fds \ {cur} : /\ conn_at'[f] = conn_at[f]
                                /\ interest'[f] = interest[f],
         \/ pc' \in {"loop", "dead"}
         \/ /\ pc' = pc \/ (pc = "read" /\ pc' = "again")
            /\ UNCHANGED cur /\ conn_at'[cur] = conn_at[cur]
            /\ interest'[cur] = interest[cur]
  PROVE  Dispatch'
<1>1. ListenFd \in Pending => backlog # {}
  BY DEF Core, Dispatch, AcceptNeverBlocks
<1>2. cur \in Fds /\ cur \notin Pending
  BY DEF Core, Dispatch, EventsFresh, Handled
<1>3. Pending' = Pending
  BY DEF Pending
<1>4. \A e \in events : e.fd # ListenFd => e.fd \in Fds \ {cur}
  BY <1>2 DEF Core, EpollServerTypeOK, Watched, Pending
<1>5. QED
  BY <1>1, <1>2, <1>3, <1>4, HandlerKnows, DispatchKept

\* Every step keeps the events of the array about registered connections.
LEMMA DispatchStep ==
  ASSUME Core, [Next]_vars
  PROVE  Dispatch'
<1>1. ListenFd \in Pending => backlog # {}
  BY DEF Core, Dispatch, AcceptNeverBlocks
<1>2. pc \in {"read", "again", "body"} => cur \in Fds /\ cur \notin Pending
  BY DEF Core, Dispatch, EventsFresh, Handled
<1>3. pc \in {"loop", "read", "again", "body", "dead"}
  BY DEF Core, EpollServerTypeOK
<1>4. ASSUME UNCHANGED <<conn_at, interest, thread>>, backlog \subseteq backlog'
      PROVE  Dispatch'
  <2>1. UNCHANGED <<events, pc, cur>> /\ Pending' = Pending
    BY <1>4 DEF thread, Pending
  <2>2. QED
    BY <1>1, <1>2, <1>3, <1>4, <2>1, HandlerKnows, DispatchKept
<1>5. CASE Others
  BY <1>4, <1>5 DEF Others, EnvNext, PeerConnects, Connect, PeerSends, PeerSend,
                    PeerReads, PeerRead, PeerEnds, PeerLeaves
<1>6. CASE Wait
  <2>1. PICK batch \in SUBSET ready :
          EpollWait(batch) /\ events' = {EventOf(fd) : fd \in batch}
    BY <1>6 DEF Wait
  <2>2. ASSUME NEW fd \in batch
        PROVE  /\ fd = ListenFd => backlog # {}
               /\ fd # ListenFd => /\ conn_at[fd] \in Conns
                                   /\ interest[fd] \in {"IN", "OUT"}
    <3>1. fd \in Watched /\ HotFd(fd)
      BY <2>1 DEF EpollWait, Core, EpollServerTypeOK, EpollTypeOK
    <3>2. QED
      BY <3>1 DEF HotFd, Hot, Watched, Core, Links, Registered
  <2>3. UNCHANGED <<conn_at, interest, backlog>> /\ pc' = "loop"
    BY <1>6, <2>1 DEF Wait, EpollWait, sockVars
  <2>4. EventsFresh'
    BY <2>1, <2>2, <2>3 DEF EventsFresh, EventOf, Handled
  <2>5. AcceptNeverBlocks'
    BY <2>1, <2>2, <2>3 DEF AcceptNeverBlocks, Pending, EventOf
  <2>6. QED
    BY <2>1, <2>3, <2>4, <2>5 DEF Dispatch, EventOf
<1>7. CASE Accept
  <2>1. pc = "loop" /\ events' \subseteq events /\ ListenFd \notin Pending'
    BY <1>7, TakenOut DEF Accept, Watched
  <2>2. PICK f \in Fds : /\ conn_at[f] = NoConn
                         /\ \A g \in Fds \ {f} : /\ conn_at'[g] = conn_at[g]
                                                 /\ interest'[g] = interest[g]
    BY <1>7 DEF Accept, LowestFree, Register, epollVars, Core, EpollServerTypeOK,
                SockTypeOK, EpollTypeOK
  <2>3. \A e \in events' : e.fd # ListenFd => e.fd \in Fds \ {f}
    BY <2>1, <2>2, ConnAssumption
       DEF Core, EpollServerTypeOK, Watched, Dispatch, EventsFresh
  <2>4. QED
    BY <1>7, <2>1, <2>2, <2>3, DispatchKept DEF Accept
<1>8. CASE AcceptFails
  <2>1. pc = "loop" /\ events' \subseteq events /\ ListenFd \notin Pending'
    BY <1>8, TakenOut DEF AcceptFails, Watched
  <2>2. QED
    BY <1>8, <2>1, DispatchKept DEF AcceptFails, sockVars, epollVars
<1>9. ASSUME NEW fd \in Fds, OnRead(fd) PROVE Dispatch'
  BY <1>9, DispatchTaken DEF OnRead, BeginRead, sockVars, epollVars
<1>10. \A fd \in Fds : \A ev, hot : Register(fd, ev, hot) =>
         /\ interest'[fd] = ev
         /\ \A f \in Fds \ {fd} : interest'[f] = interest[f]
  BY DEF Register, Core, EpollServerTypeOK, EpollTypeOK
<1>11. CASE ReadAgain \/ Rearm
  <2>1. CASE ReadAgain
    BY <2>1, DispatchRound DEF ReadAgain, sockVars, epollVars
  <2>2. CASE Rearm
    BY <1>2, <1>10, <2>2, DispatchRound DEF Rearm, sockVars
  <2>3. QED
    BY <1>11, <2>1, <2>2
<1>12. CASE ReadCloses
  <2>1. \A f \in Fds \ {cur} : conn_at'[f] = conn_at[f] /\ interest'[f] = interest[f]
    BY <1>12 DEF ReadCloses, CloseFd, Unregister, Core, EpollServerTypeOK, SockTypeOK,
                 EpollTypeOK
  <2>2. QED
    BY <1>12, <2>1, DispatchRound DEF ReadCloses
<1>13. ASSUME NEW n \in Nat, ReadPart(n) \/ ReadWhole(n) PROVE Dispatch'
  BY <1>2, <1>10, <1>13, HandlerKnows, DispatchRound DEF ReadPart, ReadWhole, ReadGets
<1>14. ASSUME NEW fd \in Fds, WriteHead(fd) PROVE Dispatch'
  BY <1>14, DispatchTaken DEF WriteHead, epollVars
<1>15. ASSUME NEW fd \in Fds, WriteHeadFails(fd) PROVE Dispatch'
  <2>1. pc' = "loop"
    BY <1>15 DEF WriteHeadFails, Event
  <2>2. QED
    BY <1>15, <2>1, DispatchTaken DEF WriteHeadFails, WriteFails, epollVars
<1>16. CASE WriteBody
  <2>1. CASE UNCHANGED <<epollVars, pc>>
    BY <1>16, <2>1, DispatchRound DEF WriteBody, epollVars
  <2>2. QED
    BY <1>2, <1>10, <1>16, <2>1, DispatchRound DEF WriteBody
<1>17. CASE WriteBodyFails
  BY <1>17, DispatchRound DEF WriteBodyFails, WriteFails, epollVars
<1>18. CASE WriteKills
  BY <1>18, DispatchTaken, DispatchRound DEF WriteKills, sockVars, epollVars
<1>19. CASE UNCHANGED vars
  BY <1>4, <1>19 DEF vars, sockVars, epollVars
<1>20. QED
  BY <1>5, <1>6, <1>7, <1>8, <1>9, <1>11, <1>12, <1>13, <1>14, <1>15, <1>16,
     <1>17, <1>18, <1>19, ReadsAreNatural
     DEF Core, Next, ServerNext, OnAccept, OnReadStep, OnWriteStep

-----------------------------------------------------------------------------
(***************************************************************************)
(* Buffers: the tables and the heap.                                       *)
(***************************************************************************)
Sized(fd) == recv_msg[fd] # NULL =>
               Len(recv_msg[fd]) = total_len[fd] /\ used_size[fd] < total_len[fd]

\* A buffer whose last byte is free always has room for a read: adjust_buf
\* doubles it before the last byte is asked for.
LEMMA RoomLeft ==
  ASSUME NEW total \in Nat, NEW used \in Nat, used < total
  PROVE  (IF total - used <= 1 THEN 2 * total ELSE total) - used - 1 > 0
<1>1. CASE total - used <= 1
  BY <1>1
<1>2. CASE ~ (total - used <= 1)
  BY <1>2
<1>3. QED
  BY <1>1, <1>2

\* Buffers of the sizes in the tables leave room for what is read.
LEMMA BoundsFromSizes ==
  ASSUME EpollServerTypeOK', \A fd \in Fds : Sized(fd)',
         pc' = "read" => cur' \in Fds /\ recv_msg'[cur'] # NULL
  PROVE  BuffersSized'
<1>1. ASSUME NEW fd \in Fds, recv_msg'[fd] # NULL PROVE Room(fd)' > 0
  <2>1. total_len'[fd] \in Nat /\ used_size'[fd] \in Nat
    BY DEF EpollServerTypeOK
  <2>2. used_size'[fd] < total_len'[fd]
    BY <1>1 DEF Sized
  <2>3. QED
    BY <2>1, <2>2, RoomLeft DEF Room, Size, MustGrow
<1>2. QED
  BY <1>1 DEF BuffersSized, Sized

\* A first buffer of the size the tables say, whatever its contents.
LEMMA BeginSized ==
  ASSUME Core, BuffersSized, NEW fd \in Fds, NEW first \in Seq(Bytes),
         Len(first) = INIT_BUF_SIZE, BeginRead(fd, first), EpollServerTypeOK'
  PROVE  /\ BuffersSized'
         /\ recv_msg[fd] # NULL =>
              UNCHANGED <<recv_msg, total_len, used_size, heap>> /\ Live' = Live
         /\ recv_msg[fd] = NULL =>
              /\ recv_msg' = [recv_msg EXCEPT ![fd] = first]
              /\ used_size' = [used_size EXCEPT ![fd] = 0]
              /\ total_len' = [total_len EXCEPT ![fd] = INIT_BUF_SIZE]
              /\ heap' = heap + 1 /\ Live' = Live \cup {fd}
<1>1. /\ \A f \in Fds : Sized(f)
      /\ recv_msg \in [Fds -> Seq(Bytes)] /\ total_len \in [Fds -> Nat]
      /\ used_size \in [Fds -> Nat]
  BY DEF Core, BuffersSized, Sized, EpollServerTypeOK
<1>2. Live \subseteq Fds /\ \A f \in Fds : f \in Live <=> recv_msg[f] # NULL
  BY DEF Live
<1>3. pc' = "read" /\ cur' = fd
  BY DEF BeginRead
<1>4. CASE recv_msg[fd] # NULL
  <2>1. UNCHANGED <<recv_msg, total_len, used_size, heap>> /\ Live' = Live
    BY <1>4 DEF BeginRead, Live
  <2>2. BuffersSized'
    BY <1>1, <1>3, <1>4, <2>1, BoundsFromSizes DEF Sized
  <2>3. QED
    BY <1>4, <2>1, <2>2
<1>5. CASE recv_msg[fd] = NULL
  <2>1. first # NULL /\ INIT_BUF_SIZE \in Nat /\ INIT_BUF_SIZE > 0
    BY BufferAssumption DEF NULL
  <2>2. /\ recv_msg' = [recv_msg EXCEPT ![fd] = first]
        /\ used_size' = [used_size EXCEPT ![fd] = 0]
        /\ total_len' = [total_len EXCEPT ![fd] = INIT_BUF_SIZE]
        /\ heap' = heap + 1
    BY <1>5 DEF BeginRead
  <2>3. Live' = Live \cup {fd}
    BY <1>1, <1>2, <2>1, <2>2 DEF Live
  <2>4. \A f \in Fds : Sized(f)'
    BY <1>1, <2>1, <2>2 DEF Sized
  <2>5. recv_msg'[fd] # NULL
    BY <1>1, <2>1, <2>2
  <2>6. BuffersSized'
    BY <1>3, <2>4, <2>5, BoundsFromSizes
  <2>7. QED
    BY <1>5, <2>2, <2>3, <2>6
<1>6. QED
  BY <1>4, <1>5

\* Behind the received bytes there is nothing but zeros.
Padded(fd) == recv_msg[fd] # NULL =>
                \A i \in used_size[fd] + 1 .. total_len[fd] : recv_msg[fd][i] = NulByte

LEMMA PaddingKept ==
  ASSUME Core, BufferBounds, pc = "read", NEW n \in Nat, n <= Room(cur)
  PROVE  /\ \A i \in used_size[cur] + 1 .. Size(cur) : Adjusted(cur)[i] = NulByte
         /\ \A i \in used_size[cur] + n + 1 .. Size(cur) : Filled(cur, n)[i] = NulByte
<1>1. /\ cur \in Fds /\ recv_msg[cur] # NULL /\ used_size[cur] \in Nat
      /\ total_len[cur] \in Nat /\ Len(recv_msg[cur]) = total_len[cur]
      /\ Size(cur) \in Nat /\ Padded(cur)
  BY SizesInRead DEF Core, BufferBounds, BuffersSized, Padded
<1>2. ASSUME NEW i \in used_size[cur] + 1 .. Size(cur)
      PROVE  Adjusted(cur)[i] = NulByte
  <2>1. i <= total_len[cur] => recv_msg[cur][i] = NulByte
    BY <1>1 DEF Padded
  <2>2. CASE MustGrow(cur)
    <3>1. Adjusted(cur)[i] = IF i <= Len(recv_msg[cur]) /\ BeforeNul(recv_msg[cur], i)
                               THEN recv_msg[cur][i] ELSE NulByte
      BY <1>1, <2>2 DEF Adjusted, Grown
    <3>2. QED
      BY <1>1, <2>1, <3>1
  <2>3. CASE ~ MustGrow(cur)
    BY <1>1, <2>1, <2>3 DEF Adjusted, Size
  <2>4. QED
    BY <2>2, <2>3
<1>3. ASSUME NEW i \in used_size[cur] + n + 1 .. Size(cur)
      PROVE  Filled(cur, n)[i] = NulByte
  <2>1. i \in 1 .. Size(cur) /\ i \in used_size[cur] + 1 .. Size(cur)
        /\ i \notin used_size[cur] + 1 .. used_size[cur] + n
    BY <1>1
  <2>2. Filled(cur, n)[i] = Adjusted(cur)[i]
    BY <2>1 DEF Filled, Received
  <2>3. QED
    BY <1>2, <2>1, <2>2
<1>4. QED
  BY <1>2, <1>3

\* Every step keeps the receive buffers within their bounds.
LEMMA BuffersStep ==
  ASSUME Core, Buffers, [Next]_vars, EpollServerTypeOK'
  PROVE  Buffers'
<1>1. /\ EpollServerTypeOK /\ Dispatch /\ BufferBounds /\ BuffersSized
      /\ Cardinality(Live) <= heap
      /\ \A fd \in Fds : Sized(fd) /\ Padded(fd)
      /\ recv_msg \in [Fds -> Seq(Bytes)] /\ total_len \in [Fds -> Nat]
      /\ used_size \in [Fds -> Nat]
  BY DEF Core, Buffers, BufferBounds, BuffersSized, Sized, Padded, EpollServerTypeOK
<1>2. Live \subseteq Fds /\ \A fd \in Fds : fd \in Live <=> recv_msg[fd] # NULL
  BY DEF Live
<1>3. ASSUME BuffersSized', \A fd \in Fds : Padded(fd)', Cardinality(Live') <= heap'
      PROVE  Buffers'
  BY <1>3 DEF Buffers, BufferBounds, Padded, Live
<1>4. ASSUME UNCHANGED tables, pc' = "read" => pc = "read" /\ cur' = cur
      PROVE  Buffers'
  <2>1. UNCHANGED <<recv_msg, total_len, used_size, heap>> /\ Live' = Live
    BY <1>4 DEF tables, Live
  <2>2. BuffersSized'
    BY <1>1, <1>4, <2>1 DEF BuffersSized, Room, Size, MustGrow
  <2>3. \A fd \in Fds : Padded(fd)'
    BY <1>1, <2>1 DEF Padded
  <2>4. QED
    BY <1>1, <1>3, <2>1, <2>2, <2>3
<1>5. CASE Others \/ UNCHANGED vars
  BY <1>4, <1>5 DEF Others, vars, thread
<1>6. CASE Wait
  BY <1>4, <1>6 DEF Wait
<1>7. CASE OnAccept \/ Rearm
  BY <1>4, <1>7 DEF OnAccept, Accept, AcceptFails, Rearm
<1>8. ASSUME NEW fd \in Fds, OnRead(fd) PROVE Buffers'
  <2> DEFINE zeros == [i \in 1 .. INIT_BUF_SIZE |-> NulByte]
  <2>1. /\ zeros \in Seq(Bytes) /\ Len(zeros) = INIT_BUF_SIZE /\ BeginRead(fd, zeros)
        /\ \A i \in 1 .. INIT_BUF_SIZE : zeros[i] = NulByte
    BY <1>8, ZerosAreBuffer DEF OnRead
  <2> HIDE DEF zeros
  <2>2. BuffersSized'
    BY <1>1, <2>1, BeginSized
  <2>3. CASE recv_msg[fd] # NULL
    <3>1. UNCHANGED <<recv_msg, total_len, used_size, heap>> /\ Live' = Live
      BY <1>1, <2>1, <2>3, BeginSized
    <3>2. \A f \in Fds : Padded(f)'
      BY <1>1, <3>1 DEF Padded
    <3>3. QED
      BY <1>1, <1>3, <2>2, <3>1, <3>2
  <2>4. CASE recv_msg[fd] = NULL
    <3>1. /\ recv_msg' = [recv_msg EXCEPT ![fd] = zeros]
          /\ used_size' = [used_size EXCEPT ![fd] = 0]
          /\ total_len' = [total_len EXCEPT ![fd] = INIT_BUF_SIZE]
          /\ heap' = heap + 1 /\ Live' = Live \cup {fd}
      BY <1>1, <2>1, <2>4, BeginSized
    <3>2. \A f \in Fds : Padded(f)'
      BY <1>1, <2>1, <3>1, BufferAssumption DEF Padded
    <3>3. QED
      BY <1>1, <1>3, <2>2, <3>1, <3>2, LiveStep
  <2>5. QED
    BY <2>3, <2>4
<1>9. ASSUME NEW buf, buf # NULL, Len(buf) = Size(cur), NEW n \in Nat, pc = "read",
             n <= Room(cur),
             \A i \in used_size[cur] + n + 1 .. Size(cur) : buf[i] = NulByte,
             recv_msg' = [recv_msg EXCEPT ![cur] = buf],
             total_len' = [total_len EXCEPT ![cur] = Size(cur)],
             used_size' = [used_size EXCEPT ![cur] = used_size[cur] + n],
             heap' = HeapAfter(cur, 0), UNCHANGED cur
      PROVE  Buffers'
  <2>1. /\ cur \in Fds /\ recv_msg[cur] # NULL /\ used_size[cur] \in Nat
        /\ Size(cur) \in Nat /\ used_size[cur] + n < Size(cur)
    BY <1>1, <1>9, SizesInRead DEF BuffersSized
  <2>2. \A f \in Fds : Sized(f)' /\ Padded(f)'
    BY <1>1, <1>9, <2>1 DEF Sized, Padded
  <2>3. Live' = Live
    BY <1>1, <1>2, <1>9, <2>1 DEF Live
  <2>4. heap' \in Nat /\ heap' >= heap /\ heap \in Nat /\ Cardinality(Live) \in Nat
    <3>1. heap \in Nat /\ Cardinality(Live) \in Nat
      BY <1>1, <2>1, LiveStep DEF EpollServerTypeOK
    <3>2. heap' \in {heap, heap + 1}
      BY <1>9, <3>1 DEF HeapAfter
    <3>3. QED
      BY <3>1, <3>2
  <2>5. BuffersSized'
    BY <1>1, <1>9, <2>1, <2>2, BoundsFromSizes
  <2>6. QED
    BY <1>1, <1>3, <2>2, <2>3, <2>4, <2>5
<1>10. CASE ReadAgain
  <2>1. pc = "read" /\ cur \in Fds
    BY <1>1, <1>10, SizesInRead DEF ReadAgain
  <2>2. /\ Adjusted(cur) # NULL /\ Len(Adjusted(cur)) = Size(cur)
        /\ Room(cur) \in Nat /\ used_size[cur] \in Nat
    BY <1>1, <2>1, SizesInRead, AdjustedIsBuffer DEF NULL
  <2>3. used_size' = [used_size EXCEPT ![cur] = used_size[cur] + 0]
    BY <1>1, <1>10, <2>1, <2>2 DEF ReadAgain
  <2>4. /\ recv_msg' = [recv_msg EXCEPT ![cur] = Adjusted(cur)]
        /\ total_len' = [total_len EXCEPT ![cur] = Size(cur)]
        /\ heap' = HeapAfter(cur, 0) /\ UNCHANGED cur
    BY <1>10 DEF ReadAgain
  <2>5. 0 \in Nat /\ 0 <= Room(cur) /\ used_size[cur] + 0 = used_size[cur]
    BY <2>2
  <2>6. \A i \in used_size[cur] + 1 .. Size(cur) : Adjusted(cur)[i] = NulByte
    BY <1>1, <2>1, <2>5, PaddingKept
  <2> HIDE DEF Adjusted, Size, HeapAfter, Room
  <2>7. QED
    BY <1>9, <2>1, <2>2, <2>3, <2>4, <2>5, <2>6
<1>11. ASSUME NEW n \in Nat, ReadPart(n) PROVE Buffers'
  <2>1. pc = "read" /\ cur \in Fds /\ conn_at[cur] \in Conns /\ Room(cur) \in Nat
    BY <1>1, <1>11, SizesInRead DEF ReadPart, ReadGets
  <2>2. Unread(conn_at[cur]) \in Int
    BY SMTT(20), <1>1, <2>1 DEF Unread, EpollServerTypeOK, SockTypeOK
  <2>3. n <= Room(cur)
    BY <1>11, <2>1, <2>2, SmallerIsBoth DEF ReadPart, ReadGets
  <2>4. Filled(cur, n) # NULL /\ Len(Filled(cur, n)) = Size(cur)
    BY <1>1, <2>1, <2>3, FilledIsBuffer
  <2>5. \A i \in used_size[cur] + n + 1 .. Size(cur) : Filled(cur, n)[i] = NulByte
    BY <1>1, <2>1, <2>3, PaddingKept
  <2>6. QED
    BY <1>9, <1>11, <2>1, <2>3, <2>4, <2>5 DEF ReadPart, ReadGets
<1>12. ASSUME pc = "read", pc' = "loop", Release(cur),
              total_len' = [total_len EXCEPT ![cur] = Size(cur)],
              heap' = HeapAfter(cur, 1)
       PROVE  Buffers'
  <2>1. cur \in Fds /\ recv_msg[cur] # NULL /\ conn_at[cur] \in Conns
    BY <1>1, <1>12, SizesInRead DEF BuffersSized
  <2>2. \A f \in Fds : Sized(f)' /\ Padded(f)'
    BY <1>1, <1>12, <2>1 DEF Sized, Padded, Release
  <2>3. Live' = Live \ {cur}
    BY <1>1, <1>2, <1>12, <2>1 DEF Live, Release
  <2>4. /\ heap' >= heap - 1 /\ Cardinality(Live \ {cur}) <= heap - 1
        /\ heap - 1 \in Nat /\ heap' \in Nat
    <3>1. /\ heap \in Nat /\ Cardinality(Live \ {cur}) <= heap - 1
          /\ heap - 1 \in Nat
      BY <1>1, <2>1, LiveStep DEF EpollServerTypeOK
    <3>2. heap' \in {heap - 1, heap}
      BY <1>12, <3>1 DEF HeapAfter
    <3>3. QED
      BY <3>1, <3>2
  <2>5. Cardinality(Live') <= heap'
    <3>1. IsFiniteSet(Live')
      <4>1. IsFiniteSet(Fds)
        BY FdAssumption, FS_Interval DEF Fds
      <4>2. Live' \in SUBSET Fds
        BY <1>2, <2>3
      <4>3. QED
        BY <4>1, <4>2, FS_Subset
    <3>2. Cardinality(Live') \in Nat
      BY <3>1, FS_CardinalityType
    <3>3. QED
      BY <2>3, <2>4, <3>2
  <2>6. BuffersSized'
    BY <1>12, <2>2, BoundsFromSizes
  <2>7. QED
    BY <1>3, <2>2, <2>5, <2>6
<1>13. CASE ReadCloses
  BY <1>12, <1>13 DEF ReadCloses
<1>14. ASSUME NEW n \in Nat, ReadWhole(n) PROVE Buffers'
  BY <1>12, <1>14 DEF ReadWhole, ReadGets
<1>15. CASE OnWriteStep
  <2>1. UNCHANGED tables /\ pc' # "read"
    BY <1>15 DEF OnWriteStep, WriteHead, WriteHeadFails, WriteFails, WriteBody,
                 WriteBodyFails, WriteKills, Event
  <2>2. QED
    BY <1>4, <2>1
<1>16. QED
  BY <1>5, <1>6, <1>7, <1>8, <1>10, <1>11, <1>13, <1>14, <1>15, ReadsAreNatural
     DEF Core, Next, ServerNext, OnReadStep

-----------------------------------------------------------------------------
(***************************************************************************)
(* NoLostWakeup.                                                           *)
(***************************************************************************)
Seen == ready \cup Pending \cup Handled

\* A descriptor nothing happened to stays where it can be seen.
LEMMA WakeupKept ==
  ASSUME IInv, pc # "dead", NEW fd \in Fds,
         conn_at'[fd] = conn_at[fd], interest'[fd] = interest[fd],
         arrived'[conn_at[fd]] = arrived[conn_at[fd]],
         taken'[conn_at[fd]] = taken[conn_at[fd]],
         outq'[conn_at[fd]] = outq[conn_at[fd]],
         peer'[conn_at[fd]] = peer[conn_at[fd]],
         fd \in Seen => fd \in Seen',
         Registered(fd)', Hot(conn_at[fd], interest[fd])', peer'[conn_at'[fd]] # "gone"
  PROVE  fd \in Seen'
<1>1. Registered(fd) /\ Hot(conn_at[fd], interest[fd])
  BY DEF Registered, Hot, HotIn, HotOut, Unread, Space
<1>2. QED
  BY <1>1 DEF IInv, Core, NoLostWakeup, Seen

\* No step loses a wakeup.
LEMMA WakeupStep ==
  ASSUME IInv, [Next]_vars, Links', Dispatch'
  PROVE  NoLostWakeup'
<1>0. Core
  BY DEF IInv
<1> USE <1>0
<1> SUFFICES ASSUME pc' # "dead", NEW fd \in Fds, Registered(fd)',
                    Hot(conn_at[fd], interest[fd])', peer'[conn_at'[fd]] # "gone"
             PROVE  fd \in Seen'
  BY DEF NoLostWakeup, Seen
<1>1. /\ conn_at \in [Fds -> Conns \cup {NoConn}] /\ peer \in [Conns -> PeerStates]
      /\ arrived \in [Conns -> Nat] /\ taken \in [Conns -> Nat]
      /\ outq \in [Conns -> 0 .. SNDBUF]
      /\ backlog \subseteq Conns /\ interest \in [Fds -> {"none", "IN", "OUT"}]
      /\ ready \subseteq Watched
      /\ pc \in {"loop", "read", "again", "body", "dead"}
  BY DEF IInv, Core, EpollServerTypeOK, SockTypeOK, EpollTypeOK
<1>2. pc # "dead"
  <2>1. pc = "dead" => ~ ServerNext
    BY DEF ServerNext, Wait, OnAccept, Accept, AcceptFails, Event, OnReadStep, OnRead,
           BeginRead, ReadAgain, Rearm, ReadCloses, OnWriteStep, WriteHead, WriteHeadFails, WriteBody,
           WriteBodyFails, WriteKills
  <2>2. QED
    BY <2>1 DEF Next, Others, vars, thread
<1>3. \A f, g \in Fds : conn_at[f] \in Conns /\ conn_at[f] = conn_at[g] => f = g
  BY DEF IInv, Core, Links
<1>4. ASSUME UNCHANGED <<conn_at, interest, arrived, taken, outq, peer>>,
             fd \in Seen => fd \in Seen'
      PROVE  fd \in Seen'
  BY <1>2, <1>4, WakeupKept
<1>5. CASE Others
  <2>1. PICK c \in Conns : PeerConnects(c) \/ PeerSends(c) \/ PeerReads(c) \/ PeerEnds(c)
    BY <1>5 DEF Others, EnvNext
  <2>2. UNCHANGED <<conn_at, interest>> /\ ready \subseteq ready'
    BY <2>1 DEF PeerConnects, Connect, PeerSends, PeerSend, PeerReads, PeerRead,
                PeerEnds, PeerLeaves, Wake
  <2>3. Pending' = Pending /\ Handled' = Handled
    BY <1>5 DEF Others, thread, Pending, Handled
  <2>4. Seen \subseteq Seen'
    BY <2>2, <2>3 DEF Seen
  <2>5. conn_at[fd] \in Conns /\ interest[fd] \in {"IN", "OUT"}
    BY <1>1, <2>2 DEF Links, Registered
  <2>6. CASE conn_at[fd] # c
    <3>1. /\ arrived'[conn_at[fd]] = arrived[conn_at[fd]]
          /\ taken'[conn_at[fd]] = taken[conn_at[fd]]
          /\ outq'[conn_at[fd]] = outq[conn_at[fd]]
          /\ peer'[conn_at[fd]] = peer[conn_at[fd]]
      BY <1>1, <2>1, <2>5, <2>6
         DEF PeerConnects, Connect, PeerSends, PeerSend, PeerReads, PeerRead,
             PeerEnds, PeerLeaves
    <3>2. QED
      BY <1>2, <2>2, <2>4, <3>1, WakeupKept
  <2>7. CASE conn_at[fd] = c
    <3>1. CASE PeerConnects(c)
      BY <2>7, <3>1 DEF PeerConnects, Connect, IInv, Core, Links
    <3>2. CASE PeerSends(c)
      <4>1. CASE interest[fd] = "IN"
        BY <2>7, <3>2, <4>1 DEF PeerSends, Wake, Seen
      <4>2. CASE interest[fd] = "OUT"
        <5>1. Registered(fd) /\ Hot(conn_at[fd], interest[fd])
              /\ peer[conn_at[fd]] # "gone"
          BY <2>2, <3>2, <4>2 DEF PeerSends, PeerSend, Registered, Hot, Space
        <5>2. QED
          BY <1>2, <2>4, <5>1 DEF IInv, Core, NoLostWakeup, Seen
      <4>3. QED
        BY <2>5, <4>1, <4>2
    <3>3. CASE PeerReads(c)
      <4>1. CASE interest[fd] = "OUT"
        BY <2>7, <3>3, <4>1 DEF PeerReads, Wake, Seen
      <4>2. CASE interest[fd] = "IN"
        <5>1. Registered(fd) /\ Hot(conn_at[fd], interest[fd])
              /\ peer[conn_at[fd]] # "gone"
          BY <2>2, <3>3, <4>2 DEF PeerReads, PeerRead, Registered, Hot, Unread
        <5>2. QED
          BY <1>2, <2>4, <5>1 DEF IInv, Core, NoLostWakeup, Seen
      <4>3. QED
        BY <2>5, <4>1, <4>2
    <3>4. CASE PeerEnds(c)
      BY <2>5, <2>7, <3>4 DEF PeerEnds, Wake, Seen
    <3>5. QED
      BY <2>1, <3>1, <3>2, <3>3, <3>4
  <2>8. QED
    BY <2>6, <2>7
<1>6. CASE Wait
  <2>1. PICK batch \in SUBSET ready :
          EpollWait(batch) /\ events' = {EventOf(f) : f \in batch}
    BY <1>6 DEF Wait
  <2>2. UNCHANGED <<conn_at, interest, arrived, taken, outq, peer, backlog>>
        /\ pc = "loop" /\ events = {}
    BY <1>6, <2>1 DEF Wait, EpollWait, sockVars
  <2>3. Hot(conn_at[fd], interest[fd]) /\ Registered(fd) /\ peer[conn_at[fd]] # "gone"
    BY <2>2 DEF Registered, Hot, Unread, Space
  <2>4. fd \in ready
    BY <1>2, <2>2, <2>3 DEF IInv, Core, NoLostWakeup, Pending, Handled
  <2>5. HotFd(fd)
    BY <2>3, ListenIsApart DEF HotFd
  <2>6. fd \in batch \/ fd \in ready'
    BY <2>1, <2>4, <2>5 DEF EpollWait
  <2>7. fd \in batch => fd \in Pending'
    <3>1. EventOf(fd).fd = fd
      BY DEF EventOf
    <3>2. fd \in batch => EventOf(fd) \in events'
      BY <2>1
    <3>3. QED
      BY <3>1, <3>2 DEF Pending
  <2>8. QED
    BY <2>6, <2>7 DEF Seen
<1>7. ASSUME NEW f \in Watched, NEW ev \in {"IN", "OUT"}, Event(f, ev), fd # f
      PROVE  fd \in Pending => fd \in Pending'
  BY <1>7 DEF Event, Pending
<1>8. CASE Accept
  <2>1. PICK c \in backlog, f \in Fds :
          /\ LowestFree(f)
          /\ conn_at' = [conn_at EXCEPT ![f] = c]
          /\ \/ Register(f, "IN", HotIn(Unread(c), peer[c]))
             \/ UNCHANGED epollVars
    BY <1>8 DEF Accept
  <2>2. UNCHANGED <<arrived, taken, outq, peer, pc, cur>> /\ ready \subseteq ready'
        /\ Event(ListenFd, "IN")
    BY <1>8, <2>1 DEF Accept, Register, epollVars
  <2>3. fd \in Seen => fd \in Seen'
    BY <1>7, <2>2, ListenIsApart DEF Seen, Handled, Watched
  <2>4. CASE fd = f
    <3>1. conn_at'[f] = c /\ ~ Registered(f)
      BY <1>1, <2>1, ConnAssumption DEF LowestFree, IInv, Core, Links
    <3>2. Register(f, "IN", HotIn(Unread(c), peer[c]))
      BY <2>1, <2>4, <3>1 DEF Registered, epollVars
    <3>3. interest'[f] = "IN"
      BY <1>1, <3>2 DEF Register
    <3>4. HotIn(Unread(c), peer[c])
      BY <2>2, <2>4, <3>1, <3>3 DEF Hot, HotIn, Unread
    <3>5. QED
      BY <2>4, <3>2, <3>4 DEF Register, Seen
  <2>5. CASE fd # f
    <3>1. conn_at'[fd] = conn_at[fd] /\ interest'[fd] = interest[fd]
      BY <1>1, <2>1, <2>5 DEF Register, epollVars
    <3>2. QED
      BY <1>2, <2>2, <2>3, <3>1, WakeupKept
  <2>6. QED
    BY <2>4, <2>5
<1>9. CASE AcceptFails
  <2>1. fd \in Seen => fd \in Seen'
    BY <1>7, <1>9, ListenIsApart DEF AcceptFails, epollVars, Seen, Handled, Watched
  <2>2. QED
    BY <1>4, <1>9, <2>1 DEF AcceptFails, sockVars, epollVars
\* A handler's step: other descriptors stay visible.
<1>10. ASSUME NEW f \in Fds, NEW ev \in {"IN", "OUT"}, Event(f, ev),
              UNCHANGED epollVars, fd # f
       PROVE  fd \in Seen => fd \in Seen'
  <2>1. Handled = {}
    BY <1>10 DEF Event, Handled
  <2>2. QED
    BY <1>7, <1>10, <2>1 DEF Seen, epollVars, Watched
<1>11. ASSUME NEW f \in Fds, OnRead(f) PROVE fd \in Seen'
  <2>1. CASE fd = f
    BY <1>11, <2>1 DEF OnRead, BeginRead, Seen, Handled
  <2>2. CASE fd # f
    BY <1>4, <1>10, <1>11, <2>2 DEF OnRead, BeginRead, sockVars, epollVars
  <2>3. QED
    BY <2>1, <2>2
<1>12. ASSUME pc \in {"read", "again", "body"}, UNCHANGED <<events, arrived>>, fd # cur,
              conn_at'[fd] = conn_at[fd], interest'[fd] = interest[fd],
              ready \ {cur} \subseteq ready',
              \A c \in Conns \ {conn_at[cur]} :
                 taken'[c] = taken[c] /\ outq'[c] = outq[c] /\ peer'[c] = peer[c]
       PROVE  fd \in Seen'
  <2>1. conn_at[fd] \in Conns \ {conn_at[cur]}
    BY <1>3, <1>12, HandlerKnows DEF Links, Registered
  <2>2. fd \in Seen => fd \in Seen'
    BY <1>12 DEF Seen, Handled, Pending
  <2>3. QED
    BY <1>2, <1>12, <2>1, <2>2, WakeupKept
<1>13. CASE ReadAgain \/ Rearm
  <2>1. CASE ReadAgain
    <3>1. Handled' = Handled
      BY <2>1 DEF ReadAgain, Handled
    <3>2. QED
      BY <1>4, <2>1, <3>1 DEF ReadAgain, sockVars, epollVars, Seen, Pending
  <2>2. CASE Rearm /\ fd = cur
    <3>1. conn_at'[fd] = conn_at[fd] /\ interest'[fd] = "IN"
      BY <1>1, <2>2 DEF Rearm, Register, sockVars
    <3>2. HotIn(Unread(conn_at[fd]), peer[conn_at[fd]])
      BY <2>2, <3>1 DEF Rearm, sockVars, Hot, HotIn, Unread
    <3>3. QED
      BY <2>2, <3>2 DEF Rearm, Register, Seen
  <2>3. CASE Rearm /\ fd # cur
    BY <1>1, <1>12, <2>3 DEF Rearm, Register, sockVars
  <2>4. QED
    BY <1>13, <2>1, <2>2, <2>3
<1>14. CASE ReadCloses
  <2>1. interest' = [interest EXCEPT ![cur] = "none"]
        /\ conn_at' = [conn_at EXCEPT ![cur] = NoConn]
        /\ peer' = [peer EXCEPT ![conn_at[cur]] = "over"]
        /\ ready' = ready \ {cur}
    BY <1>14 DEF ReadCloses, Unregister, CloseFd
  <2>2. fd # cur
    BY <1>1, <2>1 DEF Registered
  <2>3. QED
    BY <1>1, <1>12, <1>14, <2>1, <2>2 DEF ReadCloses
<1>15. ASSUME NEW n \in Nat, ReadPart(n) \/ ReadWhole(n) PROVE fd \in Seen'
  <2>1. /\ pc = "read" /\ UNCHANGED <<conn_at, backlog, peer, arrived, outq, cur, events>>
        /\ taken' = [taken EXCEPT ![conn_at[cur]] = @ + n]
        /\ cur \in Fds /\ conn_at[cur] \in Conns
    BY <1>15, HandlerKnows DEF ReadPart, ReadWhole, ReadGets
  <2>2. CASE fd = cur
    <3>1. CASE ReadPart(n)
      BY <2>1, <2>2, <3>1 DEF ReadPart, Seen, Handled
    <3>2. CASE ReadWhole(n)
      <4>1. Register(cur, "OUT", HotOut(Space(conn_at[cur]), peer[conn_at[cur]]))
        BY <3>2 DEF ReadWhole
      <4>2. interest'[cur] = "OUT"
        BY <1>1, <2>1, <4>1 DEF Register
      <4>3. HotOut(Space(conn_at[cur]), peer[conn_at[cur]])
        BY <2>1, <2>2, <4>2 DEF Hot, HotOut, Space
      <4>4. QED
        BY <2>2, <4>1, <4>3 DEF Register, Seen
    <3>3. QED
      BY <1>15, <3>1, <3>2
  <2>3. CASE fd # cur
    <3>1. interest'[fd] = interest[fd] /\ ready \subseteq ready'
      BY <1>1, <1>15, <2>3 DEF ReadPart, ReadWhole, Register
    <3>2. QED
      BY <1>1, <1>12, <2>1, <2>3, <3>1
  <2>4. QED
    BY <2>2, <2>3
<1>16. ASSUME NEW f \in Fds, WriteHead(f) PROVE fd \in Seen'
  <2>1. CASE fd = f
    BY <1>16, <2>1 DEF WriteHead, Seen, Handled
  <2>2. CASE fd # f
    <3>1. conn_at[f] \in Conns
      BY <1>16, HandlerKnows DEF WriteHead
    <3>2. conn_at[fd] \in Conns \ {conn_at[f]}
      BY <1>3, <1>16, <2>2, <3>1 DEF WriteHead, Links, Registered
    <3>3. outq'[conn_at[fd]] = outq[conn_at[fd]]
      BY <1>1, <1>16, <3>1, <3>2 DEF WriteHead, Send
    <3>4. fd \in Seen => fd \in Seen'
      BY <1>10, <1>16, <2>2 DEF WriteHead
    <3>5. QED
      BY <1>2, <1>16, <3>3, <3>4, WakeupKept DEF WriteHead, epollVars
  <2>3. QED
    BY <2>1, <2>2
<1>17. ASSUME NEW f \in Fds, conn_at[f] \in Conns, WriteFails(f), interest[f] = "OUT"
       PROVE  /\ fd # f
              /\ \A c \in Conns \ {conn_at[f]} : peer'[c] = peer[c]
  <2>1. UNCHANGED <<conn_at, interest, outq>> /\ peer' = ErrorReported(conn_at[f])
        /\ SendFails(conn_at[f])
    BY <1>17 DEF WriteFails, epollVars
  <2>2. CASE peer[conn_at[f]] = "reset"
    BY <1>1, <1>17, <2>1, <2>2 DEF ErrorReported
  <2>3. CASE peer[conn_at[f]] # "reset"
    <3>1. peer' = peer /\ Space(conn_at[f]) = 0 /\ peer[conn_at[f]] \in {"up", "fin"}
      BY <2>1, <2>3 DEF ErrorReported, SendFails
    <3>2. QED
      BY <1>17, <2>1, <3>1 DEF Hot, HotOut, Space
  <2>4. QED
    BY <2>2, <2>3
<1>18. ASSUME NEW f \in Fds, WriteHeadFails(f) PROVE fd \in Seen'
  <2>1. /\ conn_at[f] \in Conns /\ interest[f] = "OUT" /\ WriteFails(f)
        /\ Event(f, "OUT")
    BY <1>18, HandlerKnows DEF WriteHeadFails
  <2>2. fd # f /\ \A c \in Conns \ {conn_at[f]} : peer'[c] = peer[c]
    BY <1>17, <2>1
  <2>3. UNCHANGED <<conn_at, arrived, taken, outq, epollVars>>
    BY <2>1 DEF WriteFails
  <2>4. fd \in Seen => fd \in Seen'
    BY <1>10, <2>1, <2>2, <2>3
  <2>5. conn_at[fd] \in Conns \ {conn_at[f]}
    BY <1>3, <2>1, <2>2, <2>3 DEF Links, Registered
  <2>6. QED
    BY <1>2, <2>2, <2>3, <2>4, <2>5, WakeupKept DEF epollVars
<1>19. CASE WriteBody
  <2>1. /\ pc = "body" /\ cur \in Fds /\ conn_at[cur] \in Conns
        /\ UNCHANGED <<conn_at, backlog, peer, arrived, taken, cur, events>>
        /\ \A c \in Conns \ {conn_at[cur]} : outq'[c] = outq[c]
    BY <1>1, <1>19, HandlerKnows DEF WriteBody, Send
  <2>2. CASE UNCHANGED <<epollVars, pc>>
    <3>1. CASE fd = cur
      BY <2>1, <2>2, <3>1 DEF Seen, Handled
    <3>2. CASE fd # cur
      BY <1>12, <2>1, <2>2, <3>2 DEF epollVars
    <3>3. QED
      BY <3>1, <3>2
  <2>3. CASE Register(cur, "IN", HotIn(Unread(conn_at[cur]), peer[conn_at[cur]]))
    <3>1. CASE fd = cur
      <4>1. interest'[cur] = "IN"
        BY <1>1, <2>1, <2>3 DEF Register
      <4>2. HotIn(Unread(conn_at[cur]), peer[conn_at[cur]])
        BY <2>1, <3>1, <4>1 DEF Hot, HotIn, Unread
      <4>3. QED
        BY <2>3, <3>1, <4>2 DEF Register, Seen
    <3>2. CASE fd # cur
      <4>1. interest'[fd] = interest[fd] /\ ready \subseteq ready'
        BY <1>1, <2>3, <3>2 DEF Register
      <4>2. QED
        BY <1>12, <2>1, <3>2, <4>1
    <3>3. QED
      BY <3>1, <3>2
  <2>4. QED
    BY <1>19, <2>2, <2>3 DEF WriteBody
<1>20. CASE WriteBodyFails
  <2>1. /\ pc = "body" /\ cur \in Fds /\ conn_at[cur] \in Conns /\ interest[cur] = "OUT"
        /\ WriteFails(cur) /\ UNCHANGED <<cur, events>>
    BY <1>20, HandlerKnows DEF WriteBodyFails
  <2>2. fd # cur /\ \A c \in Conns \ {conn_at[cur]} : peer'[c] = peer[c]
    BY <1>17, <2>1
  <2>3. UNCHANGED <<conn_at, arrived, taken, outq, interest, ready>>
    BY <2>1 DEF WriteFails, epollVars
  <2>4. QED
    BY <1>12, <2>1, <2>2, <2>3
<1>21. ~ WriteKills
  BY DEF WriteKills
<1>22. CASE UNCHANGED vars
  <2>1. fd \in Seen => fd \in Seen'
    BY <1>22 DEF vars, epollVars, thread, Seen, Pending, Handled
  <2>2. QED
    BY <1>4, <1>22, <2>1 DEF vars, sockVars, epollVars
<1>23. QED
  BY <1>5, <1>6, <1>8, <1>9, <1>11, <1>13, <1>14, <1>15, <1>16, <1>18, <1>19,
     <1>20, <1>21, <1>22, ReadsAreNatural
     DEF IInv, Core, Next, ServerNext, OnAccept, OnReadStep, OnWriteStep

-----------------------------------------------------------------------------
(***************************************************************************)
(* Owed: requests and replies.                                             *)
(***************************************************************************)
LEMMA OwedStep ==
  ASSUME IInv, [Next]_vars
  PROVE  Owed'
<1>0. Core
  BY DEF IInv
<1> USE <1>0
<1>1. /\ conn_at \in [Fds -> Conns \cup {NoConn}]
      /\ interest \in [Fds -> {"none", "IN", "OUT"}]
      /\ requests \in [Conns -> Seq(RequestRecord)] /\ replies \in [Conns -> ReplyRecord]
  BY DEF IInv, Core, EpollServerTypeOK, SockTypeOK, EpollTypeOK
<1>2. \A f, g \in Fds : conn_at[f] \in Conns /\ conn_at[f] = conn_at[g] => f = g
  BY DEF IInv, Core, Links
<1>3. \A c \in Conns : Len(requests[c]) \in Nat /\ replies[c].whole \in Nat
  BY <1>1 DEF ReplyRecord
<1>4. ASSUME \A c \in Conns : /\ Owes(c)' <=> Owes(c)
                             /\ requests'[c] = requests[c]
                             /\ replies'[c].whole = replies[c].whole
      PROVE  Owed'
  BY <1>4 DEF IInv, Core, Owed
<1>5. ASSUME UNCHANGED <<conn_at, interest, requests, replies>> PROVE Owed'
  BY <1>4, <1>5 DEF Owes
\* A step at one descriptor that is registered for EPOLLOUT neither before
\* nor after it changes nothing of what is owed.
<1>6. ASSUME NEW f \in Fds, interest[f] # "OUT", interest'[f] # "OUT",
             \A g \in Fds \ {f} : conn_at'[g] = conn_at[g] /\ interest'[g] = interest[g],
             UNCHANGED <<requests, replies>>
      PROVE  Owed'
  BY <1>4, <1>6 DEF Owes
<1>7. CASE Others
  BY <1>5, <1>7 DEF Others, EnvNext, PeerConnects, Connect, PeerSends, PeerSend,
                    PeerReads, PeerRead, PeerEnds, PeerLeaves, history
<1>8. CASE Wait
  BY <1>5, <1>8 DEF Wait, EpollWait, sockVars, history
<1>9. CASE Accept
  <2>1. PICK c \in backlog, f \in Fds :
          /\ LowestFree(f)
          /\ conn_at' = [conn_at EXCEPT ![f] = c]
          /\ \/ Register(f, "IN", HotIn(Unread(c), peer[c]))
             \/ UNCHANGED epollVars
    BY <1>9 DEF Accept
  <2>2. interest[f] = "none"
    BY <1>1, <2>1, ConnAssumption DEF LowestFree, IInv, Core, Links, Registered
  <2>3. /\ interest'[f] # "OUT"
        /\ \A g \in Fds \ {f} : conn_at'[g] = conn_at[g] /\ interest'[g] = interest[g]
    BY <1>1, <2>1, <2>2 DEF Register, epollVars
  <2>4. QED
    BY <1>6, <1>9, <2>2, <2>3 DEF Accept, history
<1>10. CASE AcceptFails
  BY <1>5, <1>10 DEF AcceptFails, sockVars, epollVars, history
<1>11. ASSUME NEW f \in Fds, OnRead(f) PROVE Owed'
  BY <1>5, <1>11 DEF OnRead, BeginRead, sockVars, epollVars, history
<1>12. CASE ReadAgain \/ Rearm
  <2>1. CASE ReadAgain
    BY <1>5, <2>1 DEF ReadAgain, sockVars, epollVars, history
  <2>2. CASE Rearm
    <3>1. /\ cur \in Fds /\ interest[cur] = "IN" /\ UNCHANGED conn_at
          /\ interest' = [interest EXCEPT ![cur] = "IN"]
      BY <2>2, HandlerKnows DEF Rearm, Register, sockVars
    <3>2. QED
      BY <1>1, <1>6, <2>2, <3>1 DEF Rearm, history
  <2>3. QED
    BY <1>12, <2>1, <2>2
<1>13. CASE ReadCloses
  <2>1. /\ cur \in Fds /\ interest[cur] = "IN"
        /\ conn_at' = [conn_at EXCEPT ![cur] = NoConn]
        /\ interest' = [interest EXCEPT ![cur] = "none"]
    BY <1>13, HandlerKnows DEF ReadCloses, Unregister, CloseFd
  <2>2. QED
    BY <1>1, <1>6, <1>13, <2>1 DEF ReadCloses, history
<1>14. ASSUME NEW n \in Nat, ReadPart(n) PROVE Owed'
  <2>1. /\ cur \in Fds /\ interest[cur] = "IN" /\ UNCHANGED conn_at
        /\ interest' = [interest EXCEPT ![cur] = "IN"]
    BY <1>14, HandlerKnows DEF ReadPart, ReadGets, Register
  <2>2. QED
    BY <1>1, <1>6, <1>14, <2>1 DEF ReadPart, ReadGets
<1>15. ASSUME NEW n \in Nat, ReadWhole(n) PROVE Owed'
  <2> DEFINE d == conn_at[cur]
  <2>1. /\ cur \in Fds /\ d \in Conns /\ interest[cur] = "IN"
        /\ UNCHANGED <<conn_at, replies, cur>>
        /\ interest' = [interest EXCEPT ![cur] = "OUT"]
    BY <1>15, HandlerKnows DEF ReadWhole, ReadGets, Register
  <2>2. PICK r : requests' = [requests EXCEPT ![d] = Append(requests[d], r)]
    BY <1>15 DEF ReadWhole
  <2>3. ~ Owes(d) /\ Owes(d)'
    BY <1>1, <1>2, <2>1 DEF Owes
  <2>4. \A c \in Conns \ {d} : Owes(c)' <=> Owes(c)
    BY <1>1, <2>1 DEF Owes
  <2>5. Len(requests'[d]) = Len(requests[d]) + 1
    BY <1>1, <2>1, <2>2
  <2>6. \A c \in Conns \ {d} : requests'[c] = requests[c]
    BY <1>1, <2>2
  <2>7. QED
    BY <1>3, <2>1, <2>3, <2>4, <2>5, <2>6 DEF IInv, Core, Owed
<1>16. ASSUME NEW f \in Fds, WriteHead(f) PROVE Owed'
  <2>1. \A c \in Conns : replies'[c].whole = replies[c].whole
    BY <1>1, <1>16 DEF WriteHead, ReplyRecord
  <2>2. QED
    BY <1>4, <1>16, <2>1 DEF WriteHead, epollVars, Owes
<1>17. ASSUME NEW f \in Fds, WriteHeadFails(f) PROVE Owed'
  BY <1>5, <1>17 DEF WriteHeadFails, WriteFails, epollVars
<1>18. CASE WriteBody
  <2>0. PICK d \in Conns : d = conn_at[cur]
    BY <1>18, HandlerKnows DEF WriteBody
  <2>1. /\ cur \in Fds /\ interest[cur] = "OUT"
        /\ UNCHANGED <<conn_at, requests>>
    BY <1>18, HandlerKnows DEF WriteBody
  <2> DEFINE left == Left(Smaller(WRITE_SIZE, Space(d)))
  <2>2. /\ replies'[d].whole = IF left > 0 THEN replies[d].whole
                                           ELSE replies[d].whole + 1
        /\ \A c \in Conns \ {d} : replies'[c] = replies[c]
    BY <1>1, <1>18, <2>0 DEF WriteBody, ReplyRecord
  <2>3. IF left > 0 THEN UNCHANGED epollVars
                    ELSE interest' = [interest EXCEPT ![cur] = "IN"]
    BY <1>18, <2>0 DEF WriteBody, Register
  <2> HIDE DEF left
  <2>4. CASE left > 0
    BY <1>4, <2>1, <2>2, <2>3, <2>4 DEF epollVars, Owes
  <2>5. CASE ~ (left > 0)
    <3>1. Owes(d) /\ ~ Owes(d)'
      BY <1>1, <1>2, <2>0, <2>1, <2>3, <2>5 DEF Owes
    <3>2. \A c \in Conns \ {d} : Owes(c)' <=> Owes(c)
      BY <1>1, <2>0, <2>1, <2>3, <2>5 DEF Owes
    <3>3. QED
      BY <1>3, <2>1, <2>2, <2>5, <3>1, <3>2 DEF IInv, Core, Owed
  <2>6. QED
    BY <2>4, <2>5
<1>19. CASE WriteBodyFails
  <2>1. conn_at[cur] \in Conns
    BY <1>19, HandlerKnows DEF WriteBodyFails
  <2>2. \A c \in Conns : replies'[c].whole = replies[c].whole
    BY <1>1, <1>19, <2>1 DEF WriteBodyFails, ReplyRecord
  <2>3. QED
    BY <1>4, <1>19, <2>2 DEF WriteBodyFails, WriteFails, epollVars, Owes
<1>20. CASE WriteKills
  BY <1>5, <1>20 DEF WriteKills, sockVars, epollVars, history
<1>21. CASE UNCHANGED vars
  BY <1>5, <1>21 DEF vars, sockVars, epollVars, history
<1>22. QED
  BY <1>7, <1>8, <1>9, <1>10, <1>11, <1>12, <1>13, <1>14, <1>15, <1>16, <1>17,
     <1>18, <1>19, <1>20, <1>21, ReadsAreNatural
     DEF IInv, Core, Next, ServerNext, OnAccept, OnReadStep, OnWriteStep

-----------------------------------------------------------------------------
(***************************************************************************)
(* Bodies: what of a reply has gone out.                                   *)
(***************************************************************************)

\* Every step keeps the count of the bytes of a reply: the body written and
\* what is left of it are the reply, and an owed reply ends covered.
LEMMA BodiesStep ==
  ASSUME IInv, [Next]_vars
  PROVE  Bodies'
<1>0. Core
  BY DEF IInv
<1> USE <1>0
<1> USE ReplyAssumption
<1>1. /\ conn_at \in [Fds -> Conns \cup {NoConn}]
      /\ interest \in [Fds -> {"none", "IN", "OUT"}]
      /\ replies \in [Conns -> ReplyRecord] /\ left_len \in Int
  BY DEF IInv, Core, EpollServerTypeOK, SockTypeOK, EpollTypeOK
<1>2. \A f, g \in Fds : conn_at[f] \in Conns /\ conn_at[f] = conn_at[g] => f = g
  BY DEF IInv, Core, Links
\* No reply is being written, no connection stops being owed one, and none
\* that is not owed one has another body.
<1>3. ASSUME pc' # "body",
             \A c \in Conns :
               ~ Owes(c)' => /\ ~ Owes(c)
                            /\ replies'[c].whole = replies[c].whole
                            /\ replies'[c].body = replies[c].body
      PROVE  Bodies'
  BY <1>3 DEF IInv, Core, Bodies, BodyCoversReply
\* The same of a step that changes no reply and no registration.
<1>4. ASSUME UNCHANGED <<conn_at, interest, replies>>,
             pc' # "body" \/ UNCHANGED <<pc, cur, left_len>>
      PROVE  Bodies'
  BY <1>4 DEF IInv, Core, Bodies, BodyCoversReply, Owes
<1>5. ASSUME NEW f \in Fds, interest[f] # "OUT", UNCHANGED replies, pc' # "body",
             \A g \in Fds \ {f} : conn_at'[g] = conn_at[g] /\ interest'[g] = interest[g]
      PROVE  Bodies'
  BY <1>3, <1>5 DEF Owes
<1>6. CASE Others
  BY <1>4, <1>6 DEF Others, EnvNext, PeerConnects, Connect, PeerSends, PeerSend,
                    PeerReads, PeerRead, PeerEnds, PeerLeaves, history, thread
<1>7. CASE Wait
  BY <1>4, <1>7 DEF Wait, EpollWait, sockVars, history
<1>8. CASE Accept
  <2>1. PICK c \in backlog, f \in Fds :
          /\ LowestFree(f)
          /\ conn_at' = [conn_at EXCEPT ![f] = c]
          /\ \/ Register(f, "IN", HotIn(Unread(c), peer[c]))
             \/ UNCHANGED epollVars
    BY <1>8 DEF Accept
  <2>2. interest[f] = "none"
    BY <1>1, <2>1, ConnAssumption DEF LowestFree, IInv, Core, Links, Registered
  <2>3. \A g \in Fds \ {f} : conn_at'[g] = conn_at[g] /\ interest'[g] = interest[g]
    BY <1>1, <2>1 DEF Register, epollVars
  <2>4. QED
    BY <1>5, <1>8, <2>2, <2>3 DEF Accept, Event, history
<1>9. CASE AcceptFails
  BY <1>4, <1>9 DEF AcceptFails, sockVars, epollVars, history
<1>10. ASSUME NEW f \in Fds, OnRead(f) PROVE Bodies'
  BY <1>4, <1>10 DEF OnRead, BeginRead, sockVars, epollVars, history
<1>11. CASE ReadAgain \/ Rearm
  <2>1. cur \in Fds /\ interest[cur] = "IN" /\ UNCHANGED <<conn_at, replies>>
    BY <1>11, HandlerKnows DEF ReadAgain, Rearm, sockVars, history
  <2>2. QED
    BY <1>1, <1>5, <1>11, <2>1 DEF ReadAgain, Rearm, Register, epollVars
<1>12. CASE ReadCloses
  <2>1. cur \in Fds /\ interest[cur] = "IN" /\ UNCHANGED replies
    BY <1>12, HandlerKnows DEF ReadCloses, history
  <2>2. QED
    BY <1>1, <1>5, <1>12, <2>1 DEF ReadCloses, Unregister, CloseFd
<1>13. ASSUME NEW n \in Nat, ReadPart(n) \/ ReadWhole(n) PROVE Bodies'
  <2>1. /\ cur \in Fds /\ interest[cur] = "IN" /\ UNCHANGED <<conn_at, replies>>
        /\ pc' # "body"
    BY <1>13, HandlerKnows DEF ReadPart, ReadWhole, ReadGets
  <2>2. QED
    BY <1>1, <1>5, <1>13, <2>1 DEF ReadPart, ReadWhole, Register
<1>14. ASSUME NEW f \in Fds, WriteHead(f) PROVE Bodies'
  <2>1. PICK d \in Conns : d = conn_at[f]
    BY <1>14, HandlerKnows DEF WriteHead
  <2>2. interest[f] = "OUT" /\ UNCHANGED <<conn_at, interest>>
    BY <1>14, HandlerKnows DEF WriteHead, epollVars
  <2>3. cur' = f /\ left_len' = REPLY_LEN
        /\ replies' = [replies EXCEPT ![d].body = 0,
                                      ![d].torn = @ \/ Space(d) < HEAD_LEN]
    BY <1>14, <2>1 DEF WriteHead
  <2>4. replies'[d].body = 0 /\ \A c \in Conns \ {d} : replies'[c] = replies[c]
    BY <1>1, <2>3 DEF ReplyRecord
  <2>5. Owes(d)' /\ \A c \in Conns : Owes(c)' <=> Owes(c)
    BY <2>1, <2>2 DEF Owes
  <2>6. BodyCoversReply'
    BY <2>4, <2>5 DEF IInv, Core, Bodies, BodyCoversReply
  <2>7. QED
    BY <2>1, <2>2, <2>3, <2>4, <2>6 DEF Bodies
<1>15. ASSUME NEW f \in Fds, WriteHeadFails(f) PROVE Bodies'
  BY <1>4, <1>15 DEF WriteHeadFails, WriteFails, Event, epollVars
<1>16. CASE WriteBody
  <2> DEFINE written == Smaller(WRITE_SIZE, Space(conn_at[cur]))
             left == Left(written)
  <2>1. PICK d \in Conns : d = conn_at[cur] /\ cur \in Fds /\ interest[cur] = "OUT"
    BY <1>16, HandlerKnows DEF WriteBody
  <2>2. written \in 1 .. WRITE_SIZE
    <3>1. Space(d) \in Nat /\ Space(d) > 0
      BY SMTT(20), <1>16, <2>1, QueueAssumption
         DEF WriteBody, SendAccepts, Space, IInv, Core, EpollServerTypeOK, SockTypeOK
    <3>2. QED
      BY <2>1, <3>1, SmallerIsBoth
  <2>3. left = left_len - written /\ left_len > 0 /\ replies[d].body = REPLY_LEN - left_len
    BY <1>16, <2>1 DEF WriteBody, Left, IInv, Core, Bodies
  <2>4. /\ UNCHANGED <<conn_at, cur>> /\ left_len' = left
        /\ replies' = [replies EXCEPT ![d].body = @ + written,
                                      ![d].whole = IF left > 0 THEN @ ELSE @ + 1]
        /\ IF left > 0 THEN UNCHANGED <<epollVars, pc>>
                       ELSE interest' = [interest EXCEPT ![cur] = "IN"] /\ pc' = "loop"
    BY <1>16, <2>1 DEF WriteBody, Register
  <2> HIDE DEF written, left
  <2>5. /\ replies'[d].body = replies[d].body + written
        /\ \A c \in Conns \ {d} : replies'[c] = replies[c]
    BY <1>1, <2>4 DEF ReplyRecord
  <2>6. replies'[d].body = REPLY_LEN - left
    BY <1>1, <2>2, <2>3, <2>5
  <2>7. CASE left > 0
    <3>1. Owes(d)' /\ \A c \in Conns : Owes(c)' <=> Owes(c)
      BY <2>1, <2>4, <2>7 DEF Owes, epollVars
    <3>2. BodyCoversReply'
      BY <2>5, <3>1 DEF IInv, Core, Bodies, BodyCoversReply
    <3>3. QED
      BY <2>1, <2>4, <2>6, <2>7, <3>2 DEF Bodies
  <2>8. CASE ~ (left > 0)
    <3>1. \A c \in Conns \ {d} : Owes(c)' <=> Owes(c)
      BY <1>1, <2>1, <2>4, <2>8 DEF Owes
    <3>2. replies'[d].body \in REPLY_LEN .. REPLY_LEN + WRITE_SIZE - 1
      BY <1>1, <2>2, <2>3, <2>6, <2>8
    <3>3. BodyCoversReply'
      BY <2>5, <3>1, <3>2 DEF IInv, Core, Bodies, BodyCoversReply
    <3>4. QED
      BY <2>4, <2>8, <3>3 DEF Bodies
  <2>9. QED
    BY <2>7, <2>8
<1>17. CASE WriteBodyFails
  <2>1. PICK d \in Conns : d = conn_at[cur]
    BY <1>17, HandlerKnows DEF WriteBodyFails
  <2>2. \A c \in Conns : /\ replies'[c].whole = replies[c].whole
                         /\ replies'[c].body = replies[c].body
    BY <1>1, <1>17, <2>1 DEF WriteBodyFails, ReplyRecord
  <2>3. QED
    BY <1>3, <1>17, <2>2 DEF WriteBodyFails, WriteFails, epollVars, Owes
<1>18. CASE WriteKills
  BY <1>4, <1>18 DEF WriteKills, sockVars, epollVars, history
<1>19. CASE UNCHANGED vars
  BY <1>4, <1>19 DEF vars, sockVars, epollVars, history, thread
<1>20. QED
  BY <1>6, <1>7, <1>8, <1>9, <1>10, <1>11, <1>12, <1>13, <1>14, <1>15, <1>16,
     <1>17, <1>18, <1>19, ReadsAreNatural
     DEF IInv, Core, Next, ServerNext, OnAccept, OnReadStep, OnWriteStep

-----------------------------------------------------------------------------
(***************************************************************************)
(* The invariant, and what follows from it.                                *)
(***************************************************************************)
LEMMA InitIInv == Init => IInv
<1> SUFFICES ASSUME Init PROVE IInv
  OBVIOUS
<1>1. EpollServerTypeOK
  BY TypeInit
<1>2. Links /\ NoLostWakeup
  BY ConnAssumption
     DEF Init, SockInit, EpollInit, Links, NoLostWakeup, Registered
<1>3. Dispatch
  BY DEF Init, Dispatch, EventsFresh, AcceptNeverBlocks, Handled, Pending
<1>4. Buffers
  <2>1. Live = {} /\ BufferBounds /\ heap = 0
    BY DEF Init, Live, BufferBounds, BuffersSized
  <2>2. QED
    BY <2>1, FS_EmptySet DEF Buffers
<1>5. Owed
  <2>1. \A c \in Conns : ~ Owes(c)
    BY DEF Init, EpollInit, Owes
  <2>2. \A c \in Conns : requests[c] = <<>> /\ replies[c].whole = 0
    BY DEF Init
  <2>3. QED
    BY <2>1, <2>2 DEF Owed
<1>6. Bodies
  BY DEF Init, Bodies, BodyCoversReply
<1>7. QED
  BY <1>1, <1>2, <1>3, <1>4, <1>5, <1>6 DEF IInv, Core

\* Every step keeps the inductive invariant.
LEMMA NextIInv == IInv /\ [Next]_vars => IInv'
<1> SUFFICES ASSUME IInv, [Next]_vars PROVE IInv'
  OBVIOUS
<1>1. EpollServerTypeOK' /\ Links' /\ Dispatch'
  BY TypeStep, LinksStep, DispatchStep DEF IInv, Buffers, BufferBounds
<1>2. QED
  BY <1>1, BuffersStep, WakeupStep, OwedStep, BodiesStep DEF IInv, Core

\* The inductive invariant holds in every state the server reaches, whatever
\* the connections, descriptors, streams, sizes and faults.
THEOREM Invariance == Spec => []IInv
  BY InitIInv, NextIInv, PTL DEF Spec

(***************************************************************************)
(* Every variable keeps its type; in particular the count of receive       *)
(* buffers never falls below zero: onread deletes no buffer twice.         *)
(***************************************************************************)
THEOREM TypeCorrect == Spec => []EpollServerTypeOK
<1>1. IInv => EpollServerTypeOK
  BY DEF IInv, Core
<1>2. QED
  BY <1>1, Invariance, PTL

(***************************************************************************)
(* onread never overruns a buffer and never asks read for zero bytes, and  *)
(* strlen always finds a zero byte inside the buffer that adjust_buf is    *)
(* given, whatever the first size of the buffer.                           *)
(***************************************************************************)
THEOREM BuffersBounded == Spec => []BufferBounds
<1>1. IInv => BufferBounds
  BY DEF IInv, Buffers
<1>2. QED
  BY <1>1, Invariance, PTL

(***************************************************************************)
(* No handler of onepoll works on a descriptor that an earlier one of the  *)
(* same batch closed, reused or registered anew.                           *)
(***************************************************************************)
THEOREM EventsAreFresh == Spec => []EventsFresh
<1>1. IInv => EventsFresh
  BY DEF IInv, Core, Dispatch
<1>2. QED
  BY <1>1, Invariance, PTL

(***************************************************************************)
(* The blocking accept of onaccept always finds a connection.              *)
(***************************************************************************)
THEOREM AcceptDoesNotBlock == Spec => []AcceptNeverBlocks
<1>1. IInv => AcceptNeverBlocks
  BY DEF IInv, Core, Dispatch
<1>2. QED
  BY <1>1, Invariance, PTL

(***************************************************************************)
(* Edge triggering loses no wakeup of a connection, since onread returns   *)
(* only after EAGAIN or after an epoll_ctl that looks at the descriptor.   *)
(***************************************************************************)
THEOREM NoWakeupLost == Spec => []NoLostWakeup
<1>1. IInv => NoLostWakeup
  BY DEF IInv, Core
<1>2. QED
  BY <1>1, Invariance, PTL

(***************************************************************************)
(* The loop of onwrite, which counts what each write accepted, leaves no   *)
(* reply until all that its head announced is sent, and sends less than    *)
(* one write more.                                                         *)
(***************************************************************************)
THEOREM BodiesCoverReplies == Spec => []BodyCoversReply
<1>1. IInv => BodyCoversReply
  BY DEF IInv, Core, Bodies
<1>2. QED
  BY <1>1, Invariance, PTL

=============================================================================
