-------------------------- MODULE SocketEpollProofs --------------------------
(***************************************************************************)
(* Proofs about SocketEpollServer, for any number of connections and       *)
(* descriptors and any streams, sizes and faults.                          *)
(*                                                                         *)
(* What the two servers share, the part Core of the invariant of           *)
(* EpollServerProofs, is kept by the steps they share (the lemmas of that  *)
(* module) and by the handlers of this one.  To it are added the count of  *)
(* the buffers, which here is exact, and where the bytes in buffers and    *)
(* requests come from.                                                     *)
(***************************************************************************)
EXTENDS SocketEpollServer, EpollServiceProofs

\* A byte of a connection's stream that was read and is in no request of its own.
Outstanding(b) ==
  b[1] \in Conns /\ b[2] \in Nat /\ Delivered(b[1]) < b[2] /\ b[2] <= taken[b[1]]

\* What the buffer of a descriptor may hold.
Held(fd, b) ==
  \/ Outstanding(b) /\ (b[1] = conn_at[fd] \/ peer[b[1]] = "over")
  \/ Zeroed(b)

\* What the k-th request of a connection may hold.
Asked(c, k, b) == (b[1] = c /\ b[2] > Began(c, k)) \/ Leftover(b) \/ Zeroed(b)

ReadInStream ==
  \A c \in Conns : taken[c] <= arrived[c] /\ arrived[c] <= Len(Stream[c])

EndsRead ==
  \A c \in Conns : \A k \in DOMAIN requests[c] : requests[c][k].upto <= taken[c]

HeldBytes ==
  \A fd \in Fds : recv_msg[fd] # NULL =>
    \A i \in 1 .. used_size[fd] : Held(fd, recv_msg[fd][i])

AskedBytes ==
  \A c \in Conns : \A k \in DOMAIN requests[c] :
    \A i \in 1 .. Len(requests[c][k].text) : Asked(c, k, requests[c][k].text[i])

Origins == ReadInStream /\ EndsRead /\ HeldBytes /\ AskedBytes

InvNN == Core /\ BuffersSized /\ BuffersReleased /\ Origins

-----------------------------------------------------------------------------
(***************************************************************************)
(* The steps of the loop of onread, and those shared with the other server.*)
(***************************************************************************)
OwnRead == \/ AgainNN \/ CloseNN
           \/ \E n \in Nat : PartNN(n) \/ WholeNN(n)

OwnWrite == (\E fd \in Fds : ReplyNN(fd)) \/ WriteBreaks \/ KillsNN

Begins == \E fd \in Fds : OnReadNN(fd)

Shared == \/ WaitForEvents \/ OnAccept \/ Rearm
          \/ WriteBody \/ Others \/ UNCHANGED vars

\* Every step is of one of the four kinds.
LEMMA StepsNN ==
  ASSUME Core, [NextNN]_vars
  PROVE  OwnRead \/ OwnWrite \/ Begins \/ Shared
<1>1. pc = "read" => Unread(conn_at[cur]) \in Int
  BY DEF Core, Dispatch, EventsFresh, Unread, EpollServerTypeOK, SockTypeOK
<1>2. ReadNN => OwnRead \/ Begins \/ Shared
  BY <1>1 DEF ReadNN, OwnRead, Begins, Shared
<1>3. WriteNN => OwnWrite \/ Shared
  BY DEF WriteNN, OwnWrite, Shared
<1>. QED
  BY <1>2, <1>3 DEF NextNN, ServerNN, Shared

\* The shared steps are steps of the other server.
LEMMA SharedAreNext == Shared => [Next]_vars
  BY DEF Shared, WaitForEvents, Next, ServerNext, OnReadStep, OnWriteStep

\* The count of buffers.
LEMMA ExactCount ==
  ASSUME EpollServerTypeOK, BuffersReleased
  PROVE  heap = Cardinality(Live) /\ heap \in Nat /\ Cardinality(Live) <= heap
<1>1. heap = Cardinality(Live) /\ heap \in Nat
  BY DEF BuffersReleased, EpollServerTypeOK
<1>. QED
  BY <1>1

\* A buffer nobody has written yet.
LEMMA UnknownIsBuffer ==
  LET first == [i \in 1 .. INIT_BUF_SIZE |-> Unknown] IN
  first \in Seq(Bytes) /\ Len(first) = INIT_BUF_SIZE
  BY BufferAssumption DEF Bytes

\* What adjust_buf returns is a buffer of the size in the tables; the bytes
\* received are those of the old buffer, or zeros behind a '\0'.
LEMMA AdjustedNNIsBuffer ==
  ASSUME EpollServerTypeOK, Dispatch, BuffersSized, pc = "read"
  PROVE  /\ AdjustedNN(cur) \in Seq(Bytes)
         /\ Len(AdjustedNN(cur)) = Size(cur)
         /\ \A i \in 1 .. used_size[cur] :
              \/ AdjustedNN(cur)[i] = recv_msg[cur][i]
              \/ AdjustedNN(cur)[i] = NulByte /\ ~ BeforeNul(recv_msg[cur], used_size[cur])
<1>1. /\ cur \in Fds /\ recv_msg[cur] \in Seq(Bytes) /\ used_size[cur] \in Nat
      /\ Len(recv_msg[cur]) = total_len[cur] /\ Size(cur) \in Nat
      /\ used_size[cur] < total_len[cur] /\ total_len[cur] <= Size(cur)
      /\ total_len[cur] \in Nat
  BY SizesInRead DEF EpollServerTypeOK, BuffersSized
<1>2. CASE MustGrow(cur)
  <2> DEFINE buf == recv_msg[cur]
             used == used_size[cur]
             byte(i) == IF i <= used /\ BeforeNul(buf, i) THEN buf[i]
                        ELSE IF BeforeNul(buf, used) /\ buf[Len(buf)] = Unknown
                          THEN Unknown
                        ELSE NulByte
  <2>1. \A i \in 1 .. Size(cur) : byte(i) \in Bytes
    BY <1>1, ElementOfSeq DEF Bytes
  <2>2. AdjustedNN(cur) = [i \in 1 .. Size(cur) |-> byte(i)]
    BY <1>2 DEF AdjustedNN, GrownNN
  <2>3. ASSUME NEW i \in 1 .. used
        PROVE  byte(i) = buf[i] \/ (byte(i) = NulByte /\ ~ BeforeNul(buf, used))
    <3>1. BeforeNul(buf, used) => BeforeNul(buf, i)
      BY <1>1 DEF BeforeNul
    <3>. QED
      BY <3>1
  <2> HIDE DEF byte
  <2>4. \A i \in 1 .. used : AdjustedNN(cur)[i] = byte(i)
    BY <1>1, <2>2
  <2>. QED
    BY <1>1, <2>1, <2>2, <2>3, <2>4
<1>3. CASE ~ MustGrow(cur)
  BY <1>1, <1>3 DEF AdjustedNN, Size
<1>. QED
  BY <1>2, <1>3

LEMMA FilledNNIsBuffer ==
  ASSUME EpollServerTypeOK, Dispatch, BuffersSized, pc = "read",
         NEW n \in Nat, n <= Room(cur)
  PROVE  /\ FilledNN(cur, n) \in Seq(Bytes)
         /\ Len(FilledNN(cur, n)) = Size(cur)
         /\ FilledNN(cur, n) # NULL
         /\ \A i \in 1 .. used_size[cur] : FilledNN(cur, n)[i] = AdjustedNN(cur)[i]
         /\ \A i \in 1 .. n : FilledNN(cur, n)[used_size[cur] + i] =
                             <<conn_at[cur], taken[conn_at[cur]] + i>>
  BY AdjustedNNIsBuffer, ReceivedIsBuffer DEF FilledNN

\* A read of n bytes finds them there, and room for them.
LEMMA ReadFits ==
  ASSUME Core, BuffersSized, NEW n \in Nat, ReadGets(n), NEW c \in Conns, c = conn_at[cur]
  PROVE  /\ pc = "read" /\ cur \in Fds /\ n > 0 /\ n <= Room(cur) /\ n <= Unread(c)
         /\ used_size[cur] \in Nat /\ used_size[cur] + n < Size(cur)
         /\ Size(cur) \in Nat /\ Room(cur) \in Nat
         /\ taken[c] \in Nat /\ arrived[c] \in Nat
<1>1. pc = "read" /\ n = Smaller(Unread(c), Room(cur)) /\ n > 0
  BY DEF ReadGets
<1>2. taken[c] \in Nat /\ arrived[c] \in Nat
  BY DEF Core, EpollServerTypeOK, SockTypeOK
<1>3. /\ cur \in Fds /\ used_size[cur] \in Nat /\ Size(cur) \in Nat /\ Room(cur) \in Nat
      /\ used_size[cur] + Room(cur) = Size(cur) - 1
  BY <1>1, SizesInRead DEF Core
<1>4. Unread(c) \in Int
  BY <1>2 DEF Unread
<1>5. n <= Room(cur) /\ n <= Unread(c)
  BY <1>1, <1>3, <1>4, SmallerIsBoth
<1>. QED
  BY <1>1, <1>2, <1>3, <1>5

\* The connection at hand.
LEMMA OwnConnection ==
  ASSUME Core
  PROVE  /\ OwnRead => pc = "read" /\ cur \in Fds /\ conn_at[cur] \in Conns
         /\ pc = "body" => cur \in Fds /\ conn_at[cur] \in Conns
<1>1. OwnRead => pc = "read"
  BY DEF OwnRead, AgainNN, CloseNN, PartNN, WholeNN, ReadGets
<1>. QED
  BY <1>1, HandlerKnows

-----------------------------------------------------------------------------
(***************************************************************************)
(* The rounds of the loop of onread keep the types.                        *)
(***************************************************************************)
LEMMA ReadTypeNN ==
  ASSUME Core, BuffersSized, BuffersReleased, OwnRead
  PROVE  EpollServerTypeOK'
<1>0. PICK c \in Conns : c = conn_at[cur]
  BY OwnConnection
<1>1. /\ pc = "read" /\ cur \in Fds /\ Size(cur) \in Nat /\ EpollServerTypeOK
      /\ AdjustedNN(cur) \in Seq(Bytes) /\ recv_msg[cur] # NULL
  BY OwnConnection, SizesInRead, AdjustedNNIsBuffer DEF Core, BuffersSized
<1>2. CASE AgainNN
  BY <1>1, <1>2
     DEF AgainNN, Adjust, sockVars, epollVars, history, Watched,
         EpollServerTypeOK, SockTypeOK, EpollTypeOK
<1>3. CASE CloseNN
  <2>1. SockTypeOK' /\ EpollTypeOK'
    BY <1>0, <1>1, <1>3 DEF CloseNN, CloseFd, Unregister, PeerStates,
                      EpollServerTypeOK, SockTypeOK, EpollTypeOK
  <2>. QED
    BY <1>1, <1>3, <2>1 DEF CloseNN, Adjust, history, EpollServerTypeOK
<1>4. ASSUME NEW n \in Nat, ReadGets(n)
      PROVE  /\ SockTypeOK' /\ total_len' \in [Fds -> Nat]
             /\ FilledNN(cur, n) \in Seq(Bytes) /\ used_size[cur] + n \in Nat
             /\ replies' \in [Conns -> ReplyRecord] /\ cur' \in Watched
             /\ left_len' \in Int
             /\ events' \subseteq [fd : Watched, ev : {"IN", "OUT"}]
  <2>1. taken[c] + n \in Nat /\ n <= Room(cur) /\ used_size[cur] + n \in Nat
    BY <1>0, <1>4, ReadFits
  <2>2. taken' = [taken EXCEPT ![c] = taken[c] + n]
    BY <1>0, <1>4 DEF ReadGets
  <2>3. FilledNN(cur, n) \in Seq(Bytes)
    BY <1>1, <2>1, FilledNNIsBuffer DEF Core
  <2>4. taken' \in [Conns -> Nat]
    BY <1>1, <2>1, <2>2 DEF EpollServerTypeOK, SockTypeOK
  <2>. QED
    BY <1>1, <1>4, <2>1, <2>3, <2>4 DEF ReadGets, EpollServerTypeOK, SockTypeOK
<1>5. ASSUME NEW n \in Nat, PartNN(n) PROVE EpollServerTypeOK'
  <2>1. ReadGets(n)
    BY <1>5 DEF PartNN
  <2>2. /\ recv_msg' \in [Fds -> Seq(Bytes)] /\ used_size' \in [Fds -> Nat]
        /\ EpollTypeOK'
    BY <1>1, <1>4, <1>5, <2>1
       DEF PartNN, Register, Watched, EpollServerTypeOK, EpollTypeOK
  <2>. QED
    BY <1>1, <1>4, <1>5, <2>1, <2>2 DEF PartNN, EpollServerTypeOK
<1>6. ASSUME NEW n \in Nat, WholeNN(n) PROVE EpollServerTypeOK'
  <2> DEFINE text == SubSeq(FilledNN(cur, n), 1, (used_size[cur] + n) - 2)
             request == [text |-> text, upto |-> taken[c] + n, ahead |-> outq[c] > 0]
  <2>1. ReadGets(n)
    BY <1>6 DEF WholeNN
  <2>2. /\ n <= Room(cur) /\ used_size[cur] \in Nat /\ used_size[cur] + n < Size(cur)
        /\ taken[c] + n \in Nat
    BY <1>0, <2>1, ReadFits
  <2>3. FilledNN(cur, n) \in Seq(Bytes) /\ Len(FilledNN(cur, n)) = Size(cur)
    BY <1>1, <2>2, FilledNNIsBuffer DEF Core
  <2>4. text \in Seq(Bytes)
    <3>1. \A i \in 1 .. (used_size[cur] + n) - 2 : FilledNN(cur, n)[i] \in Bytes
      BY <1>1, <2>2, <2>3, ElementOfSeq
    <3>. QED
      BY <2>2, <3>1, SubSeqProperties
  <2>5. request \in RequestRecord
    BY <2>2, <2>4 DEF RequestRecord
  <2>6. requests' = [requests EXCEPT ![c] = Append(requests[c], request)]
    BY <1>0, <1>6, Zenon DEF WholeNN
  <2> HIDE DEF request
  <2>7. requests[c] \in Seq(RequestRecord)
    BY <1>1 DEF EpollServerTypeOK
  <2>8. Append(requests[c], request) \in Seq(RequestRecord)
    BY <2>5, <2>7, AppendProperties
  <2>9. requests' \in [Conns -> Seq(RequestRecord)]
    BY <1>1, <2>6, <2>8 DEF EpollServerTypeOK
  <2>10. heap - 1 \in Nat
    BY <1>1, LiveStep, ExactCount
  <2>11. recv_msg' \in [Fds -> Seq(Bytes)] /\ EpollTypeOK'
    BY <1>1, <1>6
       DEF WholeNN, NULL, Register, Watched, EpollServerTypeOK, EpollTypeOK
  <2>. QED
    BY <1>1, <1>4, <1>6, <2>1, <2>9, <2>10, <2>11 DEF WholeNN, EpollServerTypeOK
<1>. QED
  BY <1>2, <1>3, <1>5, <1>6 DEF OwnRead

\* The calls of onwrite keep the types.
LEMMA WriteTypeNN ==
  ASSUME Core, OwnWrite
  PROVE  EpollServerTypeOK'
<1>1. EpollServerTypeOK /\ REPLY_LEN \in Int
  BY ReplyAssumption DEF Core
<1>2. ASSUME NEW fd \in Fds, ReplyNN(fd) PROVE EpollServerTypeOK'
  <2>1. conn_at[fd] \in Conns /\ events' \subseteq events
    BY <1>2, HandlerKnows DEF ReplyNN, Event
  <2>2. replies' \in [Conns -> ReplyRecord]
    BY <1>1, <1>2, <2>1 DEF ReplyNN, ReplyRecord, EpollServerTypeOK
  <2>. QED
    BY <1>1, <1>2, <2>1, <2>2
       DEF ReplyNN, sockVars, epollVars, tables, Watched, EpollServerTypeOK,
           SockTypeOK, EpollTypeOK
<1>3. CASE WriteBreaks
  <2>1. PICK c \in Conns : c = conn_at[cur] /\ cur \in Fds
    BY <1>3, OwnConnection DEF WriteBreaks
  <2>2. peer' \in [Conns -> PeerStates]
    BY <1>1, <1>3, <2>1
       DEF WriteBreaks, ErrorReported, PeerStates, EpollServerTypeOK, SockTypeOK
  <2>3. replies' \in [Conns -> ReplyRecord]
    BY <1>1, <1>3, <2>1 DEF WriteBreaks, ReplyRecord, EpollServerTypeOK
  <2>4. EpollTypeOK'
    BY <1>1, <1>3, <2>1 DEF WriteBreaks, Register, Watched, EpollServerTypeOK, EpollTypeOK
  <2>. QED
    BY <1>1, <1>3, <2>2, <2>3, <2>4
       DEF WriteBreaks, tables, EpollServerTypeOK, SockTypeOK
<1>4. CASE KillsNN
  BY <1>1, <1>4 DEF KillsNN, sockVars, epollVars, tables, history, EpollServerTypeOK,
                    SockTypeOK, EpollTypeOK
<1>. QED
  BY <1>2, <1>3, <1>4 DEF OwnWrite

-----------------------------------------------------------------------------
(***************************************************************************)
(* Links and Dispatch.                                                     *)
(***************************************************************************)
LEMMA LinksNN ==
  ASSUME Core, OwnRead \/ OwnWrite
  PROVE  Links'
<1> USE ConnAssumption DEF Links, Registered
<1>1. /\ EpollServerTypeOK /\ Links
      /\ conn_at \in [Fds -> Conns \cup {NoConn}] /\ peer \in [Conns -> PeerStates]
      /\ backlog \subseteq Conns /\ interest \in [Fds -> {"none", "IN", "OUT"}]
  BY DEF Core, EpollServerTypeOK, SockTypeOK, EpollTypeOK
<1>2. CASE UNCHANGED <<conn_at, backlog, peer, interest>>
  BY <1>1, <1>2
<1>3. ASSUME NEW fd \in Fds, conn_at[fd] \in Conns, NEW ev \in {"IN", "OUT"},
             interest' = [interest EXCEPT ![fd] = ev], UNCHANGED <<conn_at, backlog>>,
             peer' = peer \/ (SendFails(conn_at[fd]) /\ peer' = ErrorReported(conn_at[fd]))
      PROVE  Links'
  <2>1. \A c \in Conns : peer[c] \notin {"none", "over"} => peer'[c] \notin {"none", "over"}
    BY <1>1, <1>3 DEF ErrorReported
  <2>. QED
    BY <1>1, <1>3, <2>1
<1>4. CASE AgainNN
  BY <1>2, <1>4 DEF AgainNN, sockVars, epollVars
<1>5. CASE CloseNN
  <2>1. cur \in Fds /\ conn_at[cur] \in Conns
    BY <1>5, HandlerKnows DEF CloseNN
  <2>2. \A f \in Fds : conn_at[f] = conn_at[cur] => f = cur
    BY <1>1, <2>1
  <2>3. /\ conn_at' = [conn_at EXCEPT ![cur] = NoConn]
        /\ peer' = [peer EXCEPT ![conn_at[cur]] = "over"]
        /\ interest' = [interest EXCEPT ![cur] = "none"]
        /\ UNCHANGED backlog
    BY <1>5 DEF CloseNN, CloseFd, Unregister
  <2>4. conn_at[cur] \notin backlog
    BY <1>1, <2>1
  <2>. QED
    BY <1>1, <2>1, <2>2, <2>3, <2>4
<1>6. ASSUME NEW n \in Nat, PartNN(n) \/ WholeNN(n) PROVE Links'
  BY <1>3, <1>6, HandlerKnows DEF PartNN, WholeNN, ReadGets, Register
<1>7. ASSUME NEW fd \in Fds, ReplyNN(fd) PROVE Links'
  BY <1>2, <1>7 DEF ReplyNN, sockVars, epollVars
<1>8. CASE WriteBreaks
  BY <1>3, <1>8, HandlerKnows DEF WriteBreaks, Register
<1>9. CASE KillsNN
  BY <1>2, <1>9 DEF KillsNN, sockVars, epollVars
<1>. QED
  BY <1>4, <1>5, <1>6, <1>7, <1>8, <1>9 DEF OwnRead, OwnWrite

LEMMA DispatchNN ==
  ASSUME Core, OwnRead \/ OwnWrite
  PROVE  Dispatch'
<1>1. \A fd \in Fds : \A ev, hot : Register(fd, ev, hot) =>
        /\ interest'[fd] = ev
        /\ \A f \in Fds \ {fd} : interest'[f] = interest[f]
  BY DEF Register, Core, EpollServerTypeOK, EpollTypeOK
<1>2. CASE AgainNN
  BY <1>2, DispatchRound DEF AgainNN, sockVars, epollVars
<1>3. CASE CloseNN
  <2>1. \A f \in Fds \ {cur} : conn_at'[f] = conn_at[f] /\ interest'[f] = interest[f]
    BY <1>3 DEF CloseNN, CloseFd, Unregister, Core, EpollServerTypeOK, SockTypeOK,
                EpollTypeOK
  <2>. QED
    BY <1>3, <2>1, DispatchRound DEF CloseNN
<1>4. ASSUME NEW n \in Nat, PartNN(n) \/ WholeNN(n) PROVE Dispatch'
  BY <1>1, <1>4, HandlerKnows, DispatchRound DEF PartNN, WholeNN, ReadGets
<1>5. ASSUME NEW fd \in Fds, ReplyNN(fd) PROVE Dispatch'
  BY <1>5, DispatchTaken DEF ReplyNN, sockVars, epollVars
<1>6. CASE WriteBreaks
  BY <1>1, <1>6, HandlerKnows, DispatchRound DEF WriteBreaks
<1>7. CASE KillsNN
  BY <1>7, DispatchRound DEF KillsNN, sockVars, epollVars
<1>. QED
  BY <1>2, <1>3, <1>4, <1>5, <1>6, <1>7 DEF OwnRead, OwnWrite

\* Every step keeps what the two servers share.
LEMMA CoreNN ==
  ASSUME Core, BuffersSized, BuffersReleased, [NextNN]_vars
  PROVE  Core'
<1>1. CASE Shared
  <2>1. [Next]_vars /\ Cardinality(Live) <= heap
    BY <1>1, SharedAreNext, ExactCount DEF Core
  <2>. QED
    BY <2>1, TypeStep, LinksStep, DispatchStep DEF Core
<1>2. CASE OwnRead \/ OwnWrite
  BY <1>2, ReadTypeNN, WriteTypeNN, LinksNN, DispatchNN DEF Core
<1>3. ASSUME NEW fd \in Fds, OnReadNN(fd) PROVE Core'
  <2>1. EpollServerTypeOK'
    BY <1>3, BeginType, UnknownIsBuffer DEF OnReadNN, Core
  <2>2. UNCHANGED <<conn_at, interest, backlog, peer>> /\ Event(fd, "IN")
        /\ cur' = fd /\ pc' = "read"
    BY <1>3 DEF OnReadNN, BeginRead, sockVars, epollVars
  <2>3. Links'
    BY <2>2 DEF Core, Links, Registered
  <2>4. Dispatch'
    BY <2>2, DispatchTaken
  <2>. QED
    BY <2>1, <2>3, <2>4 DEF Core
<1>. QED
  BY <1>1, <1>2, <1>3, StepsNN DEF Begins

-----------------------------------------------------------------------------
(***************************************************************************)
(* The buffers: adjust_buf deletes the one it replaces, onread the one     *)
(* whose request is complete, and a close none.                            *)
(***************************************************************************)
LEMMA CountStep ==
  ASSUME EpollServerTypeOK, NEW fd \in Fds
  PROVE  /\ recv_msg[fd] = NULL => Cardinality(Live \cup {fd}) = Cardinality(Live) + 1
         /\ recv_msg[fd] # NULL => Cardinality(Live \ {fd}) = Cardinality(Live) - 1
<1>1. IsFiniteSet(Fds)
  BY FdAssumption, FS_Interval DEF Fds
<1>2. Live \in SUBSET Fds /\ (fd \in Live <=> recv_msg[fd] # NULL)
  BY DEF Live
<1>3. IsFiniteSet(Live)
  BY <1>1, <1>2, FS_Subset
<1>. QED
  BY <1>2, <1>3, FS_AddElement, FS_RemoveElement

LEMMA BuffersNN ==
  ASSUME Core, Core', BuffersSized, BuffersReleased, [NextNN]_vars
  PROVE  BuffersSized' /\ BuffersReleased'
<1>1. /\ EpollServerTypeOK /\ heap = Cardinality(Live) /\ heap \in Nat
      /\ \A fd \in Fds : Sized(fd)
      /\ recv_msg \in [Fds -> Seq(Bytes)] /\ total_len \in [Fds -> Nat]
      /\ used_size \in [Fds -> Nat]
  BY ExactCount DEF Core, EpollServerTypeOK, BuffersSized, Sized
<1>2. Live \subseteq Fds /\ \A fd \in Fds : fd \in Live <=> recv_msg[fd] # NULL
  BY DEF Live
<1>3. heap' = Cardinality(Live') => BuffersReleased'
  BY DEF BuffersReleased, Live
<1>4. CASE Shared
  <2>1. UNCHANGED <<recv_msg, total_len, used_size, heap>>
    BY <1>4 DEF Shared, WaitForEvents, Wait, OnAccept, Accept, AcceptFails, Rearm,
                WriteBody, Others, vars, tables
  <2>2. Live' = Live
    BY <2>1 DEF Live
  <2>3. pc' = "read" => UNCHANGED <<pc, cur>>
    BY <1>4 DEF Shared, WaitForEvents, Wait, OnAccept, Accept, AcceptFails, Rearm, Event,
                WriteBody, Others, vars, thread
  <2>4. pc' = "read" => cur' \in Fds /\ recv_msg'[cur'] # NULL
    BY <2>1, <2>3, SizesInRead DEF Core, BuffersSized
  <2>. QED
    BY <1>1, <1>3, <2>1, <2>2, <2>4, BoundsFromSizes DEF Core, Sized
<1>41. ASSUME NEW fd \in Fds, OnReadNN(fd) PROVE BuffersSized' /\ BuffersReleased'
  <2> DEFINE first == [i \in 1 .. INIT_BUF_SIZE |-> Unknown]
  <2>1. first \in Seq(Bytes) /\ Len(first) = INIT_BUF_SIZE /\ BeginRead(fd, first)
    BY <1>41, UnknownIsBuffer DEF OnReadNN
  <2> HIDE DEF first
  <2>2. /\ BuffersSized'
        /\ recv_msg[fd] # NULL => heap' = heap /\ Live' = Live
        /\ recv_msg[fd] = NULL => heap' = heap + 1 /\ Live' = Live \cup {fd}
    BY <2>1, BeginSized DEF Core
  <2>3. heap' = Cardinality(Live')
    BY <1>1, <2>2, CountStep
  <2>. QED
    BY <1>3, <2>2, <2>3
<1>5. ASSUME NEW buf, buf # NULL, Len(buf) = Size(cur), NEW n \in Nat, pc = "read",
             n <= Room(cur), UNCHANGED <<heap, cur>>,
             recv_msg' = [recv_msg EXCEPT ![cur] = buf],
             total_len' = [total_len EXCEPT ![cur] = Size(cur)],
             used_size' = [used_size EXCEPT ![cur] = used_size[cur] + n]
      PROVE  BuffersSized' /\ BuffersReleased'
  <2>1. /\ cur \in Fds /\ recv_msg[cur] # NULL /\ used_size[cur] \in Nat
        /\ Size(cur) \in Nat /\ used_size[cur] + n < Size(cur)
    BY <1>1, <1>5, SizesInRead DEF BuffersSized, Core
  <2>2. \A f \in Fds : Sized(f)'
    BY <1>1, <1>5, <2>1 DEF Sized
  <2>3. Live' = Live
    BY <1>1, <1>2, <1>5, <2>1 DEF Live
  <2>4. recv_msg'[cur'] # NULL /\ cur' \in Fds
    BY <1>1, <1>5, <2>1
  <2>. QED
    BY <1>1, <1>3, <1>5, <2>2, <2>3, <2>4, BoundsFromSizes DEF Core
<1>6. CASE AgainNN \/ CloseNN
  <2>1. pc = "read" /\ cur \in Fds
    BY <1>6, OwnConnection DEF OwnRead
  <2>2. /\ AdjustedNN(cur) # NULL /\ Len(AdjustedNN(cur)) = Size(cur)
        /\ Room(cur) \in Nat /\ used_size[cur] \in Nat
    BY <2>1, SizesInRead, AdjustedNNIsBuffer DEF NULL, Core
  <2>3. used_size' = [used_size EXCEPT ![cur] = used_size[cur] + 0]
    <3>1. UNCHANGED used_size
      BY <1>6 DEF AgainNN, CloseNN, Adjust
    <3>2. used_size[cur] + 0 = used_size[cur]
      BY <2>2
    <3>. QED
      BY <1>1, <3>1, <3>2
  <2>4. /\ recv_msg' = [recv_msg EXCEPT ![cur] = AdjustedNN(cur)]
        /\ total_len' = [total_len EXCEPT ![cur] = Size(cur)]
        /\ UNCHANGED <<heap, cur>>
    BY <1>6 DEF AgainNN, CloseNN, Adjust
  <2>5. 0 \in Nat /\ 0 <= Room(cur)
    BY <2>2
  <2>. QED
    BY <1>5, <2>1, <2>2, <2>3, <2>4, <2>5
<1>7. ASSUME NEW n \in Nat, PartNN(n) PROVE BuffersSized' /\ BuffersReleased'
  <2>1. PICK c \in Conns : c = conn_at[cur]
    BY <1>7, OwnConnection DEF OwnRead
  <2>2. pc = "read" /\ cur \in Fds /\ n <= Room(cur)
    BY <1>7, <2>1, ReadFits DEF PartNN
  <2>3. FilledNN(cur, n) # NULL /\ Len(FilledNN(cur, n)) = Size(cur)
    BY <2>2, FilledNNIsBuffer DEF Core
  <2>. QED
    BY <1>5, <1>7, <2>2, <2>3 DEF PartNN, ReadGets
<1>8. ASSUME NEW n \in Nat, WholeNN(n) PROVE BuffersSized' /\ BuffersReleased'
  <2>1. cur \in Fds /\ recv_msg[cur] # NULL
    BY <1>8, OwnConnection DEF OwnRead, WholeNN, ReadGets, BuffersSized
  <2>2. /\ recv_msg' = [recv_msg EXCEPT ![cur] = NULL] /\ heap' = heap - 1
        /\ total_len' = [total_len EXCEPT ![cur] = Size(cur)] /\ UNCHANGED used_size
        /\ pc' = "loop"
    BY <1>8 DEF WholeNN, ReadGets
  <2>3. \A f \in Fds : Sized(f)'
    BY <1>1, <2>1, <2>2 DEF Sized
  <2>4. Live' = Live \ {cur}
    BY <1>1, <1>2, <2>1, <2>2 DEF Live
  <2>. QED
    BY <1>1, <1>3, <2>1, <2>2, <2>3, <2>4, CountStep, BoundsFromSizes DEF Core
<1>9. CASE OwnWrite
  <2>1. UNCHANGED tables /\ pc' # "read"
    BY <1>9 DEF OwnWrite, ReplyNN, WriteBreaks, KillsNN
  <2>2. UNCHANGED <<recv_msg, total_len, used_size, heap>> /\ Live' = Live
    BY <2>1 DEF tables, Live
  <2>. QED
    BY <1>1, <1>3, <2>1, <2>2, BoundsFromSizes DEF Core, Sized
<1>. QED
  BY <1>4, <1>41, <1>6, <1>7, <1>8, <1>9, StepsNN DEF OwnRead, Begins

-----------------------------------------------------------------------------
(***************************************************************************)
(* Where bytes come from.                                                  *)
(***************************************************************************)
\* The types the proofs below need.
LEMMA CoreTypes ==
  ASSUME Core
  PROVE  /\ conn_at \in [Fds -> Conns \cup {NoConn}] /\ peer \in [Conns -> PeerStates]
         /\ arrived \in [Conns -> Nat] /\ taken \in [Conns -> Nat]
         /\ recv_msg \in [Fds -> Seq(Bytes)] /\ used_size \in [Fds -> Nat]
         /\ requests \in [Conns -> Seq(RequestRecord)]
         /\ \A c \in Conns : Stream[c] \in Seq(Chars) /\ Len(Stream[c]) \in Nat
         /\ \A f, g \in Fds : conn_at[f] = conn_at[g] /\ conn_at[f] \in Conns => f = g
         /\ \A fd \in Fds : conn_at[fd] \in Conns => peer[conn_at[fd]] # "over"
BY StreamAssumption DEF Core, EpollServerTypeOK, SockTypeOK, Links

\* A request begins within what was read.
LEMMA DeliveredRead ==
  ASSUME Core, EndsRead, NEW c \in Conns
  PROVE  Delivered(c) \in Nat /\ Delivered(c) <= taken[c] /\ taken[c] \in Nat
<1>1. requests[c] \in Seq(RequestRecord) /\ taken[c] \in Nat
  BY CoreTypes
<1>2. PICK m \in Nat : m = Len(requests[c])
  BY <1>1
<1>3. CASE m = 0
  BY <1>1, <1>2, <1>3 DEF Delivered, Began
<1>4. CASE m # 0
  <2>1. m \in DOMAIN requests[c] /\ m + 1 # 1 /\ (m + 1) - 1 = m
    BY <1>1, <1>2, <1>4
  <2>2. Delivered(c) = requests[c][m].upto
    BY <1>2, <2>1 DEF Delivered, Began
  <2>3. requests[c][m] \in RequestRecord
    BY <1>1, <2>1, ElementOfSeq
  <2>4. requests[c][m].upto \in Nat
    BY <2>3 DEF RequestRecord
  <2>. QED
    BY <1>1, <2>1, <2>2, <2>4 DEF EndsRead
<1>. QED
  BY <1>3, <1>4

\* A held byte stays one while its connection's requests stay and reads go on.
LEMMA HeldStays ==
  ASSUME NEW fd \in Fds, NEW b, Held(fd, b),
         taken \in [Conns -> Nat], taken' \in [Conns -> Nat],
         \A d \in Conns : peer[d] = "over" => peer'[d] = "over",
         \A d \in Conns : taken[d] <= taken'[d],
         \/ conn_at'[fd] = conn_at[fd] \/ conn_at[fd] \notin Conns
         \/ peer'[conn_at[fd]] = "over",
         b[1] \in Conns => requests'[b[1]] = requests[b[1]]
  PROVE  Held(fd, b)'
<1>1. CASE Zeroed(b)
  BY <1>1 DEF Held, Zeroed
<1>2. CASE Outstanding(b) /\ (b[1] = conn_at[fd] \/ peer[b[1]] = "over")
  <2>1. b[1] \in Conns /\ b[2] \in Nat /\ Delivered(b[1]) < b[2] /\ b[2] <= taken[b[1]]
    BY <1>2 DEF Outstanding
  <2>2. PICK d \in Conns, i \in Nat : d = b[1] /\ i = b[2]
    BY <2>1
  <2>3. Delivered(d)' = Delivered(d)
    BY <2>2 DEF Delivered, Began
  <2>4. taken[d] \in Nat /\ taken'[d] \in Nat /\ taken[d] <= taken'[d]
    OBVIOUS
  <2>5. i <= taken'[d]
    BY <2>1, <2>2, <2>4
  <2>6. Outstanding(b)'
    BY <2>1, <2>2, <2>3, <2>5 DEF Outstanding
  <2>7. (b[1] = conn_at[fd] \/ peer[b[1]] = "over")'
    BY <1>2, <2>1
  <2>. QED
    BY <2>6, <2>7 DEF Held
<1>. QED
  BY <1>1, <1>2 DEF Held

\* What a request was asked with stays as it is.
LEMMA AskedStays ==
  ASSUME NEW c \in Conns, NEW k, NEW b, Asked(c, k, b), Began(c, k)' = Began(c, k),
         \A d \in Conns : peer[d] = "over" => peer'[d] = "over" /\ requests'[d] = requests[d]
  PROVE  Asked(c, k, b)'
<1>1. CASE b[1] = c /\ b[2] > Began(c, k)
  BY <1>1 DEF Asked
<1>2. CASE Leftover(b)
  <2>1. PICK d \in Conns : d = b[1]
    BY <1>2 DEF Leftover
  <2>2. peer[d] = "over" /\ b[2] > Delivered(d)
    BY <1>2, <2>1 DEF Leftover
  <2>3. Delivered(d)' = Delivered(d)
    BY <2>2 DEF Delivered, Began
  <2>. QED
    BY <2>1, <2>2, <2>3 DEF Asked, Leftover
<1>3. CASE Zeroed(b)
  BY <1>3 DEF Asked, Zeroed
<1>. QED
  BY <1>1, <1>2, <1>3 DEF Asked

\* A held byte that reads as '\0' shows that some stream has one.
LEMMA NulIsSent ==
  ASSUME Core, EndsRead, ReadInStream, NEW fd \in Fds, NEW b, Held(fd, b), CharOf(b) = "0"
  PROVE  \E c \in Conns : ~ NulFree(c)
<1>1. CASE Zeroed(b)
  BY <1>1 DEF Zeroed
<1>2. CASE Outstanding(b)
  <2>1. PICK c \in Conns, i \in Nat :
          c = b[1] /\ i = b[2] /\ Delivered(c) < i /\ i <= taken[c]
    BY <1>2 DEF Outstanding
  <2>2. b # NulByte
    BY <2>1, ConnAssumption DEF NulByte
  <2>3. Stream[c][i] = "0"
    BY <2>1, <2>2 DEF CharOf
  <2>4. /\ taken[c] <= arrived[c] /\ arrived[c] <= Len(Stream[c])
        /\ arrived[c] \in Nat /\ Len(Stream[c]) \in Nat
        /\ DOMAIN Stream[c] = 1 .. Len(Stream[c])
    BY CoreTypes DEF ReadInStream
  <2>5. i \in DOMAIN Stream[c]
    BY <2>1, <2>4, DeliveredRead
  <2>. QED
    BY <2>3, <2>5 DEF NulFree
<1>. QED
  BY <1>1, <1>2 DEF Held

\* adjust_buf copies held bytes, or leaves zeros behind a '\0'.
LEMMA AdjustedHeld ==
  ASSUME Core, BuffersSized, Origins, pc = "read", NEW i \in 1 .. used_size[cur]
  PROVE  Held(cur, AdjustedNN(cur)[i])
<1>1. cur \in Fds /\ recv_msg[cur] # NULL
  BY SizesInRead DEF BuffersSized, Core
<1>2. \A j \in 1 .. used_size[cur] : Held(cur, recv_msg[cur][j])
  BY <1>1 DEF Origins, HeldBytes
<1>3. ASSUME ~ BeforeNul(recv_msg[cur], used_size[cur]) PROVE Zeroed(NulByte)
  <2>1. PICK j \in 1 .. used_size[cur] : CharOf(recv_msg[cur][j]) = "0"
    BY <1>3 DEF BeforeNul
  <2>2. Held(cur, recv_msg[cur][j])
    BY <1>2
  <2>. QED
    BY <1>1, <2>1, <2>2, NulIsSent DEF Zeroed, Origins
<1>4. \/ AdjustedNN(cur)[i] = recv_msg[cur][i]
      \/ AdjustedNN(cur)[i] = NulByte /\ ~ BeforeNul(recv_msg[cur], used_size[cur])
  BY AdjustedNNIsBuffer DEF Core
<1>. QED
  BY <1>2, <1>3, <1>4 DEF Held

\* A read adds the next bytes of the connection to those held.
LEMMA FilledFrom ==
  ASSUME Core, BuffersSized, Origins, NEW n \in Nat, ReadGets(n),
         NEW c \in Conns, c = conn_at[cur], NEW i \in 1 .. used_size[cur] + n
  PROVE  \/ Held(cur, FilledNN(cur, n)[i])
         \/ \E k \in 1 .. n : FilledNN(cur, n)[i] = <<c, taken[c] + k>>
<1>1. pc = "read" /\ n <= Room(cur) /\ used_size[cur] \in Nat
  BY ReadFits
<1>2. /\ \A j \in 1 .. used_size[cur] : FilledNN(cur, n)[j] = AdjustedNN(cur)[j]
      /\ \A j \in 1 .. n : FilledNN(cur, n)[used_size[cur] + j] = <<c, taken[c] + j>>
  BY <1>1, FilledNNIsBuffer DEF Core
<1>3. CASE i \in 1 .. used_size[cur]
  BY <1>1, <1>2, <1>3, AdjustedHeld
<1>4. CASE i \notin 1 .. used_size[cur]
  <2>1. i - used_size[cur] \in 1 .. n /\ used_size[cur] + (i - used_size[cur]) = i
    BY <1>1, <1>4
  <2>. QED
    BY <1>2, <2>1
<1>. QED
  BY <1>3, <1>4

-----------------------------------------------------------------------------
(***************************************************************************)
(* Every step keeps where bytes come from.                                 *)
(***************************************************************************)
\* What a step without a new request has to show.
LEMMA OriginsKept ==
  ASSUME Core, Core', Origins, UNCHANGED requests, ReadInStream', HeldBytes',
         \A d \in Conns : peer[d] = "over" => peer'[d] = "over",
         \A d \in Conns : taken[d] <= taken'[d]
  PROVE  Origins'
<1>1. EndsRead'
  <2> SUFFICES ASSUME NEW c \in Conns, NEW k \in DOMAIN requests[c]
               PROVE  requests[c][k].upto <= taken'[c]
    BY DEF EndsRead
  <2>1. requests[c] \in Seq(RequestRecord) /\ taken[c] \in Nat /\ taken'[c] \in Nat
    BY CoreTypes DEF Core, EpollServerTypeOK, SockTypeOK
  <2>2. requests[c][k] \in RequestRecord
    BY <2>1, ElementOfSeq
  <2>3. requests[c][k].upto \in Nat /\ requests[c][k].upto <= taken[c]
    BY <2>2 DEF RequestRecord, Origins, EndsRead
  <2>. QED
    BY <2>1, <2>3
<1>2. AskedBytes'
  <2>1. \A c \in Conns : \A k \in DOMAIN requests[c] : Began(c, k)' = Began(c, k)
    BY DEF Began
  <2>. QED
    BY <2>1, AskedStays DEF Origins, AskedBytes
<1>. QED
  BY <1>1, <1>2 DEF Origins

\* A step that leaves the buffers alone keeps what they hold.
LEMMA HeldKept ==
  ASSUME Core, Core', Origins, UNCHANGED <<recv_msg, used_size, requests>>,
         \A d \in Conns : peer[d] = "over" => peer'[d] = "over",
         \A d \in Conns : taken[d] <= taken'[d],
         \A fd \in Fds : conn_at[fd] \in Conns => conn_at'[fd] = conn_at[fd]
  PROVE  HeldBytes'
<1>1. taken \in [Conns -> Nat] /\ taken' \in [Conns -> Nat]
  BY CoreTypes DEF Core, EpollServerTypeOK, SockTypeOK
<1>. QED
  BY <1>1, HeldStays DEF Origins, HeldBytes

\* The steps that touch neither buffers nor requests nor what was read.
LEMMA OriginsIdle ==
  ASSUME Core, Core', Origins,
         \/ Others \/ OwnWrite \/ UNCHANGED vars \/ WaitForEvents \/ OnAccept
         \/ Rearm \/ WriteBody
  PROVE  Origins'
<1>1. /\ conn_at \in [Fds -> Conns \cup {NoConn}] /\ peer \in [Conns -> PeerStates]
      /\ arrived \in [Conns -> Nat] /\ taken \in [Conns -> Nat]
      /\ ReadInStream /\ \A d \in Conns : Len(Stream[d]) \in Nat
  BY CoreTypes DEF Origins
<1>2. UNCHANGED <<recv_msg, used_size, requests, taken>>
  BY DEF Others, EnvNext, PeerConnects, Connect, PeerSends, PeerSend, PeerReads, PeerRead,
         PeerEnds, PeerLeaves, OwnWrite, ReplyNN, WriteBreaks, KillsNN, vars,
         WaitForEvents, Wait, OnAccept, Accept, AcceptFails, Rearm, WriteBody,
         sockVars, tables, history
<1>3. \A fd \in Fds : conn_at[fd] \in Conns => conn_at'[fd] = conn_at[fd]
  <2>1. CASE Accept
    BY <1>1, <2>1, ConnAssumption DEF Accept, LowestFree
  <2>2. CASE ~ Accept
    BY <2>2
       DEF Others, EnvNext, PeerConnects, Connect, PeerSends, PeerSend, PeerReads, PeerRead,
           PeerEnds, PeerLeaves, OwnWrite, ReplyNN, WriteBreaks, KillsNN, vars,
           WaitForEvents, Wait, OnAccept, AcceptFails, Rearm, WriteBody, sockVars
  <2>. QED
    BY <2>1, <2>2
<1>4. \A d \in Conns : peer[d] = "over" => peer'[d] = "over"
  <2>1. CASE Others
    BY <1>1, <2>1
       DEF Others, EnvNext, PeerConnects, Connect, PeerSends, PeerSend, PeerReads, PeerRead,
           PeerEnds, PeerLeaves
  <2>2. CASE WriteBreaks
    BY <1>1, <2>2 DEF WriteBreaks, ErrorReported
  <2>3. CASE ~ Others /\ ~ WriteBreaks
    BY <2>3 DEF OwnWrite, ReplyNN, KillsNN, vars, WaitForEvents, Wait, OnAccept, Accept,
                AcceptFails, Rearm, WriteBody, sockVars
  <2>. QED
    BY <2>1, <2>2, <2>3
<1>5. ReadInStream'
  <2>1. CASE UNCHANGED arrived
    BY <1>1, <1>2, <2>1 DEF ReadInStream
  <2>2. ASSUME NEW c \in Conns, PeerSends(c) PROVE ReadInStream'
    <3>1. PICK n \in 1 .. Len(Stream[c]) - arrived[c] :
            arrived' = [arrived EXCEPT ![c] = arrived[c] + n]
      BY <2>2 DEF PeerSends, PeerSend
    <3>2. arrived[c] \in Nat /\ taken[c] \in Nat /\ Len(Stream[c]) \in Nat
          /\ taken[c] <= arrived[c]
      BY <1>1 DEF ReadInStream
    <3>3. taken[c] <= arrived[c] + n /\ arrived[c] + n <= Len(Stream[c])
      BY <3>2
    <3>. QED
      BY <1>1, <1>2, <3>1, <3>3 DEF ReadInStream
  <2>3. UNCHANGED arrived \/ \E c \in Conns : PeerSends(c)
    BY DEF Others, EnvNext, PeerConnects, Connect, PeerReads, PeerRead,
           PeerEnds, PeerLeaves, OwnWrite, ReplyNN, WriteBreaks, KillsNN, vars,
           WaitForEvents, Wait, OnAccept, Accept, AcceptFails, Rearm, WriteBody, sockVars
  <2>. QED
    BY <2>1, <2>2, <2>3
<1>6. \A d \in Conns : taken[d] <= taken'[d]
  BY <1>1, <1>2
<1>. QED
  BY <1>2, <1>3, <1>4, <1>5, <1>6, HeldKept, OriginsKept

\* A new buffer holds nothing yet.
LEMMA OriginsOnRead ==
  ASSUME Core, Core', Origins, NEW fd \in Fds, OnReadNN(fd)
  PROVE  Origins'
<1>1. /\ recv_msg \in [Fds -> Seq(Bytes)] /\ used_size \in [Fds -> Nat]
      /\ taken \in [Conns -> Nat]
  BY CoreTypes
<1>2. UNCHANGED <<conn_at, peer, arrived, taken, requests>>
  BY DEF OnReadNN, BeginRead, sockVars, history
<1>3. \A f \in Fds : recv_msg'[f] # NULL =>
        \/ used_size'[f] = 0
        \/ recv_msg[f] # NULL /\ recv_msg'[f] = recv_msg[f] /\ used_size'[f] = used_size[f]
  BY <1>1 DEF OnReadNN, BeginRead
<1>4. \A f \in Fds : \A b : Held(f, b)' <=> Held(f, b)
  BY <1>2 DEF Held, Outstanding, Delivered, Began, Zeroed
<1>5. HeldBytes'
  BY <1>3, <1>4 DEF Origins, HeldBytes
<1>6. ReadInStream' /\ \A d \in Conns : taken[d] <= taken'[d]
  BY <1>1, <1>2 DEF Origins, ReadInStream
<1>. QED
  BY <1>2, <1>5, <1>6, OriginsKept

\* A read that finds nothing leaves what the buffer holds, also when it finds
\* the end of the stream and the connection is closed.
LEMMA OriginsEmptyRead ==
  ASSUME Core, Core', BuffersSized, Origins, AgainNN \/ CloseNN
  PROVE  Origins'
<1>0. PICK c \in Conns : c = conn_at[cur] /\ cur \in Fds /\ pc = "read"
  BY OwnConnection DEF OwnRead
<1>1. /\ recv_msg \in [Fds -> Seq(Bytes)] /\ taken \in [Conns -> Nat]
      /\ taken' \in [Conns -> Nat]
      /\ conn_at \in [Fds -> Conns \cup {NoConn}] /\ peer \in [Conns -> PeerStates]
      /\ recv_msg[cur] # NULL
  BY <1>0, CoreTypes DEF Core, EpollServerTypeOK, SockTypeOK, BuffersSized
<1>2. /\ UNCHANGED <<arrived, taken, requests, used_size>>
      /\ recv_msg' = [recv_msg EXCEPT ![cur] = AdjustedNN(cur)]
  BY DEF AgainNN, CloseNN, Adjust, sockVars, history
<1>3. \/ UNCHANGED <<conn_at, peer>>
      \/ /\ conn_at' = [conn_at EXCEPT ![cur] = NoConn]
         /\ peer' = [peer EXCEPT ![c] = "over"]
  BY <1>0 DEF AgainNN, CloseNN, CloseFd, sockVars
<1>4. \A d \in Conns : peer[d] = "over" => peer'[d] = "over"
  BY <1>1, <1>3
<1>5. \A f \in Fds : \/ conn_at'[f] = conn_at[f] \/ conn_at[f] \notin Conns
                     \/ peer'[conn_at[f]] = "over"
  BY <1>0, <1>1, <1>3
<1>6. \A d \in Conns : taken[d] <= taken'[d]
  BY <1>1, <1>2
<1>7. \A f \in Fds : \A b : Held(f, b) => Held(f, b)'
  BY <1>1, <1>2, <1>4, <1>5, <1>6, HeldStays
<1>8. \A i \in 1 .. used_size[cur] : Held(cur, AdjustedNN(cur)[i])
  BY <1>0, AdjustedHeld
<1>9. PICK fd \in Fds : fd = cur
  BY <1>0
<1>10. HeldBytes'
  <2>1. \A i \in 1 .. used_size[fd] : Held(fd, recv_msg'[fd][i])
    BY SMTT(20), <1>1, <1>2, <1>8, <1>9
  <2>2. \A f \in Fds \ {fd} : recv_msg'[f] = recv_msg[f]
    BY <1>1, <1>2, <1>9
  <2>. QED
    BY <1>2, <1>7, <2>1, <2>2 DEF Origins, HeldBytes
<1>11. ReadInStream'
  BY <1>2 DEF Origins, ReadInStream
<1>. QED
  BY <1>2, <1>4, <1>6, <1>10, <1>11, OriginsKept

\* What every read of n bytes leaves of the streams, the buffers of the other
\* descriptors among them.
LEMMA ReadSteps ==
  ASSUME Core, Core', BuffersSized, Origins, NEW n \in Nat, ReadGets(n),
         NEW c \in Conns, c = conn_at[cur], NEW fd \in Fds, fd = cur,
         \A d \in Conns \ {c} : requests'[d] = requests[d]
  PROVE  /\ ReadInStream' /\ UNCHANGED <<conn_at, peer>> /\ taken'[c] = taken[c] + n
         /\ \A d \in Conns : taken[d] <= taken'[d]
         /\ \A f \in Fds \ {fd} : \A b : Held(f, b) => Held(f, b)'
         /\ requests'[c] = requests[c] => \A b : Held(fd, b) => Held(fd, b)'
<1>1. /\ taken \in [Conns -> Nat] /\ arrived \in [Conns -> Nat] /\ taken' \in [Conns -> Nat]
  BY CoreTypes DEF Core, EpollServerTypeOK, SockTypeOK
<1>2. taken' = [taken EXCEPT ![c] = taken[c] + n] /\ UNCHANGED <<conn_at, peer, arrived>>
  BY DEF ReadGets
<1>3. n <= Unread(c) /\ taken[c] \in Nat /\ arrived[c] \in Nat
  BY ReadFits
<1>4. taken[c] + n <= arrived[c] /\ taken[c] <= taken[c] + n
  BY <1>3 DEF Unread
<1>5. \A d \in Conns : taken[d] <= taken'[d]
  BY <1>1, <1>2, <1>4
<1>6. ReadInStream'
  BY <1>1, <1>2, <1>4 DEF Origins, ReadInStream
<1>7. ASSUME NEW f \in Fds, NEW b, Held(f, b), f # fd \/ requests'[c] = requests[c]
      PROVE  Held(f, b)'
  <2>1. CASE Zeroed(b)
    BY <2>1 DEF Held, Zeroed
  <2>2. CASE b[1] \in Conns /\ requests'[b[1]] = requests[b[1]]
    BY <1>1, <1>2, <1>5, <1>7, <2>2, HeldStays
  <2>3. ASSUME b[1] \in Conns, requests'[b[1]] # requests[b[1]],
               b[1] = conn_at[f] \/ peer[b[1]] = "over"
        PROVE  FALSE
    <3>1. b[1] = c /\ f # fd
      BY <1>7, <2>3
    <3>. QED
      BY <2>3, <3>1, CoreTypes
  <2>. QED
    BY <1>7, <2>1, <2>2, <2>3 DEF Held, Outstanding
<1>. QED
  BY <1>1, <1>2, <1>5, <1>6, <1>7

LEMMA OriginsPart ==
  ASSUME Core, Core', BuffersSized, Origins, NEW n \in Nat, PartNN(n)
  PROVE  Origins'
<1>1. PICK c \in Conns : c = conn_at[cur] /\ cur \in Fds
  BY OwnConnection DEF OwnRead
<1>2. PICK fd \in Fds : fd = cur
  BY <1>1
<1>3. /\ ReadGets(n) /\ UNCHANGED requests
      /\ recv_msg' = [recv_msg EXCEPT ![fd] = FilledNN(cur, n)]
      /\ used_size' = [used_size EXCEPT ![fd] = used_size[fd] + n]
  BY <1>2 DEF PartNN
<1>4. /\ recv_msg \in [Fds -> Seq(Bytes)] /\ used_size \in [Fds -> Nat]
  BY CoreTypes
<1>5. /\ ReadInStream' /\ UNCHANGED <<conn_at, peer>> /\ taken'[c] = taken[c] + n
      /\ \A d \in Conns : taken[d] <= taken'[d]
      /\ \A f \in Fds : \A b : Held(f, b) => Held(f, b)'
  BY <1>1, <1>2, <1>3, ReadSteps
<1>6. ASSUME NEW b, NEW k \in 1 .. n, b = <<c, taken[c] + k>> PROVE Held(fd, b)'
  <2>1. Delivered(c) \in Nat /\ Delivered(c) <= taken[c] /\ taken[c] \in Nat
    BY DeliveredRead DEF Origins
  <2>2. Delivered(c)' = Delivered(c)
    BY <1>3 DEF Delivered, Began
  <2>3. PICK i \in Nat : i = taken[c] + k
    BY <2>1
  <2>4. Delivered(c) < i /\ i <= taken'[c] /\ b[1] = c /\ b[2] = i
    BY <1>5, <1>6, <2>1, <2>3
  <2>5. Outstanding(b)'
    BY <2>2, <2>4 DEF Outstanding
  <2>. QED
    BY <1>1, <1>2, <1>5, <2>4, <2>5 DEF Held
<1>7. HeldBytes'
  <2>1. PICK buf : buf = FilledNN(cur, n)
    OBVIOUS
  <2>2. recv_msg'[fd] = buf /\ used_size'[fd] = used_size[fd] + n
    BY <1>3, <1>4, <2>1
  <2>3. ASSUME NEW i \in 1 .. used_size[fd] + n PROVE Held(fd, buf[i])'
    <3>1. PICK b : b = buf[i]
      OBVIOUS
    <3>2. Held(fd, b) \/ \E k \in 1 .. n : b = <<c, taken[c] + k>>
      BY <1>1, <1>2, <1>3, <2>1, <3>1, FilledFrom
    <3>3. Held(fd, b)'
      BY <1>5, <1>6, <3>2
    <3>. QED
      BY <3>1, <3>3
  <2>4. \A f \in Fds \ {fd} : recv_msg'[f] = recv_msg[f] /\ used_size'[f] = used_size[f]
    BY <1>3, <1>4
  <2>. QED
    BY <1>5, <2>2, <2>3, <2>4 DEF Origins, HeldBytes
<1>. QED
  BY <1>3, <1>5, <1>7, OriginsKept

\* A complete request holds what the buffer held, and takes it out.
LEMMA OriginsWhole ==
  ASSUME Core, Core', BuffersSized, Origins, NEW n \in Nat, WholeNN(n)
  PROVE  Origins'
<1>1. PICK c \in Conns : c = conn_at[cur] /\ cur \in Fds
  BY OwnConnection DEF OwnRead, WholeNN, ReadGets
<1>2. PICK fd \in Fds : fd = cur
  BY <1>1
<1> DEFINE end == used_size[cur] + n
           text == SubSeq(FilledNN(cur, n), 1, end - 2)
           new == [text |-> text, upto |-> taken[c] + n, ahead |-> outq[c] > 0]
<1>3. /\ ReadGets(n) /\ end >= 2 /\ UNCHANGED used_size
      /\ recv_msg' = [recv_msg EXCEPT ![fd] = NULL]
      /\ requests' = [requests EXCEPT ![c] = Append(requests[c], new)]
  BY <1>1, <1>2 DEF WholeNN, EndsWithNN
<1>4. /\ requests \in [Conns -> Seq(RequestRecord)] /\ recv_msg \in [Fds -> Seq(Bytes)]
      /\ \A f \in Fds : conn_at[f] \in Conns => peer[conn_at[f]] # "over"
  BY CoreTypes
<1>5. /\ pc = "read" /\ n <= Room(cur) /\ Size(cur) \in Nat /\ used_size[cur] \in Nat
      /\ end < Size(cur) /\ taken[c] \in Nat
  BY <1>1, <1>3, ReadFits
<1>6. /\ Len(text) = end - 2
      /\ \A i \in 1 .. end - 2 : text[i] = FilledNN(cur, n)[i]
  <2>1. FilledNN(cur, n) \in Seq(Bytes) /\ Len(FilledNN(cur, n)) = Size(cur)
    BY <1>5, FilledNNIsBuffer DEF Core
  <2>2. end - 2 \in Nat /\ end - 2 <= Size(cur)
    <3>1. end >= 2
      BY <1>3
    <3>. QED
      BY <3>1, <1>5
  <2>3. \A i \in 1 .. end - 2 : FilledNN(cur, n)[i] \in Bytes
    BY <1>5, <2>1, <2>2, ElementOfSeq
  <2>. QED
    BY <2>2, <2>3, SubSeqProperties
<1>7. \A i \in 1 .. end - 2 :
        Held(fd, text[i]) \/ \E k \in 1 .. n : text[i] = <<c, taken[c] + k>>
  <2>1. \A i \in 1 .. end - 2 : i \in 1 .. used_size[cur] + n
    BY <1>5
  <2>. QED
    BY <1>1, <1>2, <1>3, <1>6, <2>1, FilledFrom
<1> HIDE DEF text, new
<1>8. PICK m \in Nat : m = Len(requests[c])
  BY <1>4
<1>9. /\ new.text = text /\ new.upto = taken[c] + n
      /\ requests'[c] = Append(requests[c], new)
      /\ DOMAIN requests[c] = 1 .. m /\ DOMAIN requests'[c] = 1 .. m + 1
      /\ Len(requests'[c]) = m + 1
      /\ \A k \in 1 .. m : requests'[c][k] = requests[c][k]
      /\ requests'[c][m + 1] = new
      /\ \A d \in Conns \ {c} : requests'[d] = requests[d]
  BY <1>3, <1>4, <1>8 DEF new
<1>10. \A k \in 1 .. m + 1 : Began(c, k)' = Began(c, k)
  BY <1>9 DEF Began
<1>11. /\ ReadInStream' /\ UNCHANGED <<conn_at, peer>> /\ taken'[c] = taken[c] + n
       /\ \A d \in Conns : taken[d] <= taken'[d]
       /\ \A f \in Fds \ {fd} : \A b : Held(f, b) => Held(f, b)'
  BY <1>1, <1>2, <1>3, <1>9, ReadSteps
<1>12. taken \in [Conns -> Nat] /\ taken' \in [Conns -> Nat]
  BY CoreTypes DEF Core, EpollServerTypeOK, SockTypeOK
<1>13. EndsRead'
  <2>1. ASSUME NEW d \in Conns, NEW k \in DOMAIN requests[d]
        PROVE  requests[d][k].upto <= taken'[d]
    <3>1. requests[d][k] \in RequestRecord
      BY <1>4, ElementOfSeq
    <3>2. requests[d][k].upto \in Nat /\ requests[d][k].upto <= taken[d]
      BY <3>1 DEF RequestRecord, Origins, EndsRead
    <3>3. taken[d] \in Nat /\ taken'[d] \in Nat /\ taken[d] <= taken'[d]
      BY <1>11, <1>12
    <3>. QED
      BY <3>2, <3>3
  <2>2. \A k \in 1 .. m + 1 : requests'[c][k].upto <= taken'[c]
    BY <1>5, <1>9, <1>11, <2>1
  <2>. QED
    BY <1>9, <2>1, <2>2 DEF EndsRead
<1>14. HeldBytes'
  <2>1. recv_msg'[fd] = NULL /\ \A f \in Fds \ {fd} : recv_msg'[f] = recv_msg[f]
    BY <1>3, <1>4
  <2>. QED
    BY <1>3, <1>11, <2>1 DEF Origins, HeldBytes
<1>15. \A d \in Conns : peer[d] = "over" => peer'[d] = "over" /\ requests'[d] = requests[d]
  BY <1>1, <1>2, <1>4, <1>9, <1>11
<1>16. ASSUME NEW b, Held(fd, b) \/ \E k \in 1 .. n : b = <<c, taken[c] + k>>
       PROVE  Asked(c, m + 1, b)'
  <2>1. Began(c, m + 1)' = Delivered(c)
    BY <1>8, <1>10 DEF Delivered
  <2>2. Delivered(c) \in Nat /\ Delivered(c) <= taken[c] /\ taken[c] \in Nat
    BY DeliveredRead DEF Origins
  <2>3. CASE Outstanding(b) /\ b[1] = c
    <3>1. b[2] > Delivered(c)
      BY <2>2, <2>3 DEF Outstanding
    <3>. QED
      BY <2>1, <2>3, <3>1 DEF Asked
  <2>4. CASE Outstanding(b) /\ peer[b[1]] = "over"
    <3>1. PICK d \in Conns : d = b[1] /\ b[2] \in Nat /\ Delivered(d) < b[2]
      BY <2>4 DEF Outstanding
    <3>2. Delivered(d)' = Delivered(d) /\ peer'[d] = "over"
      BY <1>15, <2>4, <3>1 DEF Delivered, Began
    <3>3. Delivered(d) \in Nat
      BY DeliveredRead DEF Origins
    <3>4. Leftover(b)'
      BY <3>1, <3>2, <3>3 DEF Leftover
    <3>. QED
      BY <3>4 DEF Asked
  <2>5. CASE Zeroed(b)
    BY <2>5 DEF Asked, Zeroed
  <2>6. ASSUME NEW k \in 1 .. n, b = <<c, taken[c] + k>> PROVE Asked(c, m + 1, b)'
    <3>1. b[1] = c /\ b[2] > Delivered(c)
      BY <2>2, <2>6
    <3>. QED
      BY <2>1, <3>1 DEF Asked
  <2>. QED
    BY <1>1, <1>2, <1>16, <2>3, <2>4, <2>5, <2>6 DEF Held
<1>17. AskedBytes'
  <2>1. PICK t : t = text
    OBVIOUS
  <2>2. requests'[c][m + 1].text = t /\ Len(t) = end - 2
    BY <1>6, <1>9, <2>1
  <2>3. ASSUME NEW i \in 1 .. Len(t) PROVE Asked(c, m + 1, t[i])'
    <3>1. PICK b : b = t[i]
      OBVIOUS
    <3>2. Asked(c, m + 1, b)'
      BY <1>7, <1>16, <2>1, <2>2, <3>1
    <3>. QED
      BY <3>1, <3>2
  <2>4. ASSUME NEW d \in Conns, NEW k \in DOMAIN requests[d]
        PROVE  /\ requests'[d][k] = requests[d][k]
               /\ \A b : Asked(d, k, b) => Asked(d, k, b)'
    <3>1. requests'[d][k] = requests[d][k]
      BY <1>9
    <3>2. Began(d, k)' = Began(d, k)
      <4>1. CASE d = c
        BY <1>8, <1>9, <1>10, <4>1
      <4>2. CASE d # c
        BY <1>9, <4>2 DEF Began
      <4>. QED
        BY <4>1, <4>2
    <3>. QED
      BY <1>15, <3>1, <3>2, AskedStays
  <2>5. \A d \in Conns : \A k \in DOMAIN requests'[d] :
          k \in DOMAIN requests[d] \/ (d = c /\ k = m + 1)
    <3>1. ASSUME NEW d \in Conns, NEW k \in DOMAIN requests'[d], k \notin DOMAIN requests[d]
          PROVE  d = c /\ k = m + 1
      <4>1. d = c
        BY <1>9, <3>1
      <4>2. k \in 1 .. m + 1 /\ k \notin 1 .. m
        BY <1>9, <3>1, <4>1
      <4>. QED
        BY <4>1, <4>2
    <3>. QED
      BY <3>1
  <2>. QED
    BY SMTT(20), <2>2, <2>3, <2>4, <2>5 DEF Origins, AskedBytes
<1>. QED
  BY <1>11, <1>13, <1>14, <1>17 DEF Origins

-----------------------------------------------------------------------------
(***************************************************************************)
(* The theorems.                                                           *)
(***************************************************************************)
LEMMA InitNN == Init => InvNN
<1>. SUFFICES ASSUME Init PROVE InvNN
  OBVIOUS
<1>1. Core /\ BuffersSized
  BY InitIInv DEF IInv, Buffers, BufferBounds
<1>2. BuffersReleased
  <2>1. heap = 0 /\ {fd \in Fds : recv_msg[fd] # NULL} = {}
    BY DEF Init
  <2>. QED
    BY <2>1, FS_EmptySet DEF BuffersReleased, Live
<1>3. \A c \in Conns : /\ taken[c] = 0 /\ arrived[c] = 0 /\ Len(Stream[c]) \in Nat
                       /\ DOMAIN requests[c] = {}
  BY StreamAssumption DEF Init, SockInit
<1>4. Origins
  BY <1>3 DEF Init, Origins, ReadInStream, EndsRead, HeldBytes, AskedBytes
<1>. QED
  BY <1>1, <1>2, <1>4 DEF InvNN

\* Every step keeps the invariant.
LEMMA NextInvNN == InvNN /\ [NextNN]_vars => InvNN'
<1>. SUFFICES ASSUME InvNN, [NextNN]_vars PROVE InvNN'
  OBVIOUS
<1>1. Core /\ BuffersSized /\ BuffersReleased /\ Origins
  BY DEF InvNN
<1>2. Core'
  BY <1>1, CoreNN
<1>3. BuffersSized' /\ BuffersReleased'
  BY <1>1, <1>2, BuffersNN
<1>4. Origins'
  BY <1>1, <1>2, StepsNN, OriginsIdle, OriginsOnRead, OriginsEmptyRead, OriginsPart,
     OriginsWhole DEF OwnRead, Begins, Shared
<1>. QED
  BY <1>2, <1>3, <1>4 DEF InvNN

\* The invariant holds in every state the earlier server reaches.
THEOREM InvarianceNN == SpecNN => []InvNN
  BY InitNN, NextInvNN, PTL DEF SpecNN

(***************************************************************************)
(* "Receive done, release": the earlier server has as many receive buffers *)
(* as descriptors hold, in every state, so that none is ever lost and none *)
(* deleted twice, through growths, requests and closes in any order.       *)
(***************************************************************************)
THEOREM EveryBufferIsHeld == SpecNN => []BuffersReleased
<1>1. InvNN => BuffersReleased
  BY DEF InvNN
<1>. QED
  BY <1>1, InvarianceNN, PTL

(***************************************************************************)
(* What a buffer or a request of the earlier server holds of another       *)
(* connection is the beginning of a request that connection was closed in, *)
(* although a close leaves the buffer to the descriptor's next owner.      *)
(***************************************************************************)
THEOREM OnlyLeftoversAreCarried == SpecNN => []CarriedOnlyAfterClose
<1>1. InvNN => CarriedOnlyAfterClose
  <2>. SUFFICES ASSUME InvNN PROVE CarriedOnlyAfterClose
    OBVIOUS
  <2>1. Core /\ Origins
    BY DEF InvNN
  <2>2. \A c \in Conns : Delivered(c) \in Nat
    BY <2>1, DeliveredRead DEF Origins
  <2>3. ASSUME NEW fd \in Fds, NEW b, Held(fd, b)
        PROVE  (b[1] = conn_at[fd] /\ b[2] > Delivered(b[1])) \/ Leftover(b) \/ Zeroed(b)
    <3>1. Outstanding(b) => b[2] > Delivered(b[1])
      BY <2>2 DEF Outstanding
    <3>. QED
      BY <2>3, <3>1 DEF Held, Outstanding, Leftover
  <2>. QED
    BY <2>1, <2>3
       DEF Origins, HeldBytes, AskedBytes, Asked, CarriedOnlyAfterClose, BytesOf
<1>. QED
  BY <1>1, InvarianceNN, PTL

-----------------------------------------------------------------------------
(***************************************************************************)
(* The refinement.  The steps shared with the other server are mapped by   *)
(* the lemmas of EpollServiceProofs; the handlers of this one follow.      *)
(***************************************************************************)

\* onread closes a connection on which nothing is owed.
LEMMA CloseNNCloses ==
  ASSUME Core, CloseNN, NEW d \in Conns, d = conn_at[cur]
  PROVE  RR!Close(d)
<1>1. /\ cur \in Fds
      /\ conn_at \in [Fds -> Conns \cup {NoConn}]
      /\ interest \in [Fds -> {"none", "IN", "OUT"}] /\ peer \in [Conns -> PeerStates]
  BY HandlerKnows DEF CloseNN, Core, EpollServerTypeOK, SockTypeOK, EpollTypeOK
<1>2. /\ conn_at' = [conn_at EXCEPT ![cur] = NoConn]
      /\ interest' = [interest EXCEPT ![cur] = "none"]
      /\ peer' = [peer EXCEPT ![d] = "over"]
      /\ UNCHANGED <<requests, replies>>
  BY DEF CloseNN, CloseFd, Unregister, history
<1>3. Phase(d) = "reading"
  BY PhaseHandled DEF CloseNN
<1>4. Phase(d)' = "closed"
  BY <1>1, <1>2 DEF Phase
<1>5. \A c \in Conns \ {d} : Phase(c)' = Phase(c)
  BY <1>1, <1>2, OthersKept
<1>6. RR!Move(d, "reading", "closed")
  BY <1>1, <1>3, <1>4, <1>5, OneMoves
<1>. QED
  BY <1>2, <1>6 DEF RR!Close

\* A complete request is one request more asked.
LEMMA WholeNNAsks ==
  ASSUME Core, Links', NEW n \in Nat, WholeNN(n), NEW d \in Conns, d = conn_at[cur]
  PROVE  RR!Ask(d)
<1>1. /\ cur \in Fds /\ UNCHANGED <<conn_at, peer, replies>>
      /\ requests \in [Conns -> Seq(RequestRecord)]
  BY HandlerKnows DEF WholeNN, ReadGets, Core, EpollServerTypeOK
<1>2. RR!Move(d, "reading", "owing")
  <2>1. Phase(d) = "reading"
    BY PhaseHandled DEF WholeNN, ReadGets
  <2>2. Phase(d)' = "owing" /\ \A c \in Conns \ {d} : Phase(c)' = Phase(c)
    BY <1>1, Reregistered DEF WholeNN, WatchPhase
  <2>. QED
    BY <1>1, <2>1, <2>2, OneMoves
<1>3. PICK r : requests' = [requests EXCEPT ![d] = Append(requests[d], r)]
  BY DEF WholeNN
<1>4. Len(requests'[d]) = Len(requests[d]) + 1
      /\ \A c \in Conns \ {d} : requests'[c] = requests[c]
  <2>1. requests[d] \in Seq(RequestRecord)
    BY <1>1
  <2>2. Len(Append(requests[d], r)) = Len(requests[d]) + 1
    BY <2>1
  <2>. QED
    BY <1>1, <1>3, <2>2
<1>. QED
  BY <1>1, <1>2, <1>4 DEF RR!Ask

\* A write that fails gives the reply up: the connection is read from again.
LEMMA BreakGivesUp ==
  ASSUME Core, Links', WriteBreaks, NEW d \in Conns, d = conn_at[cur]
  PROVE  RR!GiveUp(d)
<1>1. /\ cur \in Fds /\ UNCHANGED <<conn_at, requests>>
      /\ interest' = [interest EXCEPT ![cur] = "IN"]
      /\ conn_at \in [Fds -> Conns \cup {NoConn}]
      /\ interest \in [Fds -> {"none", "IN", "OUT"}] /\ peer \in [Conns -> PeerStates]
      /\ replies \in [Conns -> ReplyRecord]
  BY HandlerKnows
     DEF WriteBreaks, Register, Core, EpollServerTypeOK, SockTypeOK, EpollTypeOK
<1>2. \A c \in Conns \ {d} : peer'[c] = peer[c]
  BY <1>1 DEF WriteBreaks, ErrorReported
<1>3. Phase(d) = "owing"
  BY PhaseHandled DEF WriteBreaks
<1>4. Phase(d)' = "reading"
  <2>1. conn_at'[cur] = d /\ interest'[cur] = "IN"
    BY <1>1
  <2>2. Phase(d)' = WatchPhase(interest'[cur])
    BY <1>1, <2>1, PhaseOfWatchedNext
  <2>. QED
    BY <2>1, <2>2 DEF WatchPhase
<1>5. \A c \in Conns \ {d} : Phase(c)' = Phase(c)
  <2>1. \A g \in Fds \ {cur} : conn_at'[g] = conn_at[g] /\ interest'[g] = interest[g]
    BY <1>1
  <2>. QED
    BY <1>1, <1>2, <2>1, OthersKept
<1>6. RR!Move(d, "owing", "reading")
  BY <1>3, <1>4, <1>5, OneMoves
<1>7. \A c \in Conns : replies'[c].whole = replies[c].whole
  BY <1>1 DEF WriteBreaks, ReplyRecord
<1>. QED
  BY <1>1, <1>6, <1>7 DEF RR!GiveUp

\* Every step is one of the protocol, gives a reply up, or leaves the protocol
\* where it is.
LEMMA StepRefinesNN ==
  ASSUME Core, Links', [NextNN]_vars
  PROVE  [RR!RRNext \/ \E c \in Conns : RR!GiveUp(c)]_(RR!rrVars)
<1>. SUFFICES \/ \E c \in Conns : RR!Ask(c) \/ RR!Close(c) \/ RR!GiveUp(c)
              \/ [RR!RRNext]_(RR!rrVars)
  BY DEF RR!RRNext
<1>1. /\ interest \in [Fds -> {"none", "IN", "OUT"}] /\ replies \in [Conns -> ReplyRecord]
  BY DEF Core, EpollServerTypeOK, SockTypeOK, EpollTypeOK
<1>2. CASE Shared
  BY <1>2, SharedAreNext, StepRefines
<1>3. CASE AgainNN \/ Begins
  BY <1>3, NoProtocolStep
     DEF AgainNN, Begins, OnReadNN, BeginRead, sockVars, epollVars, history
<1>4. CASE CloseNN
  BY <1>4, HandlerKnows, CloseNNCloses DEF CloseNN
<1>5. ASSUME NEW n \in Nat, PartNN(n) PROVE UNCHANGED RR!rrVars
  <2>1. /\ cur \in Fds /\ interest[cur] = "IN"
        /\ UNCHANGED <<conn_at, peer, requests, replies>>
    BY <1>5, HandlerKnows DEF PartNN, ReadGets
  <2>2. UNCHANGED interest
    BY <1>1, <1>5, <2>1 DEF PartNN, Register
  <2>. QED
    BY <2>1, <2>2, NoProtocolStep
<1>6. ASSUME NEW n \in Nat, WholeNN(n) PROVE \E c \in Conns : RR!Ask(c)
  BY <1>6, HandlerKnows, WholeNNAsks DEF WholeNN, ReadGets
<1>7. ASSUME NEW fd \in Fds, ReplyNN(fd) PROVE UNCHANGED RR!rrVars
  <2>1. \A c \in Conns : replies'[c].whole = replies[c].whole
    BY <1>1, <1>7 DEF ReplyNN, ReplyRecord
  <2>. QED
    BY <1>7, <2>1, NoProtocolStep DEF ReplyNN, sockVars, epollVars
<1>8. CASE WriteBreaks
  BY <1>8, HandlerKnows, BreakGivesUp DEF WriteBreaks
<1>9. CASE KillsNN
  BY <1>9, NoProtocolStep DEF KillsNN, sockVars, epollVars, history
<1>. QED
  BY <1>2, <1>3, <1>4, <1>5, <1>6, <1>7, <1>8, <1>9, StepsNN DEF OwnRead, OwnWrite

(***************************************************************************)
(* The earlier server keeps the protocol of RequestReply on every          *)
(* connection but for the replies it gives up: it takes one request at a   *)
(* time, answers it or gives the answer up before the next one, and closes *)
(* a connection only with nothing owed.                                    *)
(***************************************************************************)
THEOREM LossyRefinement == SpecNN => ImplementsLossyRequestReply
<1>1. InvNN /\ InvNN' /\ [NextNN]_vars =>
        [RR!RRNext \/ \E c \in Conns : RR!GiveUp(c)]_(RR!rrVars)
  BY StepRefinesNN DEF InvNN, Core
<1>. QED
  BY <1>1, InitRefines, InvarianceNN, PTL
     DEF SpecNN, ImplementsLossyRequestReply, RR!RRLossySpec

-----------------------------------------------------------------------------
(***************************************************************************)
(* Replies given up.  A reply that is being written has what left_len does *)
(* not count behind it (BodyNN); and while a peer that has not asked ahead *)
(* is owed a reply that has not been cut short, its send queue holds no    *)
(* more than what went out of that one (QueueNN).                          *)
(***************************************************************************)
BodyNN ==
  pc = "body" => left_len > 0 /\ replies[conn_at[cur]].body = REPLY_LEN - left_len

QueueNN ==
  pc # "dead" => \A c \in Conns : Untorn(c) /\ Owes(c) =>
    outq[c] <= IF Sending(c) THEN replies[c].body ELSE 0

SentNN == BodyNN /\ QueueNN

\* A step that moves no request and no reply, and sends nothing.
Quiet ==
  /\ UNCHANGED <<requests, replies>>
  /\ \A c \in Conns : Owes(c)' <=> Owes(c)
  /\ \A c \in Conns : outq'[c] <= outq[c]
  /\ \/ UNCHANGED <<pc, cur, left_len, conn_at>>
     \/ pc \notin {"body", "dead"} /\ pc' # "body"
     \/ pc' = "dead"

\* A step at one descriptor that waits for EPOLLOUT neither before nor after it
\* leaves what is owed as it is.
LEMMA OwesKept ==
  ASSUME NEW f \in Fds, interest[f] # "OUT", interest'[f] # "OUT",
         \A g \in Fds \ {f} : conn_at'[g] = conn_at[g] /\ interest'[g] = interest[g]
  PROVE  \A c \in Conns : Owes(c)' <=> Owes(c)
BY DEF Owes

\* The environment empties queues only.
LEMMA OthersQuiet ==
  ASSUME Core, Others
  PROVE  Quiet
<1>1. UNCHANGED outq \/ \E c \in Conns : outq' = [outq EXCEPT ![c] = 0]
  BY DEF Others, EnvNext, PeerConnects, Connect, PeerSends, PeerSend, PeerReads,
         PeerRead, PeerEnds, PeerLeaves
<1>2. outq \in [Conns -> 0 .. SNDBUF] /\ \A c \in Conns : outq[c] <= outq[c] /\ 0 <= outq[c]
  BY SendTypes DEF Core
<1>3. \A c \in Conns : outq'[c] <= outq[c]
  BY <1>1, <1>2
<1>4. UNCHANGED <<requests, replies, pc, cur, left_len, conn_at, interest>>
  BY DEF Others, EnvNext, PeerConnects, Connect, PeerSends, PeerSend, PeerReads,
         PeerRead, PeerEnds, PeerLeaves, thread, history
<1>. QED
  BY <1>3, <1>4 DEF Quiet, Owes

\* The steps that are not quiet.
LEMMA LoudSteps ==
  ASSUME Core, [NextNN]_vars
  PROVE  \/ Quiet \/ WriteBody \/ WriteBreaks
         \/ \E n \in Nat : WholeNN(n)
         \/ \E fd \in Fds : ReplyNN(fd)
<1>1. /\ conn_at \in [Fds -> Conns \cup {NoConn}]
      /\ interest \in [Fds -> {"none", "IN", "OUT"}]
      /\ \A c \in Conns : outq[c] <= outq[c]
  BY SendTypes DEF Core
<1>2. ASSUME UNCHANGED <<requests, replies, outq>>, pc \notin {"body", "dead"}, pc' # "body",
             NEW f \in Fds, interest[f] # "OUT", interest'[f] # "OUT",
             \A g \in Fds \ {f} : conn_at'[g] = conn_at[g] /\ interest'[g] = interest[g]
      PROVE  Quiet
  BY <1>1, <1>2, OwesKept DEF Quiet
<1>3. ASSUME UNCHANGED <<requests, replies, outq, conn_at, interest>>,
             \/ pc \notin {"body", "dead"} /\ pc' # "body"
             \/ pc' = "dead"
             \/ UNCHANGED <<pc, cur, left_len>>
      PROVE  Quiet
  BY <1>1, <1>3 DEF Quiet, Owes
<1>4. CASE WaitForEvents \/ AcceptFails \/ UNCHANGED vars \/ Begins \/ AgainNN
  BY <1>3, <1>4 DEF WaitForEvents, Wait, EpollWait, AcceptFails, Begins, OnReadNN, BeginRead,
                    AgainNN, Event, vars, sockVars, epollVars, history, thread
<1>5. CASE Accept
  <2>1. PICK c \in backlog, f \in Fds :
          /\ LowestFree(f)
          /\ conn_at' = [conn_at EXCEPT ![f] = c]
          /\ \/ Register(f, "IN", HotIn(Unread(c), peer[c]))
             \/ UNCHANGED epollVars
    BY <1>5 DEF Accept
  <2>2. interest[f] = "none"
    BY <1>1, <2>1, ConnAssumption DEF LowestFree, Core, Links, Registered
  <2>3. /\ interest'[f] # "OUT"
        /\ \A g \in Fds \ {f} : conn_at'[g] = conn_at[g] /\ interest'[g] = interest[g]
    BY <1>1, <2>1, <2>2 DEF Register, epollVars
  <2>4. UNCHANGED <<requests, replies, outq>> /\ pc \notin {"body", "dead"} /\ pc' # "body"
    BY <1>5 DEF Accept, Event, history
  <2>. QED
    BY <1>2, <2>2, <2>3, <2>4
\* A round of onread that ends no request.
<1>6. ASSUME Rearm \/ CloseNN \/ \E n \in Nat : PartNN(n) PROVE Quiet
  <2>1. cur \in Fds /\ interest[cur] = "IN"
    BY <1>6, HandlerKnows DEF Rearm, CloseNN, PartNN, ReadGets
  <2>2. /\ interest'[cur] \in {"IN", "none"}
        /\ \A g \in Fds \ {cur} : conn_at'[g] = conn_at[g] /\ interest'[g] = interest[g]
    BY <1>1, <1>6, <2>1
       DEF Rearm, CloseNN, CloseFd, PartNN, ReadGets, Register, Unregister, sockVars
  <2>3. UNCHANGED <<requests, replies, outq>> /\ pc \notin {"body", "dead"} /\ pc' # "body"
    BY <1>6 DEF Rearm, CloseNN, PartNN, ReadGets, sockVars, history
  <2>. QED
    BY <1>2, <2>1, <2>2, <2>3
<1>7. CASE KillsNN
  BY <1>3, <1>7 DEF KillsNN, sockVars, epollVars, history
<1>. QED
  BY <1>4, <1>5, <1>6, <1>7, OthersQuiet, StepsNN
     DEF OwnRead, OwnWrite, Shared, OnAccept

\* A request of a peer that has not asked ahead finds its send queue empty.
LEMMA SentWhole ==
  ASSUME Core, SentNN, NEW n \in Nat, WholeNN(n)
  PROVE  SentNN'
<1>1. PICK d \in Conns : d = conn_at[cur] /\ cur \in Fds /\ interest[cur] = "IN"
  BY HandlerKnows DEF WholeNN, ReadGets
<1>2. PICK r : /\ requests' = [requests EXCEPT ![d] = Append(requests[d], r)]
               /\ r.ahead = (outq[d] > 0)
  <2> DEFINE end == used_size[cur] + n
             text == SubSeq(FilledNN(cur, n), 1, end - 2)
             new == [text |-> text, upto |-> taken[d] + n, ahead |-> outq[d] > 0]
  <2>1. requests' = [requests EXCEPT ![d] = Append(requests[d], new)]
    BY <1>1 DEF WholeNN
  <2>2. new.ahead = (outq[d] > 0)
    OBVIOUS
  <2> HIDE DEF new
  <2>. QED
    BY <2>1, <2>2
<1>3. /\ interest' = [interest EXCEPT ![cur] = "OUT"]
      /\ pc = "read" /\ pc' = "loop" /\ UNCHANGED <<conn_at, replies, outq>>
  BY DEF WholeNN, ReadGets, Register
<1>4. /\ conn_at \in [Fds -> Conns \cup {NoConn}]
      /\ interest \in [Fds -> {"none", "IN", "OUT"}]
      /\ requests \in [Conns -> Seq(RequestRecord)]
      /\ \A c \in Conns : outq[c] \in Nat
  BY SendTypes DEF Core
<1>5. /\ requests'[d] = Append(requests[d], r)
      /\ \A c \in Conns \ {d} : requests'[c] = requests[c]
  BY <1>2, <1>4
<1>6. /\ DOMAIN requests[d] \subseteq DOMAIN requests'[d]
      /\ \A k \in DOMAIN requests[d] : requests'[d][k] = requests[d][k]
      /\ Len(requests[d]) + 1 \in DOMAIN requests'[d]
      /\ requests'[d][Len(requests[d]) + 1] = r
  BY <1>4, <1>5
<1>7. \A c \in Conns : Untorn(c)' => Untorn(c)
  BY <1>3, <1>5, <1>6 DEF Untorn, AskedAhead
<1>8. Untorn(d)' => ~ (outq[d] > 0)
  BY <1>2, <1>6 DEF Untorn, AskedAhead
<1>9. \A c \in Conns \ {d} : Owes(c)' <=> Owes(c)
  BY <1>1, <1>3, <1>4 DEF Owes
<1>10. ASSUME NEW c \in Conns, Untorn(c)', Owes(c)' PROVE outq[c] <= 0
  <2>1. CASE c = d
    BY <1>4, <1>8, <1>10, <2>1
  <2>2. CASE c # d
    BY <1>3, <1>7, <1>9, <1>10, <2>2 DEF SentNN, QueueNN, Sending
  <2>. QED
    BY <2>1, <2>2
<1>. QED
  BY <1>3, <1>10 DEF SentNN, BodyNN, QueueNN, Sending

\* The reply to a peer that has not asked ahead begins with an empty queue.
LEMMA SentReply ==
  ASSUME Core, SentNN, NEW fd \in Fds, ReplyNN(fd)
  PROVE  SentNN'
<1>1. PICK d \in Conns : d = conn_at[fd]
  BY HandlerKnows DEF ReplyNN
<1>2. /\ replies' = [replies EXCEPT ![d].body = 0]
      /\ pc = "loop" /\ pc' = "body" /\ cur' = fd /\ left_len' = REPLY_LEN
      /\ UNCHANGED <<conn_at, interest, outq, requests>>
  BY <1>1 DEF ReplyNN, Event, sockVars, epollVars
<1>3. /\ replies \in [Conns -> ReplyRecord]
      /\ \A c \in Conns : outq[c] \in Nat
  BY SendTypes DEF Core
<1>4. /\ \A c \in Conns : /\ replies'[c].whole = replies[c].whole
                          /\ replies'[c].torn = replies[c].torn
      /\ replies'[d].body = 0
  BY <1>2, <1>3 DEF ReplyRecord
<1>6. BodyNN'
  BY <1>1, <1>2, <1>4, ReplyAssumption DEF BodyNN
<1>7. ASSUME NEW c \in Conns, Untorn(c)', Owes(c)'
      PROVE  outq'[c] <= IF Sending(c)' THEN replies'[c].body ELSE 0
  <2>1. outq[c] <= 0
    BY <1>2, <1>4, <1>7 DEF SentNN, QueueNN, Untorn, AskedAhead, Owes, Sending
  <2>. QED
    BY <1>1, <1>2, <1>4, <2>1 DEF Sending
<1>. QED
  BY <1>6, <1>7 DEF SentNN, QueueNN

\* A write moves bytes from what is left of the reply behind the queue.
LEMMA SentBody ==
  ASSUME Core, SentNN, WriteBody
  PROVE  SentNN'
<1> DEFINE written == Smaller(WRITE_SIZE, Space(conn_at[cur]))
           left == Left(written)
<1>1. PICK d \in Conns : d = conn_at[cur] /\ cur \in Fds /\ interest[cur] = "OUT"
  BY HandlerKnows DEF WriteBody
<1>2. /\ pc = "body" /\ UNCHANGED <<conn_at, requests, cur>> /\ left_len' = left
      /\ left = left_len - written
      /\ replies' = [replies EXCEPT ![d].body = @ + written,
                                    ![d].whole = IF left > 0 THEN @ ELSE @ + 1]
      /\ outq' = [outq EXCEPT ![d] = outq[d] + written]
      /\ IF left > 0 THEN UNCHANGED <<epollVars, pc>>
                     ELSE interest' = [interest EXCEPT ![cur] = "IN"] /\ pc' = "loop"
  BY <1>1 DEF WriteBody, Send, Left, Register
<1>3. written \in Int
  BY SMTT(20), <1>1, SmallerIsBoth, SendTypes, ReplyAssumption DEF Core, Space
<1> HIDE DEF written, left
<1>4. /\ conn_at \in [Fds -> Conns \cup {NoConn}]
      /\ interest \in [Fds -> {"none", "IN", "OUT"}]
      /\ replies \in [Conns -> ReplyRecord] /\ outq \in [Conns -> 0 .. SNDBUF]
      /\ left_len \in Int
      /\ \A c \in Conns : /\ Len(requests[c]) \in Nat /\ replies[c].whole \in Nat
                          /\ replies[c].body \in Nat /\ outq[c] \in Nat
      /\ \A f, g \in Fds : conn_at[f] \in Conns /\ conn_at[f] = conn_at[g] => f = g
  BY SendTypes DEF Core, Links
<1>5. /\ replies'[d].body = replies[d].body + written
      /\ replies'[d].whole = IF left > 0 THEN replies[d].whole
                                         ELSE replies[d].whole + 1
      /\ \A c \in Conns : replies'[c].torn = replies[c].torn
      /\ \A c \in Conns \ {d} : replies'[c] = replies[c]
  BY <1>2, <1>4 DEF ReplyRecord
<1>6. outq'[d] = outq[d] + written /\ \A c \in Conns \ {d} : outq'[c] = outq[c]
  BY <1>2, <1>4
<1>7. /\ \A c \in Conns \ {d} : Owes(c)' <=> Owes(c)
      /\ Owes(d) /\ (Owes(d)' <=> left > 0)
  <2>1. CASE left > 0
    BY <1>1, <1>2, <2>1 DEF Owes, epollVars
  <2>2. CASE ~ (left > 0)
    BY <1>1, <1>2, <1>4, <2>2 DEF Owes
  <2>. QED
    BY <2>1, <2>2
<1>9. BodyNN'
  <2>1. replies[d].body = REPLY_LEN - left_len
    BY <1>1, <1>2 DEF SentNN, BodyNN
  <2>2. replies'[d].body = REPLY_LEN - left
    BY <1>2, <1>3, <1>4, <1>5, <2>1, ReplyAssumption
  <2>3. pc' = "body" => left > 0
    BY <1>2
  <2>. QED
    BY <1>1, <1>2, <2>2, <2>3 DEF BodyNN
<1>10. ASSUME NEW c \in Conns, Untorn(c)', Owes(c)'
       PROVE  outq'[c] <= IF Sending(c)' THEN replies'[c].body ELSE 0
  <2>0. Untorn(c)
    BY <1>2, <1>5, <1>10 DEF Untorn, AskedAhead
  <2>1. CASE c = d
    <3>1. left > 0
      BY <1>7, <1>10, <2>1
    <3>2. Owes(c) /\ Sending(c) /\ Sending(c)'
      BY <1>1, <1>2, <1>7, <2>1, <3>1 DEF Sending
    <3>3. outq[c] <= replies[c].body
      BY <1>2, <2>0, <3>2 DEF SentNN, QueueNN
    <3>. QED
      BY <1>3, <1>4, <1>5, <1>6, <2>1, <3>2, <3>3
  <2>2. CASE c # d
    <3>1. Owes(c) /\ ~ Sending(c) /\ ~ Sending(c)'
      BY <1>1, <1>2, <1>7, <1>10, <2>2 DEF Sending
    <3>. QED
      BY <1>2, <1>6, <2>0, <2>2, <3>1 DEF SentNN, QueueNN
  <2>. QED
    BY <2>1, <2>2
<1>. QED
  BY <1>9, <1>10 DEF SentNN, QueueNN

\* A reply given up is counted no more.
LEMMA SentBreaks ==
  ASSUME Core, SentNN, WriteBreaks
  PROVE  SentNN'
<1>1. PICK d \in Conns : d = conn_at[cur] /\ cur \in Fds
  BY HandlerKnows DEF WriteBreaks
<1>2. /\ pc = "body" /\ pc' = "loop" /\ UNCHANGED <<outq, requests, conn_at>>
      /\ replies' = [replies EXCEPT ![d].torn = TRUE]
      /\ interest' = [interest EXCEPT ![cur] = "IN"]
  BY <1>1 DEF WriteBreaks, Register
<1>3. /\ replies \in [Conns -> ReplyRecord]
      /\ interest \in [Fds -> {"none", "IN", "OUT"}]
  BY SendTypes DEF Core
<1>4. replies'[d].torn /\ \A c \in Conns \ {d} : replies'[c] = replies[c]
  BY <1>2, <1>3 DEF ReplyRecord
<1>5. \A c \in Conns \ {d} : Owes(c)' <=> Owes(c)
  BY <1>1, <1>2, <1>3 DEF Owes
<1>7. ASSUME NEW c \in Conns, Untorn(c)', Owes(c)' PROVE outq[c] <= 0
  <2>1. c # d
    BY <1>4, <1>7 DEF Untorn
  <2>2. Untorn(c) /\ Owes(c) /\ ~ Sending(c)
    BY <1>1, <1>2, <1>4, <1>5, <1>7, <2>1 DEF Untorn, AskedAhead, Sending
  <2>. QED
    BY <1>2, <2>2 DEF SentNN, QueueNN
<1>. QED
  BY <1>2, <1>7 DEF SentNN, BodyNN, QueueNN, Sending

\* Every step keeps what is counted.
LEMMA SentStep ==
  ASSUME Core, Core', SentNN, [NextNN]_vars
  PROVE  SentNN'
<1>1. CASE Quiet
  <2>1. UNCHANGED <<requests, replies>> /\ \A c \in Conns : Owes(c)' <=> Owes(c)
    BY <1>1 DEF Quiet
  <2>3. BodyNN'
    BY <1>1 DEF Quiet, SentNN, BodyNN
  <2>4. ASSUME pc' # "dead", NEW c \in Conns, Untorn(c)', Owes(c)'
        PROVE  outq'[c] <= IF Sending(c)' THEN replies'[c].body ELSE 0
    <3>1. pc # "dead" /\ (Sending(c)' <=> Sending(c))
      BY <1>1, <2>4 DEF Quiet, Sending
    <3>2. outq[c] <= IF Sending(c) THEN replies[c].body ELSE 0
      BY <2>1, <2>4, <3>1 DEF SentNN, QueueNN, Untorn, AskedAhead
    <3>3. outq'[c] <= outq[c]
      BY <1>1 DEF Quiet
    <3>4. outq' \in [Conns -> 0 .. SNDBUF]
      BY DEF Core, EpollServerTypeOK, SockTypeOK
    <3>5. outq[c] \in Nat /\ replies[c].body \in Nat /\ outq'[c] \in Nat
      BY <2>4, <3>4, SendTypes DEF Core
    <3>. QED
      BY <2>1, <3>1, <3>2, <3>3, <3>5
  <2>. QED
    BY <2>3, <2>4 DEF SentNN, QueueNN
<1>. QED
  BY <1>1, LoudSteps, SentWhole, SentReply, SentBody, SentBreaks

\* A write is refused only by a peer that asked ahead or was reset.
LEMMA RefusedForCause ==
  ASSUME Core, SentNN, SNDBUF >= REPLY_LEN, pc = "body", NEW c \in Conns,
         c = conn_at[cur], SendFails(c), ~ replies[c].torn
  PROVE  AskedAhead(c) \/ peer[c] = "reset"
<1>. SUFFICES ASSUME ~ AskedAhead(c), Space(c) = 0 PROVE FALSE
  BY DEF SendFails
<1>1. Owes(c)
  BY HandlerKnows DEF Owes
<1>2. outq[c] <= replies[c].body
  BY <1>1 DEF SentNN, QueueNN, Untorn, Sending
<1>3. replies[c].body = REPLY_LEN - left_len /\ left_len > 0
  BY DEF SentNN, BodyNN
<1>4. outq[c] \in Nat /\ left_len \in Int /\ SNDBUF \in Nat
  BY SendTypes DEF Core
<1>. QED
  BY <1>2, <1>3, <1>4, ReplyAssumption DEF Space

\* At first nothing has been sent.
LEMMA InitSent == Init => SentNN
  BY DEF Init, SockInit, SentNN, BodyNN, QueueNN, Sending

(***************************************************************************)
(* However often a peer asks, the earlier server gives the rest of a reply *)
(* up only after the peer asked without having read all it was sent, or    *)
(* was reset, when the send queue has room for one reply (the kernel's     *)
(* smallest is several kilobytes, the reply thirteen bytes).               *)
(***************************************************************************)
THEOREM RepliesGivenUpForCause ==
  ASSUME SNDBUF >= REPLY_LEN
  PROVE  SpecNN => GivenUpForCause
<1> DEFINE ForCause == \A c \in Conns : replies'[c].torn /\ ~ replies[c].torn =>
                         AskedAhead(c) \/ peer[c] = "reset"
<1>1. InvNN /\ InvNN' /\ SentNN /\ [NextNN]_vars => SentNN'
  BY SentStep DEF InvNN
<1>2. InvNN /\ SentNN /\ [NextNN]_vars => [ForCause]_vars
  <2>. SUFFICES ASSUME Core, SentNN, [NextNN]_vars, NEW c \in Conns,
                       replies'[c].torn, ~ replies[c].torn
                PROVE  AskedAhead(c) \/ peer[c] = "reset"
    BY DEF InvNN
  <2>1. replies \in [Conns -> ReplyRecord]
    BY SendTypes DEF Core
  <2>2. ~ Quiet /\ ~ (\E n \in Nat : WholeNN(n))
    BY DEF Quiet, WholeNN, ReadGets
  <2>3. ~ (\E fd \in Fds : ReplyNN(fd)) /\ ~ WriteBody
    <3>1. ASSUME NEW fd \in Fds, ReplyNN(fd) PROVE FALSE
      BY <2>1, <3>1 DEF ReplyNN, ReplyRecord
    <3>2. ASSUME WriteBody PROVE FALSE
      BY <2>1, <3>2 DEF WriteBody, ReplyRecord
    <3>. QED
      BY <3>1, <3>2
  <2>4. WriteBreaks
    BY <2>2, <2>3, LoudSteps
  <2>5. pc = "body" /\ c = conn_at[cur] /\ SendFails(c)
    BY <2>1, <2>4, HandlerKnows DEF WriteBreaks
  <2>. QED
    BY <2>5, RefusedForCause
<1>3. SpecNN => []SentNN
  BY InitSent, <1>1, InvarianceNN, PTL DEF SpecNN
<1>. QED
  BY <1>2, <1>3, InvarianceNN, PTL DEF SpecNN, GivenUpForCause

=============================================================================
