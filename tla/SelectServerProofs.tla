------------------------- MODULE SelectServerProofs -------------------------
(***************************************************************************)
(* Proofs about SelectServer, for any number of connections and            *)
(* descriptors and any streams, sizes and faults.                          *)
(*                                                                         *)
(* One inductive invariant.  Its parts say how descriptors, connections    *)
(* and the backlog hang together (Links), where the thread is in its list  *)
(* (Place), which of the descriptors select reported are still to be read  *)
(* (Promised), and what was received and answered on each connection.      *)
(***************************************************************************)
EXTENDS SelectServer, TLAPS, FiniteSetTheorems, SequenceTheorems

Links ==
  /\ \A f, g \in Fds : conn_at[f] = conn_at[g] /\ conn_at[f] \in Conns => f = g
  /\ \A fd \in Fds : conn_at[fd] \in Conns =>
       conn_at[fd] \notin backlog /\ peer[conn_at[fd]] \notin {"none", "over"}
  /\ \A c \in backlog : peer[c] \notin {"none", "over"}

Place ==
  /\ pc \in {"read", "write"} => iter \in DOMAIN list_accept_fd /\ Fd \in read_fd_set
  /\ pc \in {"select", "accept"} => iter = 1 /\ Closed = {}
  /\ pc = "accept" => read_fd_set \subseteq Listed \cup {ListenFd} /\ backlog # {}
  /\ Closed \cap read_fd_set = {}

\* The loop has not read at place i of the list yet.
Ahead(i) ==
  \/ pc \in {"accept", "next"} /\ i >= iter
  \/ pc = "read" /\ (i > iter \/ (i = iter /\ ~ got))
  \/ pc = "write" /\ i > iter

Promised ==
  \A i \in DOMAIN list_accept_fd :
    Reported(i) /\ Ahead(i) => ~ ReadWouldBlock(conn_at[list_accept_fd[i]])

Answered ==
  \A c \in Conns : peer[c] \in {"none", "up", "fin"} =>
    requests[c] - replies[c] = IF pc = "write" /\ Conn = c THEN 1 ELSE 0

InStream == \A c \in Conns : taken[c] <= arrived[c]

SelectInv == /\ SelectServerTypeOK /\ Links /\ ListIsOpen /\ Place
             /\ Promised /\ Answered /\ InStream

-----------------------------------------------------------------------------
(***************************************************************************)
(* What the invariant says of one place of the loop.                       *)
(***************************************************************************)

\* The types, of the elements as well.
LEMMA SelectTypes ==
  ASSUME SelectServerTypeOK
  PROVE  /\ conn_at \in [Fds -> Conns \cup {NoConn}] /\ backlog \subseteq Conns
         /\ peer \in [Conns -> PeerStates]
         /\ arrived \in [Conns -> Nat] /\ taken \in [Conns -> Nat]
         /\ outq \in [Conns -> 0 .. SNDBUF] /\ SNDBUF \in Nat
         /\ list_accept_fd \in Seq(Fds) /\ Len(list_accept_fd) \in Nat
         /\ DOMAIN list_accept_fd = 1 .. Len(list_accept_fd)
         /\ \A i \in DOMAIN list_accept_fd : list_accept_fd[i] \in Fds
         /\ vec_close_fd \in Seq(Fds) /\ Len(vec_close_fd) \in Nat
         /\ DOMAIN vec_close_fd = 1 .. Len(vec_close_fd)
         /\ iter \in Nat /\ iter >= 1 /\ iter <= Len(list_accept_fd) + 1
         /\ left \in Nat /\ got \in BOOLEAN
         /\ requests \in [Conns -> Nat]
         /\ replies \in [Conns -> Nat]
<1>1. list_accept_fd \in Seq(Fds) /\ vec_close_fd \in Seq(Fds)
  BY DEF SelectServerTypeOK
<1>2. /\ Len(list_accept_fd) \in Nat /\ DOMAIN list_accept_fd = 1 .. Len(list_accept_fd)
      /\ Len(vec_close_fd) \in Nat /\ DOMAIN vec_close_fd = 1 .. Len(vec_close_fd)
  BY <1>1
<1>3. \A i \in DOMAIN list_accept_fd : list_accept_fd[i] \in Fds
  BY <1>1, <1>2, ElementOfSeq
<1> QED
  BY <1>1, <1>2, <1>3, QueueAssumption DEF SelectServerTypeOK, SockTypeOK

\* While the thread reads or answers, its descriptor is open, and at one
\* place of the list only.
LEMMA AtFd ==
  ASSUME SelectInv, pc \in {"read", "write"}
  PROVE  /\ iter \in DOMAIN list_accept_fd /\ Fd = list_accept_fd[iter]
         /\ Fd \in Fds /\ Fd \in read_fd_set /\ Fd \notin Closed
         /\ Conn = conn_at[Fd] /\ Conn \in Conns
         /\ peer[Conn] \notin {"none", "over"} /\ Conn \notin backlog
         /\ \A f \in Fds : conn_at[f] = Conn => f = Fd
         /\ \A i \in DOMAIN list_accept_fd : list_accept_fd[i] = Fd => i = iter
<1>1. iter \in DOMAIN list_accept_fd /\ Fd \in read_fd_set /\ Fd \notin Closed
  BY DEF SelectInv, Place
<1>2. Fd \in Fds /\ Fd \in Listed
  BY <1>1, SelectTypes DEF SelectInv, Fd, Listed
<1>3. conn_at[Fd] # NoConn /\ conn_at[Fd] \in Conns
  BY <1>1, <1>2, SelectTypes DEF SelectInv, ListIsOpen
<1> QED
  BY <1>1, <1>2, <1>3 DEF Conn, Fd, SelectInv, Links, ListIsOpen

\* A place the loop still has to read holds an open descriptor.
LEMMA AheadIsOpen ==
  ASSUME SelectInv, NEW i \in DOMAIN list_accept_fd, Reported(i)
  PROVE  /\ list_accept_fd[i] \in Fds
         /\ conn_at[list_accept_fd[i]] \in Conns
         /\ peer[conn_at[list_accept_fd[i]]] \notin {"none", "over"}
         /\ conn_at[list_accept_fd[i]] \notin backlog
<1>1. list_accept_fd[i] \in Fds /\ list_accept_fd[i] \in Listed \ Closed
  BY SelectTypes DEF SelectInv, Place, Reported, Listed
<1>2. conn_at[list_accept_fd[i]] \in Conns
  BY <1>1, SelectTypes DEF SelectInv, ListIsOpen
<1> QED
  BY <1>1, <1>2 DEF SelectInv, Links

-----------------------------------------------------------------------------
(***************************************************************************)
(* The peers.                                                              *)
(***************************************************************************)

\* Whatever the peers do, what select reported stays readable, and a
\* connection is open to one descriptor only.
LEMMA PeersKeep ==
  ASSUME SelectInv, NEW c \in Conns,
         Peer(Connect(c)) \/ Peer(PeerSend(c)) \/ Peer(PeerRead(c)) \/ Peer(PeerLeaves(c))
  PROVE  SelectInv'
<1>1. /\ pc # "over" /\ SelectServerTypeOK /\ InStream
      /\ UNCHANGED <<locals, lists, history, conn_at, taken>>
  BY DEF Peer, Connect, PeerSend, PeerRead, PeerLeaves, SelectInv
<1>2. UNCHANGED <<pc, iter, left, got, list_accept_fd, vec_close_fd, read_fd_set,
                  requests, replies>>
  BY <1>1 DEF locals, lists, history
<1>3. /\ arrived' \in [Conns -> Nat] /\ \A d \in Conns : arrived[d] <= arrived'[d]
  <2>1. CASE UNCHANGED arrived
    BY <1>1, <2>1, SelectTypes
  <2>2. CASE PeerSend(c)
    <3>1. PICK n \in 1 .. Len(Stream[c]) - arrived[c] :
            arrived' = [arrived EXCEPT ![c] = arrived[c] + n]
      BY <2>2 DEF PeerSend
    <3>2. Len(Stream[c]) \in Nat
      BY StreamAssumption
    <3>3. \A d \in Conns : arrived[d] \in Nat /\ arrived[d] <= arrived[d]
      BY <1>1, SelectTypes
    <3>4. arrived[c] + n \in Nat /\ arrived[c] <= arrived[c] + n
      BY <3>2, <3>3
    <3>5. arrived \in [Conns -> Nat]
      BY <1>1, SelectTypes
    <3> QED
      BY <3>1, <3>3, <3>4, <3>5
  <2> QED
    BY <2>1, <2>2 DEF Peer, Connect, PeerRead, PeerLeaves
<1>4. \/ UNCHANGED <<peer, backlog>>
      \/ Connect(c)
      \/ peer[c] \in {"up", "fin"} /\ UNCHANGED backlog
           /\ \E s \in {"fin", "reset", "pipe"} : peer' = [peer EXCEPT ![c] = s]
           /\ (peer'[c] \in {"none", "up", "fin"} => peer[c] = "up")
  BY <1>1, SelectTypes DEF Peer, PeerSend, PeerRead, PeerLeaves, PeerStates
<1>5. SelectServerTypeOK'
  <2>1. peer' \in [Conns -> PeerStates] /\ backlog' \subseteq Conns
    BY <1>1, <1>4, SelectTypes DEF Connect, PeerStates
  <2>2. outq' \in [Conns -> 0 .. SNDBUF]
    <3>1. UNCHANGED outq \/ outq' = [outq EXCEPT ![c] = 0]
      BY DEF Peer, Connect, PeerSend, PeerRead, PeerLeaves
    <3>2. outq \in [Conns -> 0 .. SNDBUF] /\ 0 \in 0 .. SNDBUF
      BY <1>1, SelectTypes
    <3> QED
      BY <3>1, <3>2
  <2> QED
    BY <1>1, <1>2, <1>3, <2>1, <2>2 DEF SelectServerTypeOK, SockTypeOK
<1>6. Links'
  <2>1. CASE Connect(c)
    BY SMTT(20), <1>1, <2>1, SelectTypes DEF SelectInv, Links, Connect
  <2>2. CASE ~ Connect(c)
    BY <1>1, <1>4, <2>2, SelectTypes DEF SelectInv, Links
  <2> QED
    BY <2>1, <2>2
<1>7. ListIsOpen'
  BY <1>1, <1>2 DEF SelectInv, ListIsOpen, Listed, Closed
<1>8. Place'
  <2>1. backlog \subseteq backlog'
    BY <1>4 DEF Connect
  <2> QED
    BY <1>2, <2>1 DEF SelectInv, Place, Listed, Closed, Fd
<1>9. Promised'
  <2> SUFFICES ASSUME NEW i \in DOMAIN list_accept_fd, Reported(i), Ahead(i)
               PROVE  ~ ReadWouldBlock(conn_at[list_accept_fd[i]])'
    BY <1>1, <1>2 DEF Promised, Reported, Ahead
  <2>1. PICK d \in Conns : d = conn_at[list_accept_fd[i]]
    BY AheadIsOpen
  <2>2. peer[d] # "none" /\ ~ ReadWouldBlock(d)
    BY <2>1, AheadIsOpen DEF SelectInv, Promised
  <2>3. /\ taken[d] \in Nat /\ arrived[d] \in Nat /\ arrived'[d] \in Nat
        /\ taken[d] <= arrived[d] /\ arrived[d] <= arrived'[d]
    BY <1>1, <1>3, SelectTypes DEF InStream
  <2>4. peer'[d] = "up" => peer[d] = "up"
    BY <1>1, <1>4, <2>2, SelectTypes DEF Connect
  <2>5. ~ (arrived'[d] - taken[d] = 0 /\ peer'[d] = "up")
    BY <2>2, <2>3, <2>4 DEF ReadWouldBlock, Unread
  <2> QED
    BY <1>1, <1>2, <2>1, <2>5 DEF ReadWouldBlock, Unread
<1>11. Answered'
  <2>1. \A d \in Conns : peer'[d] \in {"none", "up", "fin"} => peer[d] \in {"none", "up", "fin"}
    BY <1>1, <1>4, SelectTypes DEF Connect
  <2> QED
    BY <1>1, <1>2, <2>1 DEF SelectInv, Answered, Conn, Fd
<1>12. InStream'
  <2>1. \A d \in Conns : taken[d] \in Nat /\ arrived[d] \in Nat /\ arrived'[d] \in Nat
    BY <1>1, <1>3, SelectTypes
  <2> QED
    BY <1>1, <1>3, <2>1 DEF InStream
<1> QED
  BY <1>5, <1>6, <1>7, <1>8, <1>9, <1>11, <1>12 DEF SelectInv

-----------------------------------------------------------------------------
(***************************************************************************)
(* The pass of the loop.                                                   *)
(***************************************************************************)

\* select reports what is readable, and the backlog only when it holds a
\* connection.
LEMMA SelectKeeps ==
  ASSUME SelectInv, Select
  PROVE  SelectInv'
<1>1. SelectServerTypeOK /\ iter = 1 /\ Closed = {}
  BY DEF Select, SelectInv, Place
<1>2. /\ UNCHANGED <<conn_at, backlog, peer, arrived, taken, outq, requests,
                     replies, list_accept_fd, vec_close_fd, iter, left, got>>
      /\ read_fd_set' = Readable \cup (IF backlog = {} THEN {} ELSE {ListenFd})
      /\ pc' = IF ListenFd \in read_fd_set' THEN "accept" ELSE "next"
      /\ pc = "select"
  BY DEF Select, sockVars, history
<1>3. ListenFd \notin Fds
  BY FdAssumption DEF Fds
<1>4. Readable \subseteq Listed /\ Listed \subseteq Fds
  BY <1>1, SelectTypes DEF Readable, Listed
<1>5. SelectServerTypeOK'
  BY <1>1, <1>2, <1>4 DEF SelectServerTypeOK, SockTypeOK, Watched
<1>6. Links' /\ ListIsOpen' /\ Answered' /\ InStream'
  BY <1>2
     DEF SelectInv, Links, ListIsOpen, Listed, Closed, Answered, Conn,
         Fd, InStream
<1>7. Place'
  BY <1>1, <1>2, <1>3, <1>4 DEF Place, Listed, Closed
<1>8. Promised'
  <2> SUFFICES ASSUME NEW i \in DOMAIN list_accept_fd, list_accept_fd[i] \in read_fd_set'
               PROVE  ~ ReadWouldBlock(conn_at[list_accept_fd[i]])
    BY <1>2 DEF Promised, Reported, ReadWouldBlock, Unread
  <2>1. list_accept_fd[i] \in Readable
    BY <1>1, <1>2, <1>3, SelectTypes
  <2> QED
    BY <2>1 DEF Readable
<1> QED
  BY <1>5, <1>6, <1>7, <1>8 DEF SelectInv

\* accept returns a descriptor the list does not name, and select has not
\* reported.
LEMMA AcceptKeeps ==
  ASSUME SelectInv, Accept
  PROVE  SelectInv'
<1>1. PICK c \in backlog, fd \in Fds :
        /\ LowestFree(fd)
        /\ conn_at' = [conn_at EXCEPT ![fd] = c]
        /\ backlog' = backlog \ {c}
        /\ list_accept_fd' = Append(list_accept_fd, fd)
  BY DEF Accept
<1>2. /\ UNCHANGED <<peer, arrived, taken, outq, requests, replies,
                     vec_close_fd, read_fd_set, iter, left, got>>
      /\ pc = "accept" /\ pc' = "next"
  BY DEF Accept, history
<1>3. /\ SelectServerTypeOK /\ iter = 1 /\ Closed = {} /\ Closed' = {}
      /\ read_fd_set \subseteq Listed \cup {ListenFd}
  BY <1>2 DEF SelectInv, Place, Closed
<1>4. c \in Conns /\ c # NoConn /\ conn_at[fd] = NoConn /\ fd # ListenFd
  BY SMTT(20), <1>1, <1>3, SelectTypes, ConnAssumption, FdAssumption DEF LowestFree, Fds
<1>5. fd \notin Listed /\ fd \notin read_fd_set
  BY <1>3, <1>4 DEF SelectInv, ListIsOpen
<1>6. /\ list_accept_fd' \in Seq(Fds) /\ Len(list_accept_fd') = Len(list_accept_fd) + 1
      /\ DOMAIN list_accept_fd' = 1 .. Len(list_accept_fd) + 1
      /\ \A i \in DOMAIN list_accept_fd : list_accept_fd'[i] = list_accept_fd[i]
      /\ list_accept_fd'[Len(list_accept_fd) + 1] = fd
      /\ DOMAIN list_accept_fd = 1 .. Len(list_accept_fd) /\ Len(list_accept_fd) \in Nat
  BY <1>1, <1>3, SelectTypes
<1>7. Listed' = Listed \cup {fd}
  BY <1>6 DEF Listed
<1>8. SelectServerTypeOK'
  BY SMTT(20), <1>1, <1>2, <1>3, <1>4, <1>6, SelectTypes DEF SelectServerTypeOK, SockTypeOK
<1>9. \A f \in Fds \ {fd} : conn_at'[f] = conn_at[f]
  BY <1>1, <1>3, SelectTypes
<1>10. conn_at'[fd] = c
  BY <1>1, <1>3, SelectTypes
<1>11. Links'
  <2>1. \A f \in Fds : conn_at[f] # c
    BY <1>1, <1>4 DEF SelectInv, Links
  <2> QED
    BY <1>1, <1>2, <1>4, <1>9, <1>10, <2>1 DEF SelectInv, Links
<1>12. ListIsOpen'
  <2>1. \A i \in DOMAIN list_accept_fd : list_accept_fd[i] # fd
    BY <1>5 DEF Listed
  <2>2. \A i, j \in DOMAIN list_accept_fd' :
          list_accept_fd'[i] = list_accept_fd'[j] => i = j
    BY <1>6, <2>1 DEF SelectInv, ListIsOpen
  <2>3. \A f \in Fds : conn_at'[f] # NoConn <=> f \in Listed'
    BY <1>3, <1>4, <1>7, <1>9, <1>10 DEF SelectInv, ListIsOpen
  <2> QED
    BY <1>2, <1>3, <2>2, <2>3 DEF ListIsOpen
<1>13. Place'
  BY <1>2, <1>3 DEF Place
<1>14. Promised'
  <2> SUFFICES ASSUME NEW i \in DOMAIN list_accept_fd', list_accept_fd'[i] \in read_fd_set
               PROVE  ~ ReadWouldBlock(conn_at'[list_accept_fd'[i]])
    BY <1>2 DEF Promised, Reported, ReadWouldBlock, Unread
  <2>1. i \in DOMAIN list_accept_fd /\ list_accept_fd'[i] = list_accept_fd[i]
    BY <1>5, <1>6
  <2>2. Reported(i) /\ Ahead(i)
    BY <1>2, <1>3, <1>6, <2>1 DEF Reported, Ahead
  <2>3. conn_at'[list_accept_fd[i]] = conn_at[list_accept_fd[i]]
    BY <1>3, <1>5, <1>9, <2>1, SelectTypes
  <2> QED
    BY <2>1, <2>2, <2>3 DEF SelectInv, Promised
<1>15. Answered' /\ InStream'
  BY <1>2 DEF SelectInv, Answered, InStream
<1> QED
  BY <1>8, <1>11, <1>12, <1>13, <1>14, <1>15 DEF SelectInv

\* accept had no descriptor to give: nothing has changed.
LEMMA AcceptFailsKeeps ==
  ASSUME SelectInv, AcceptFails
  PROVE  SelectInv'
<1>1. /\ UNCHANGED <<conn_at, backlog, peer, arrived, taken, outq, requests,
                     replies, list_accept_fd, vec_close_fd, read_fd_set, iter, left, got>>
      /\ pc = "accept" /\ pc' = "select"
  BY DEF AcceptFails, sockVars, history, lists
<1>2. SelectServerTypeOK'
  BY <1>1 DEF SelectInv, SelectServerTypeOK, SockTypeOK
<1>3. Links' /\ Answered' /\ InStream' /\ Promised'
  BY <1>1 DEF SelectInv, Links, Answered, InStream, Promised, Ahead
<1>4. ListIsOpen' /\ Place'
  BY <1>1 DEF SelectInv, ListIsOpen, Place, Listed, Closed
<1> QED
  BY <1>2, <1>3, <1>4 DEF SelectInv

\* The loop comes to the next descriptor reported.
LEMMA ReadNextKeeps ==
  ASSUME SelectInv, ReadNext
  PROVE  SelectInv'
<1>1. PICK i \in DOMAIN list_accept_fd : i >= iter /\ Reported(i) /\ iter' = i
  BY DEF ReadNext
<1>2. /\ UNCHANGED <<conn_at, backlog, peer, arrived, taken, outq, requests,
                     replies, list_accept_fd, vec_close_fd, read_fd_set, left>>
      /\ pc = "next" /\ pc' = "read" /\ got' = FALSE
  BY DEF ReadNext, sockVars, history, lists
<1>3. SelectServerTypeOK
  BY DEF SelectInv
<1>4. SelectServerTypeOK'
  <2>1. i \in 1 .. Len(list_accept_fd) + 1
    BY <1>3, SelectTypes
  <2> QED
    BY <1>1, <1>2, <1>3, <2>1 DEF SelectServerTypeOK, SockTypeOK
<1>5. Links' /\ ListIsOpen' /\ InStream' /\ Answered'
  BY <1>2 DEF SelectInv, Links, ListIsOpen, Listed, Closed, InStream, Answered
<1>6. Place'
  BY <1>1, <1>2 DEF SelectInv, Place, Closed, Reported, Fd
<1>7. Promised'
  <2> SUFFICES ASSUME NEW j \in DOMAIN list_accept_fd, Reported(j), j >= i
               PROVE  ~ ReadWouldBlock(conn_at[list_accept_fd[j]])
    BY <1>1, <1>2, <1>3, SelectTypes DEF Promised, Reported, Ahead, ReadWouldBlock, Unread
  <2>1. Ahead(j)
    BY <1>1, <1>2, <1>3, SelectTypes DEF Ahead
  <2> QED
    BY <2>1 DEF SelectInv, Promised
<1> QED
  BY <1>4, <1>5, <1>6, <1>7 DEF SelectInv

\* An increasing numbering of the kept places, as many as there are, names
\* each of them.
LEMMA NumberingNamesAll ==
  ASSUME SelectServerTypeOK, NEW place \in [1 .. Cardinality(Kept) -> Kept],
         \A i, j \in DOMAIN place : i < j => place[i] < place[j]
  PROVE  /\ Cardinality(Kept) \in Nat
         /\ \A i, j \in DOMAIN place : place[i] = place[j] => i = j
         /\ \A k \in Kept : \E i \in DOMAIN place : place[i] = k
<1>1. IsFiniteSet(Kept) /\ Kept \subseteq Nat
  <2>1. IsFiniteSet(1 .. Len(list_accept_fd)) /\ Kept \in SUBSET (1 .. Len(list_accept_fd))
    BY SelectTypes, FS_Interval DEF Kept
  <2>2. IsFiniteSet(Kept)
    BY <2>1, FS_Subset
  <2>3. Len(list_accept_fd) \in Nat
    BY SelectTypes
  <2> QED
    BY <2>1, <2>2, <2>3
<1>2. Cardinality(Kept) \in Nat
  BY <1>1, FS_CardinalityType
<1>3. ASSUME NEW i \in DOMAIN place, NEW j \in DOMAIN place, place[i] = place[j]
      PROVE  i = j
  <2>0. DOMAIN place = 1 .. Cardinality(Kept)
    OBVIOUS
  <2>1. i \in Nat /\ j \in Nat /\ place[i] \in Nat
    <3>1. place[i] \in Kept
      BY <2>0
    <3>2. place[i] \in Nat
      BY <1>1, <3>1
    <3>3. i \in 1 .. Cardinality(Kept) /\ j \in 1 .. Cardinality(Kept)
      BY <2>0
    <3>4. i \in Nat /\ j \in Nat
      BY <1>2, <3>3
    <3> QED
      BY <3>2, <3>4
  <2>2. ~ (i < j) /\ ~ (j < i)
    BY <1>3, <2>1
  <2> QED
    BY <2>1, <2>2
<1>4. place \in Injection(1 .. Cardinality(Kept), Kept)
  BY <1>3 DEF Injection, IsInjective
<1>5. Cardinality(1 .. Cardinality(Kept)) = Cardinality(Kept)
  BY <1>2, FS_Interval
<1>6. place \in Surjection(1 .. Cardinality(Kept), Kept)
  BY <1>1, <1>4, <1>5, FS_Injection
<1> QED
  BY <1>2, <1>3, <1>6 DEF Surjection

\* At the end of a pass the list names the open descriptors only.
LEMMA EndPassKeeps ==
  ASSUME SelectInv, EndPass
  PROVE  SelectInv'
<1>1. PICK place \in [1 .. Cardinality(Kept) -> Kept] :
        /\ \A i, j \in DOMAIN place : i < j => place[i] < place[j]
        /\ list_accept_fd' = [i \in DOMAIN place |-> list_accept_fd[place[i]]]
  BY DEF EndPass
<1>2. /\ UNCHANGED <<conn_at, backlog, peer, arrived, taken, outq, requests,
                     replies, read_fd_set, left, got>>
      /\ pc = "next" /\ pc' = "select" /\ vec_close_fd' = <<>> /\ iter' = 1
  BY DEF EndPass, sockVars, history
<1>3. SelectServerTypeOK
  BY DEF SelectInv
<1>4. /\ Cardinality(Kept) \in Nat
      /\ \A i, j \in DOMAIN place : place[i] = place[j] => i = j
      /\ \A k \in Kept : \E i \in DOMAIN place : place[i] = k
  BY <1>1, <1>3, NumberingNamesAll
<1>5. /\ DOMAIN list_accept_fd' = DOMAIN place
      /\ \A i \in DOMAIN place : /\ place[i] \in DOMAIN list_accept_fd
                                 /\ list_accept_fd'[i] = list_accept_fd[place[i]]
                                 /\ list_accept_fd'[i] \in Fds
                                 /\ list_accept_fd'[i] \notin Closed
  BY <1>1, <1>3, SelectTypes DEF Kept
<1>6. list_accept_fd' \in Seq(Fds) /\ Len(list_accept_fd') \in Nat
  BY <1>1, <1>4, <1>5
<1>7. SelectServerTypeOK'
  <2>1. iter' \in 1 .. Len(list_accept_fd') + 1 /\ vec_close_fd' \in Seq(Fds)
    BY <1>2, <1>6
  <2> QED
    BY <1>2, <1>3, <1>6, <2>1 DEF SelectServerTypeOK, SockTypeOK
<1>8. Closed' = {}
  BY <1>2 DEF Closed
<1>9. Listed' = Listed \ Closed
  <2>1. ASSUME NEW fd \in Listed \ Closed PROVE fd \in Listed'
    <3>1. PICK k \in DOMAIN list_accept_fd : fd = list_accept_fd[k]
      BY DEF Listed
    <3>2. k \in Kept
      BY <3>1 DEF Kept
    <3> QED
      BY <1>4, <1>5, <3>1, <3>2 DEF Listed
  <2>2. Listed' \subseteq Listed \ Closed
    BY <1>5 DEF Listed
  <2> QED
    BY <2>1, <2>2
<1>10. ListIsOpen'
  <2>1. \A i, j \in DOMAIN list_accept_fd' :
          list_accept_fd'[i] = list_accept_fd'[j] => i = j
    BY <1>4, <1>5 DEF SelectInv, ListIsOpen
  <2> QED
    BY <1>2, <1>8, <1>9, <2>1 DEF SelectInv, ListIsOpen
<1>11. Links' /\ Place' /\ Promised' /\ Answered' /\ InStream'
  BY <1>2, <1>8
     DEF SelectInv, Links, Place, Promised, Ahead, Answered, InStream
<1> QED
  BY <1>7, <1>10, <1>11 DEF SelectInv

-----------------------------------------------------------------------------
(***************************************************************************)
(* Reading.                                                                *)
(***************************************************************************)

\* A read takes bytes out of the queue of its connection; the descriptors the
\* loop still has to come to are those of others.
LEMMA GetsKeeps ==
  ASSUME SelectInv, NEW n \in Nat, Gets(n)
  PROVE  /\ Conn \in Conns /\ Fd \in Fds
         /\ UNCHANGED <<Conn, Fd>>
         /\ taken' = [taken EXCEPT ![Conn] = taken[Conn] + n] /\ taken' \in [Conns -> Nat]
         /\ got' = TRUE
         /\ UNCHANGED <<conn_at, backlog, peer, arrived, outq, list_accept_fd,
                        vec_close_fd, read_fd_set, iter, replies>>
         /\ Links' /\ InStream'
         /\ (pc' \in {"read", "write"} => ListIsOpen' /\ Place' /\ Promised')
<1>1. /\ pc = "read" /\ SelectServerTypeOK
      /\ n = Smaller(Unread(Conn), MSG_SIZE) /\ n > 0
      /\ taken' = [taken EXCEPT ![Conn] = taken[Conn] + n] /\ got' = TRUE
      /\ UNCHANGED <<conn_at, backlog, peer, arrived, outq, list_accept_fd,
                     vec_close_fd, read_fd_set, iter, replies>>
  BY DEF Gets, SelectInv, lists
<1>2. Conn \in Conns /\ Fd \in Fds /\ UNCHANGED <<Conn, Fd>>
  BY <1>1, AtFd DEF Conn, Fd
<1>3. PICK c \in Conns : c = Conn
  BY <1>2
<1>4. arrived[c] \in Nat /\ taken[c] \in Nat
  BY <1>1, SelectTypes
<1>5. taken[c] + n <= arrived[c]
  BY <1>1, <1>3, <1>4, SizeAssumption DEF Smaller, Unread
<1>6. /\ taken' \in [Conns -> Nat]
      /\ taken'[c] = taken[c] + n /\ \A d \in Conns \ {c} : taken'[d] = taken[d]
  <2>1. taken[c] + n \in Nat
    BY <1>1, <1>4
  <2>2. taken \in [Conns -> Nat]
    BY <1>1, SelectTypes
  <2> QED
    BY <1>1, <1>3, <2>1, <2>2
<1>7. Links' /\ InStream'
  BY <1>1, <1>5, <1>6 DEF SelectInv, Links, InStream
<1>8. ASSUME pc' \in {"read", "write"} PROVE ListIsOpen' /\ Place' /\ Promised'
  <2>1. ListIsOpen'
    BY <1>1, <1>8 DEF SelectInv, ListIsOpen, Listed, Closed
  <2>2. Place'
    BY <1>1, <1>8 DEF SelectInv, Place, Listed, Closed, Fd
  <2>3. Promised'
    <3> SUFFICES ASSUME NEW i \in DOMAIN list_accept_fd, Reported(i), i > iter
                 PROVE  ~ ReadWouldBlock(conn_at[list_accept_fd[i]])'
      BY <1>1, <1>6, <1>8 DEF Promised, Reported, Ahead
    <3>1. PICK d \in Conns : d = conn_at[list_accept_fd[i]]
      BY AheadIsOpen
    <3>2. d # c
      <4>1. list_accept_fd[i] # Fd
        BY <1>1, AtFd, SelectTypes
      <4> QED
        BY <1>1, <1>3, <3>1, <4>1, AtFd, SelectTypes
    <3>3. ~ ReadWouldBlock(d)
      BY <1>1, <3>1 DEF SelectInv, Promised, Ahead
    <3> QED
      BY <1>1, <1>6, <3>1, <3>2, <3>3 DEF ReadWouldBlock, Unread
  <2> QED
    BY <2>1, <2>2, <2>3
<1> QED
  BY <1>1, <1>2, <1>6, <1>7, <1>8

\* A read of all it asked for: the loop reads on.
LEMMA ReadMoreKeeps ==
  ASSUME SelectInv, NEW n \in Nat, ReadMore(n)
  PROVE  SelectInv'
<1>1. /\ Gets(n) /\ pc = "read" /\ SelectServerTypeOK
      /\ UNCHANGED <<pc, left, requests>>
  BY DEF ReadMore, Gets, SelectInv
<1>2. /\ UNCHANGED <<conn_at, backlog, peer, arrived, outq, list_accept_fd,
                     vec_close_fd, read_fd_set, iter, replies, Conn, Fd>>
      /\ taken' \in [Conns -> Nat] /\ got' = TRUE
      /\ Links' /\ InStream' /\ ListIsOpen' /\ Place' /\ Promised'
  BY <1>1, GetsKeeps
<1>3. SelectServerTypeOK'
  BY <1>1, <1>2 DEF SelectServerTypeOK, SockTypeOK
<1>4. Answered'
  BY <1>1, <1>2 DEF SelectInv, Answered
<1> QED
  BY <1>2, <1>3, <1>4 DEF SelectInv

\* A read of less than it asked for ends the request.
LEMMA ReadLastKeeps ==
  ASSUME SelectInv, NEW n \in Nat, ReadLast(n)
  PROVE  SelectInv'
<1>1. /\ Gets(n) /\ pc = "read" /\ pc' = "write" /\ SelectServerTypeOK
      /\ requests' = [requests EXCEPT ![Conn] = requests[Conn] + 1]
      /\ left' = REPLY_LEN
  BY DEF ReadLast, Gets, SelectInv
<1>2. /\ UNCHANGED <<conn_at, backlog, peer, arrived, outq, list_accept_fd,
                     vec_close_fd, read_fd_set, iter, replies, Conn, Fd>>
      /\ taken' \in [Conns -> Nat] /\ got' = TRUE
      /\ Links' /\ InStream' /\ ListIsOpen' /\ Place' /\ Promised'
  BY <1>1, GetsKeeps
<1>3. PICK c \in Conns : c = Conn
  BY <1>1, GetsKeeps
<1>4. /\ requests[c] \in Nat /\ replies[c] \in Nat
  BY <1>1, <1>3, GetsKeeps, SelectTypes
<1>5. /\ requests' \in [Conns -> Nat]
      /\ requests'[c] = requests[c] + 1
      /\ \A d \in Conns \ {c} : requests'[d] = requests[d]
  <2>1. requests[c] + 1 \in Nat
    BY <1>2, <1>4
  <2>2. requests \in [Conns -> Nat]
    BY <1>1, SelectTypes
  <2> QED
    BY <1>1, <1>3, <2>1, <2>2
<1>6. SelectServerTypeOK'
  BY <1>1, <1>2, <1>5, SizeAssumption DEF SelectServerTypeOK, SockTypeOK
<1>7. Answered'
  <2>1. \A d \in Conns : peer[d] \in {"none", "up", "fin"} => requests[d] - replies[d] = 0
    BY <1>1 DEF SelectInv, Answered
  <2>2. peer[c] \in {"none", "up", "fin"} => requests'[c] - replies[c] = 1
    BY <1>4, <1>5, <2>1
  <2> QED
    BY <1>1, <1>2, <1>3, <1>5, <2>1, <2>2 DEF Answered
<1> QED
  BY <1>2, <1>6, <1>7 DEF SelectInv

\* The end of the stream: the descriptor is closed, and named as such.
LEMMA ReadClosesKeeps ==
  ASSUME SelectInv, ReadCloses
  PROVE  SelectInv'
<1>1. /\ pc = "read" /\ pc' = "next" /\ SelectServerTypeOK
      /\ conn_at' = [conn_at EXCEPT ![Fd] = NoConn]
      /\ peer' = [peer EXCEPT ![Conn] = "over"]
      /\ read_fd_set' = read_fd_set \ {Fd}
      /\ vec_close_fd' = Append(vec_close_fd, Fd)
      /\ iter' = iter + 1
      /\ UNCHANGED <<backlog, arrived, taken, outq, requests, replies,
                     list_accept_fd, left, got>>
  BY DEF ReadCloses, SelectInv, history
<1>2. PICK fd \in Fds, c \in Conns :
        /\ fd = Fd /\ c = Conn /\ fd = list_accept_fd[iter] /\ c = conn_at[fd]
        /\ iter \in DOMAIN list_accept_fd /\ c # NoConn /\ c \notin backlog
        /\ \A f \in Fds : conn_at[f] = c => f = fd
        /\ \A i \in DOMAIN list_accept_fd : list_accept_fd[i] = fd => i = iter
  BY <1>1, AtFd, ConnAssumption
<1>3. /\ conn_at'[fd] = NoConn /\ \A f \in Fds \ {fd} : conn_at'[f] = conn_at[f]
      /\ peer'[c] = "over" /\ \A d \in Conns \ {c} : peer'[d] = peer[d]
      /\ peer' \in [Conns -> PeerStates]
  BY <1>1, <1>2, SelectTypes DEF PeerStates
<1>4. Closed' = Closed \cup {fd} /\ vec_close_fd' \in Seq(Fds)
  <2>1. /\ vec_close_fd' \in Seq(Fds)
        /\ DOMAIN vec_close_fd' = 1 .. Len(vec_close_fd) + 1
        /\ DOMAIN vec_close_fd = 1 .. Len(vec_close_fd) /\ Len(vec_close_fd) \in Nat
        /\ \A i \in DOMAIN vec_close_fd : vec_close_fd'[i] = vec_close_fd[i]
        /\ vec_close_fd'[Len(vec_close_fd) + 1] = fd
    BY <1>1, <1>2, SelectTypes
  <2> QED
    BY <2>1 DEF Closed
<1>5. SelectServerTypeOK'
  <2>1. iter' \in 1 .. Len(list_accept_fd) + 1
    BY SMTT(20), <1>1, <1>2, SelectTypes
  <2> QED
    BY <1>1, <1>3, <1>4, <2>1 DEF SelectServerTypeOK, SockTypeOK
<1>6. Links'
  BY <1>1, <1>2, <1>3, ConnAssumption DEF SelectInv, Links
<1>7. Listed' = Listed /\ fd \in Listed
  BY <1>1, <1>2 DEF Listed
<1>8. ListIsOpen'
  BY <1>1, <1>2, <1>3, <1>4, <1>7 DEF SelectInv, ListIsOpen
<1>9. Place'
  BY <1>1, <1>2, <1>4 DEF SelectInv, Place
<1>10. Promised'
  <2> SUFFICES ASSUME NEW i \in DOMAIN list_accept_fd, Reported(i), i >= iter + 1,
                      list_accept_fd[i] # fd
               PROVE  ~ ReadWouldBlock(conn_at[list_accept_fd[i]])'
    BY <1>1, <1>2 DEF Promised, Reported, Ahead
  <2>1. i > iter
    BY <1>1, SelectTypes
  <2>2. PICK d \in Conns : d = conn_at[list_accept_fd[i]]
    BY AheadIsOpen
  <2>3. ~ ReadWouldBlock(d) /\ d # c
    BY <1>1, <1>2, <2>1, <2>2, SelectTypes DEF SelectInv, Promised, Ahead
  <2>4. conn_at'[list_accept_fd[i]] = d
    BY <1>1, <1>3, <2>2, SelectTypes
  <2> QED
    BY <1>1, <1>3, <2>3, <2>4 DEF ReadWouldBlock, Unread
<1>12. Answered'
  BY <1>1, <1>2, <1>3 DEF SelectInv, Answered
<1>13. InStream'
  BY <1>1 DEF SelectInv, InStream
<1> QED
  BY <1>5, <1>6, <1>8, <1>9, <1>10, <1>12, <1>13 DEF SelectInv

\* The program ends with all as it is.
LEMMA EndsKeeps ==
  ASSUME SelectInv, ReadExits \/ WriteKills
  PROVE  SelectInv'
<1>1. /\ UNCHANGED <<conn_at, backlog, peer, arrived, taken, outq, requests,
                     replies, list_accept_fd, vec_close_fd, read_fd_set, iter, left, got>>
      /\ pc' = "over"
      /\ pc = "read" \/ (pc = "write" /\ peer[Conn] \notin {"none", "up", "fin"})
  BY DEF ReadExits, WriteKills, SendKills, sockVars, history, lists
<1>2. SelectServerTypeOK'
  BY <1>1 DEF SelectInv, SelectServerTypeOK, SockTypeOK
<1>3. Links' /\ InStream' /\ Promised'
  BY <1>1 DEF SelectInv, Links, InStream, Promised, Ahead
<1>4. ListIsOpen' /\ Place'
  BY <1>1 DEF SelectInv, ListIsOpen, Place, Listed, Closed
<1>5. Answered'
  BY <1>1 DEF SelectInv, Answered
<1> QED
  BY <1>2, <1>3, <1>4, <1>5 DEF SelectInv

-----------------------------------------------------------------------------
(***************************************************************************)
(* Answering.                                                              *)
(***************************************************************************)

\* Part of the reply is in the queue and the write waits.
LEMMA WriteSomeKeeps ==
  ASSUME SelectInv, WriteSome
  PROVE  SelectInv'
<1>1. /\ UNCHANGED <<conn_at, backlog, peer, arrived, taken, requests, replies,
                     list_accept_fd, vec_close_fd, read_fd_set, iter, got, pc>>
      /\ left' = left - Space(Conn) /\ left > Space(Conn) /\ pc = "write"
      /\ outq' = [outq EXCEPT ![Conn] = SNDBUF] /\ SelectServerTypeOK
  BY DEF WriteSome, SelectInv, history, lists
<1>2. SelectServerTypeOK'
  <2>1. PICK c \in Conns : c = Conn
    BY <1>1, AtFd
  <2>2. Space(c) \in Nat
    BY SMTT(20), <1>1, SelectTypes DEF Space
  <2>3. left' \in Nat /\ outq' \in [Conns -> 0 .. SNDBUF]
    BY <1>1, <2>1, <2>2, SelectTypes
  <2> QED
    BY <1>1, <2>3 DEF SelectServerTypeOK, SockTypeOK
<1>3. Links' /\ InStream' /\ Answered'
  BY <1>1 DEF SelectInv, Links, InStream, Answered, Conn, Fd
<1>4. ListIsOpen' /\ Place' /\ Promised'
  BY <1>1
     DEF SelectInv, ListIsOpen, Place, Promised, Ahead, Reported, ReadWouldBlock, Unread,
         Listed, Closed, Fd
<1> QED
  BY <1>2, <1>3, <1>4 DEF SelectInv

\* The write has returned: the loop moves on, the reply placed or the
\* connection known to be reset.
LEMMA WriteReturns ==
  ASSUME SelectInv, WriteRest \/ WriteFails
  PROVE  SelectInv'
<1>1. /\ UNCHANGED <<conn_at, backlog, arrived, taken, requests,
                     list_accept_fd, vec_close_fd, read_fd_set, got>>
      /\ iter' = iter + 1 /\ left' = 0 /\ pc = "write" /\ pc' = "next"
      /\ SelectServerTypeOK
  BY DEF WriteRest, WriteFails, SelectInv, history, lists
<1>2. PICK c \in Conns :
        /\ c = Conn /\ iter \in DOMAIN list_accept_fd
        /\ peer[c] \notin {"none", "over"}
  BY <1>1, AtFd
<1>3. \/ /\ UNCHANGED peer /\ left <= Space(c)
         /\ outq' = [outq EXCEPT ![c] = outq[c] + left]
         /\ replies' = [replies EXCEPT ![c] = replies[c] + 1]
      \/ /\ UNCHANGED <<outq, replies>>
         /\ peer[c] \in {"reset", "pipe", "gone"}
         /\ UNCHANGED peer \/ peer' = [peer EXCEPT ![c] = "gone"]
  BY <1>1, <1>2 DEF WriteRest, WriteFails, ErrorReported, history
<1>4. /\ peer' \in [Conns -> PeerStates] /\ outq' \in [Conns -> 0 .. SNDBUF]
      /\ replies' \in [Conns -> Nat]
  <2>1. CASE UNCHANGED <<outq, replies>>
    BY <1>1, <1>3, <2>1, SelectTypes DEF PeerStates
  <2>2. CASE /\ UNCHANGED peer /\ left <= Space(c)
             /\ outq' = [outq EXCEPT ![c] = outq[c] + left]
             /\ replies' = [replies EXCEPT ![c] = replies[c] + 1]
    <3>1. outq[c] \in 0 .. SNDBUF /\ SNDBUF \in Nat /\ left \in Nat /\ replies[c] \in Nat
      BY <1>1, SelectTypes
    <3>2. outq[c] + left \in 0 .. SNDBUF /\ replies[c] + 1 \in Nat
      BY <2>2, <3>1 DEF Space
    <3> QED
      BY <1>1, <2>2, <3>2, SelectTypes
  <2> QED
    BY <1>3, <2>1, <2>2
<1>5. /\ peer'[c] \notin {"none", "over"}
      /\ \A d \in Conns \ {c} : peer'[d] = peer[d] /\ replies'[d] = replies[d]
      /\ peer'[c] = "up" => peer[c] = "up"
  BY <1>1, <1>2, <1>3, SelectTypes
<1>6. SelectServerTypeOK'
  <2>1. iter' \in 1 .. Len(list_accept_fd) + 1
    BY SMTT(20), <1>1, <1>2, SelectTypes
  <2> QED
    BY <1>1, <1>4, <2>1 DEF SelectServerTypeOK, SockTypeOK
<1>7. Links'
  BY <1>1, <1>2, <1>5, SelectTypes DEF SelectInv, Links
<1>8. ListIsOpen' /\ Place'
  BY <1>1 DEF SelectInv, ListIsOpen, Place, Listed, Closed
<1>9. Promised'
  <2> SUFFICES ASSUME NEW i \in DOMAIN list_accept_fd, Reported(i), i >= iter + 1
               PROVE  ~ ReadWouldBlock(conn_at[list_accept_fd[i]])'
    BY <1>1 DEF Promised, Reported, Ahead
  <2>1. i > iter
    BY <1>1, SelectTypes
  <2>2. PICK d \in Conns : d = conn_at[list_accept_fd[i]]
    BY AheadIsOpen
  <2>3. ~ ReadWouldBlock(d)
    BY <1>1, <2>1, <2>2 DEF SelectInv, Promised, Ahead
  <2> QED
    BY <1>1, <1>5, <2>2, <2>3 DEF ReadWouldBlock, Unread
<1>11. Answered'
  <2>1. \A d \in Conns \ {c} : peer'[d] \in {"none", "up", "fin"} =>
          requests[d] - replies'[d] = 0
    BY <1>1, <1>2, <1>5 DEF SelectInv, Answered
  <2>2. peer'[c] \in {"none", "up", "fin"} => requests[c] - replies'[c] = 0
    <3> SUFFICES ASSUME peer'[c] \in {"none", "up", "fin"}
                 PROVE  requests[c] - replies'[c] = 0
      OBVIOUS
    <3>1. UNCHANGED peer /\ replies'[c] = replies[c] + 1
      BY <1>1, <1>3, SelectTypes
    <3>2. requests[c] - replies[c] = 1
      BY <1>1, <1>2, <3>1 DEF SelectInv, Answered
    <3>3. requests[c] \in Nat /\ replies[c] \in Nat
      BY <1>1, SelectTypes
    <3> QED
      BY <3>1, <3>2, <3>3
  <2> QED
    BY <1>1, <2>1, <2>2 DEF Answered
<1>12. InStream'
  BY <1>1 DEF SelectInv, InStream
<1> QED
  BY <1>6, <1>7, <1>8, <1>9, <1>11, <1>12 DEF SelectInv

-----------------------------------------------------------------------------
(***************************************************************************)
(* The theorems.                                                           *)
(***************************************************************************)
LEMMA InitSelectInv == Init => SelectInv
<1> SUFFICES ASSUME Init PROVE SelectInv
  OBVIOUS
<1>1. /\ conn_at = [fd \in Fds |-> NoConn] /\ backlog = {}
      /\ peer = [c \in Conns |-> "none"]
      /\ arrived = [c \in Conns |-> 0] /\ taken = [c \in Conns |-> 0]
      /\ outq = [c \in Conns |-> 0]
      /\ pc = "select" /\ list_accept_fd = <<>> /\ vec_close_fd = <<>>
      /\ read_fd_set = {} /\ iter = 1 /\ left = 0 /\ got = FALSE
      /\ requests = [c \in Conns |-> 0]
      /\ replies = [c \in Conns |-> 0]
  BY DEF Init, SockInit
<1>2. SelectServerTypeOK
  <2>1. got \in BOOLEAN
    BY <1>1
  <2>2. SockTypeOK
    BY <1>1, QueueAssumption DEF SockTypeOK, PeerStates
  <2> QED
    BY <1>1, <2>1, <2>2 DEF SelectServerTypeOK
<1>3. Listed = {} /\ Closed = {}
  BY <1>1 DEF Listed, Closed
<1>4. Links /\ ListIsOpen /\ Place /\ Promised
  BY <1>1, <1>3, ConnAssumption DEF Links, ListIsOpen, Place, Promised, Ahead
<1>5. Answered /\ InStream
  BY <1>1 DEF Answered, InStream
<1> QED
  BY <1>2, <1>4, <1>5 DEF SelectInv

\* Every step keeps the inductive invariant.
LEMMA NextSelectInv == SelectInv /\ [Next]_vars => SelectInv'
<1> SUFFICES ASSUME SelectInv, [Next]_vars PROVE SelectInv'
  OBVIOUS
<1>1. CASE Pass
  BY <1>1, SelectKeeps, AcceptKeeps, AcceptFailsKeeps, ReadNextKeeps, EndPassKeeps DEF Pass
<1>2. CASE Read
  <2>1. \A n \in 1 .. MSG_SIZE : n \in Nat
    BY SizeAssumption
  <2> QED
    BY <1>2, <2>1, ReadMoreKeeps, ReadLastKeeps, ReadClosesKeeps, EndsKeeps DEF Read
<1>3. CASE Write
  BY <1>3, WriteSomeKeeps, WriteReturns, EndsKeeps DEF Write
<1>4. ASSUME NEW c \in Conns,
             Peer(Connect(c)) \/ Peer(PeerSend(c)) \/ Peer(PeerRead(c)) \/ Peer(PeerLeaves(c))
      PROVE  SelectInv'
  BY <1>4, PeersKeep
<1>5. CASE UNCHANGED vars
  <2>1. UNCHANGED <<conn_at, backlog, peer, arrived, taken, outq, pc, iter, left, got,
                    list_accept_fd, vec_close_fd, read_fd_set, requests, replies>>
    BY <1>5 DEF vars, sockVars, locals, lists, history
  <2>2. SelectServerTypeOK' /\ Links'
    BY <2>1 DEF SelectInv, SelectServerTypeOK, SockTypeOK, Links
  <2>3. ListIsOpen' /\ Place'
    BY <2>1 DEF SelectInv, ListIsOpen, Place, Listed, Closed, Fd
  <2>4. Promised' /\ Answered' /\ InStream'
    BY <2>1
       DEF SelectInv, Promised, Ahead, Reported, ReadWouldBlock, Unread,
           Answered, InStream, Conn, Fd
  <2> QED
    BY <2>2, <2>3, <2>4 DEF SelectInv
<1> QED
  BY <1>1, <1>2, <1>3, <1>4, <1>5 DEF Next, ServerNext

\* The inductive invariant holds in every state the select server reaches.
THEOREM SelectInvariance == Spec => []SelectInv
  BY InitSelectInv, NextSelectInv, PTL DEF Spec

(***************************************************************************)
(* Every variable of onselect keeps its type; in particular its iterator   *)
(* stays within the list, whatever is accepted and closed meanwhile.       *)
(***************************************************************************)
THEOREM SelectTypeCorrect == Spec => []SelectServerTypeOK
<1>1. SelectInv => SelectServerTypeOK
  BY DEF SelectInv
<1> QED
  BY <1>1, SelectInvariance, PTL

(***************************************************************************)
(* list_accept_fd names the open descriptors, each once, although the      *)
(* closed ones leave it only at the end of a pass and accept returns their *)
(* numbers again.                                                          *)
(***************************************************************************)
THEOREM ListNamesTheOpen == Spec => []ListIsOpen
<1>1. SelectInv => ListIsOpen
  BY DEF SelectInv
<1> QED
  BY <1>1, SelectInvariance, PTL

(***************************************************************************)
(* Neither accept nor the first read of a descriptor blocks the thread of  *)
(* onselect: what select reported still holds when its turn comes.         *)
(***************************************************************************)
THEOREM FirstReadsDoNotBlock == Spec => []ReportedIsReadable
<1>1. SelectInv => ReportedIsReadable
  <2> SUFFICES ASSUME SelectInv PROVE ReportedIsReadable
    OBVIOUS
  <2>1. pc = "accept" => backlog # {}
    BY DEF SelectInv, Place
  <2>2. ASSUME pc = "read", ~ got PROVE ~ ReadWouldBlock(Conn)
    <3>1. iter \in DOMAIN list_accept_fd /\ Fd = list_accept_fd[iter] /\ Conn = conn_at[Fd]
      BY <2>2, AtFd
    <3>2. Reported(iter) /\ Ahead(iter)
      BY <2>2, <3>1, AtFd DEF Reported, Ahead
    <3> QED
      BY <3>1, <3>2 DEF SelectInv, Promised
  <2> QED
    BY <2>1, <2>2 DEF ReportedIsReadable
<1> QED
  BY <1>1, SelectInvariance, PTL

(***************************************************************************)
(* The blocking write of onReplyFromServer answers every request of a      *)
(* connection that is not reset, however small the send queue.             *)
(***************************************************************************)
THEOREM RequestsAreAnswered == Spec => []AllAnswered
<1>1. SelectInv => AllAnswered
  BY DEF SelectInv, Answered, AllAnswered
<1> QED
  BY <1>1, SelectInvariance, PTL

=============================================================================
