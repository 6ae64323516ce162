---------------------------- MODULE SelectServer ----------------------------
(***************************************************************************)
(* socket/select_socket.cpp: a server that selects on the listening        *)
(* descriptor and on all it has accepted, accepts one connection, and      *)
(* reads every readable one, MSG_SIZE bytes at a time, until a read        *)
(* returns fewer; what it has read is one request, answered at once.  The  *)
(* descriptors are blocking ones.  The text of a request is only printed   *)
(* and is left out: msg is appended as a C string, which ends at a NUL and *)
(* has no end of its own in a msg that was filled.                         *)
(*                                                                         *)
(* One action is one system call of the thread with everything the thread  *)
(* does up to the next one.                                                *)
(***************************************************************************)
EXTENDS Sockets

CONSTANTS
  MSG_SIZE,     \* sizeof(msg)
  REPLY_LEN     \* strlen of the reply

ASSUME SizeAssumption == MSG_SIZE \in Nat \ {0} /\ REPLY_LEN \in Nat \ {0}

VARIABLES
  pc,             \* "select", "accept", "next", "read", "write" or "over"
  list_accept_fd, \* descriptors accepted and not found closed, in order
  vec_close_fd,   \* descriptors closed in this pass
  read_fd_set,    \* descriptors select reported
  iter,           \* place of the loop in list_accept_fd
  left,           \* bytes of the reply the blocking write has not placed yet
  got,            \* a part of the present request has been read
  requests,       \* history: requests received on each connection
  replies         \* history: replies sent on each connection

locals == <<pc, iter, left, got>>
lists == <<list_accept_fd, vec_close_fd, read_fd_set>>
history == <<requests, replies>>
vars == <<sockVars, locals, lists, history>>

Watched == Fds \cup {ListenFd}
Listed == {list_accept_fd[i] : i \in DOMAIN list_accept_fd}
Closed == {vec_close_fd[i] : i \in DOMAIN vec_close_fd}
Fd == list_accept_fd[iter]
Conn == conn_at[Fd]

SelectServerTypeOK ==
  /\ SockTypeOK
  /\ pc \in {"select", "accept", "next", "read", "write", "over"}
  /\ list_accept_fd \in Seq(Fds)
  /\ vec_close_fd \in Seq(Fds)
  /\ read_fd_set \subseteq Watched
  /\ iter \in 1 .. Len(list_accept_fd) + 1
  /\ left \in Nat
  /\ got \in BOOLEAN
  /\ requests \in [Conns -> Nat]
  /\ replies \in [Conns -> Nat]

Init ==
  /\ SockInit
  /\ pc = "select"
  /\ list_accept_fd = <<>>
  /\ vec_close_fd = <<>>
  /\ read_fd_set = {}
  /\ iter = 1
  /\ left = 0
  /\ got = FALSE
  /\ requests = [c \in Conns |-> 0]
  /\ replies = [c \in Conns |-> 0]

-----------------------------------------------------------------------------
(***************************************************************************)
(* The pass of the loop: select, one accept, the readable descriptors in   *)
(* the order of the list, and the removal of those found closed.           *)
(***************************************************************************)
Readable == {fd \in Listed : ~ ReadWouldBlock(conn_at[fd])}

\* Mutant: max_fd is taken from the list alone, so that with an empty list
\* select looks at no descriptor.
Select_MaxOfList ==
  LET reported == Readable \cup (IF backlog = {} \/ Listed = {} THEN {} ELSE {ListenFd}) IN
  /\ pc = "select"
  /\ reported # {}
  /\ read_fd_set' = reported
  /\ pc' = IF ListenFd \in reported THEN "accept" ELSE "next"
  /\ UNCHANGED <<sockVars, history, list_accept_fd, vec_close_fd, iter, left, got>>

Select ==
  LET reported == Readable \cup (IF backlog = {} THEN {} ELSE {ListenFd}) IN
  /\ pc = "select"
  /\ reported # {}
  /\ read_fd_set' = reported
  /\ pc' = IF ListenFd \in reported THEN "accept" ELSE "next"
  /\ UNCHANGED <<sockVars, history, list_accept_fd, vec_close_fd, iter, left, got>>

Accept ==
  /\ pc = "accept"
  /\ \E c \in backlog, fd \in Fds :
       /\ LowestFree(fd)
       /\ conn_at' = [conn_at EXCEPT ![fd] = c]
       /\ backlog' = backlog \ {c}
       /\ list_accept_fd' = Append(list_accept_fd, fd)
  /\ pc' = "next"
  /\ UNCHANGED <<peer, arrived, taken, outq, history, vec_close_fd, read_fd_set,
                 iter, left, got>>

\* No descriptor is left: the pass is given up before anything is read.
AcceptFails ==
  /\ pc = "accept"
  /\ \A fd \in Fds : conn_at[fd] # NoConn
  /\ pc' = "select"
  /\ UNCHANGED <<sockVars, history, lists, iter, left, got>>

Reported(i) == i \in DOMAIN list_accept_fd /\ list_accept_fd[i] \in read_fd_set

ReadNext ==
  /\ pc = "next"
  /\ \E i \in DOMAIN list_accept_fd :
       /\ i >= iter /\ Reported(i)
       /\ \A j \in iter .. i - 1 : ~ Reported(j)
       /\ iter' = i
  /\ got' = FALSE
  /\ pc' = "read"
  /\ UNCHANGED <<sockVars, history, lists, left>>

\* Mutant: only the first of the closed descriptors is removed.
Kept_AllButFirst ==
  {i \in DOMAIN list_accept_fd :
     vec_close_fd = <<>> \/ list_accept_fd[i] # vec_close_fd[1]}

\* Places of the list that stay in it.
Kept == {i \in DOMAIN list_accept_fd : list_accept_fd[i] \notin Closed}

\* What is left of the list keeps its order.
EndPass ==
  /\ pc = "next"
  /\ \A j \in DOMAIN list_accept_fd : j >= iter => ~ Reported(j)
  /\ \E place \in [1 .. Cardinality(Kept) -> Kept] :
       /\ \A i, j \in DOMAIN place : i < j => place[i] < place[j]
       /\ list_accept_fd' = [i \in DOMAIN place |-> list_accept_fd[place[i]]]
  /\ vec_close_fd' = <<>>
  /\ iter' = 1
  /\ pc' = "select"
  /\ UNCHANGED <<sockVars, history, read_fd_set, left, got>>

-----------------------------------------------------------------------------
(***************************************************************************)
(* The reading loop on the connection behind Fd.  With nothing to read and *)
(* a peer that is up the thread blocks.                                    *)
(***************************************************************************)
Gets(n) ==
  /\ pc = "read"
  /\ n = Smaller(Unread(Conn), MSG_SIZE) /\ n > 0
  /\ taken' = [taken EXCEPT ![Conn] = @ + n]
  /\ got' = TRUE
  /\ UNCHANGED <<conn_at, backlog, peer, arrived, outq, lists, iter, replies>>

ReadMore(n) == n = MSG_SIZE /\ Gets(n) /\ UNCHANGED <<pc, left, requests>>

ReadLast(n) ==
  /\ n # MSG_SIZE
  /\ Gets(n)
  /\ requests' = [requests EXCEPT ![Conn] = @ + 1]
  /\ left' = REPLY_LEN
  /\ pc' = "write"

\* End of the stream: what has been read of a request is dropped.
ReadCloses ==
  /\ pc = "read"
  /\ ReadEnds(Conn) /\ ~ ReadFails(Conn)
  /\ conn_at' = [conn_at EXCEPT ![Fd] = NoConn]
  /\ peer' = [peer EXCEPT ![Conn] = "over"]
  /\ read_fd_set' = read_fd_set \ {Fd}
  /\ vec_close_fd' = Append(vec_close_fd, Fd)
  /\ iter' = iter + 1
  /\ pc' = "next"
  /\ UNCHANGED <<backlog, arrived, taken, outq, history, list_accept_fd, left, got>>

\* An error ends the thread, and with it the program.
ReadExits ==
  /\ pc = "read"
  /\ ReadFails(Conn)
  /\ pc' = "over"
  /\ UNCHANGED <<sockVars, history, lists, iter, left, got>>

-----------------------------------------------------------------------------
(***************************************************************************)
(* onReplyFromServer: one write, which blocks until all of the reply is in *)
(* the send queue or the connection fails.  It fails without an error when *)
(* part of the reply is there already.                                     *)
(***************************************************************************)
\* Mutant: the descriptors are non-blocking and a short write is a success.
WriteSome_GivesUp ==
  /\ pc = "write"
  /\ SendAccepts(Conn) /\ left > Space(Conn)
  /\ left' = 0
  /\ outq' = [outq EXCEPT ![Conn] = SNDBUF]
  /\ iter' = iter + 1 /\ pc' = "next"
  /\ UNCHANGED <<conn_at, backlog, peer, arrived, taken, lists, history, got>>

WriteSome ==
  /\ pc = "write"
  /\ SendAccepts(Conn) /\ left > Space(Conn)
  /\ left' = left - Space(Conn)
  /\ outq' = [outq EXCEPT ![Conn] = SNDBUF]
  /\ UNCHANGED <<conn_at, backlog, peer, arrived, taken, lists, history, pc,
                 iter, got>>

\* Mutant: the loop stays at the descriptor it has answered.
WriteRest_Stays ==
  /\ pc = "write"
  /\ SendAccepts(Conn) /\ left <= Space(Conn)
  /\ outq' = [outq EXCEPT ![Conn] = @ + left]
  /\ replies' = [replies EXCEPT ![Conn] = @ + 1]
  /\ left' = 0
  /\ pc' = "next"
  /\ UNCHANGED <<conn_at, backlog, peer, arrived, taken, lists, requests,
                 got, iter>>

WriteRest ==
  /\ pc = "write"
  /\ SendAccepts(Conn) /\ left <= Space(Conn)
  /\ outq' = [outq EXCEPT ![Conn] = @ + left]
  /\ replies' = [replies EXCEPT ![Conn] = @ + 1]
  /\ left' = 0
  /\ iter' = iter + 1 /\ pc' = "next"
  /\ UNCHANGED <<conn_at, backlog, peer, arrived, taken, lists, requests,
                 got>>

WriteFails ==
  /\ pc = "write"
  /\ \/ peer[Conn] = "reset" /\ left = REPLY_LEN /\ peer' = ErrorReported(Conn)
     \/ peer[Conn] \in {"reset", "pipe", "gone"} /\ left < REPLY_LEN /\ UNCHANGED peer
  /\ left' = 0
  /\ iter' = iter + 1 /\ pc' = "next"
  /\ UNCHANGED <<conn_at, backlog, arrived, taken, outq, lists, history, got>>

\* SIGPIPE.
WriteKills ==
  /\ pc = "write"
  /\ SendKills(Conn) /\ left = REPLY_LEN
  /\ pc' = "over"
  /\ UNCHANGED <<sockVars, history, lists, iter, left, got>>

-----------------------------------------------------------------------------
Pass == Select \/ Accept \/ AcceptFails \/ ReadNext \/ EndPass

Read == \/ \E n \in 1 .. MSG_SIZE : ReadMore(n) \/ ReadLast(n)
        \/ ReadCloses
        \/ ReadExits

Write == WriteSome \/ WriteRest \/ WriteFails \/ WriteKills

ServerNext == Pass \/ Read \/ Write

\* What peers do after the program has ended is not followed.
Peer(step) == pc # "over" /\ step /\ UNCHANGED <<locals, lists, history>>

Next == \/ ServerNext
        \/ \E c \in Conns : \/ Peer(Connect(c))
                            \/ Peer(PeerSend(c))
                            \/ Peer(PeerRead(c))
                            \/ Peer(PeerLeaves(c))

Spec == Init /\ [][Next]_vars

(***************************************************************************)
(* The thread runs on unless a call blocks; a peer reads what it is sent   *)
(* and in the end closes.                                                  *)
(***************************************************************************)
FairSpec == /\ Spec
            /\ WF_vars(ServerNext)
            /\ \A c \in Conns : /\ WF_vars(Peer(PeerRead(c)))
                                /\ WF_vars(Peer(PeerLeaves(c)))

-----------------------------------------------------------------------------
(***************************************************************************)
(* The list names every open descriptor once, and besides them only those  *)
(* closed in this pass: select is never given a closed descriptor, and a   *)
(* descriptor that is used again never has two places in the list.         *)
(***************************************************************************)
ListIsOpen ==
  /\ \A i, j \in DOMAIN list_accept_fd :
       list_accept_fd[i] = list_accept_fd[j] => i = j
  /\ \A fd \in Fds : conn_at[fd] # NoConn <=> fd \in Listed \ Closed
  /\ Closed \subseteq Listed
  /\ pc = "select" => Closed = {}

(***************************************************************************)
(* What select reported is still there when the loop gets to it: the first *)
(* read of a descriptor does not block, nor does accept.                   *)
(***************************************************************************)
ReportedIsReadable ==
  /\ pc = "read" /\ ~ got => ~ ReadWouldBlock(Conn)
  /\ pc = "accept" => backlog # {}

(***************************************************************************)
(* Between passes every request has its reply, except on a connection that *)
(* was reset.                                                              *)
(***************************************************************************)
AllAnswered ==
  \A c \in Conns : peer[c] \in {"up", "fin"} =>
    requests[c] - replies[c] = IF pc = "write" /\ Conn = c THEN 1 ELSE 0

(***************************************************************************)
(* While the thread lives and descriptors are freed again and again, every *)
(* connection whose peer has left is closed in turn: again and again none  *)
(* is left half open. One that waits in the backlog has to be accepted     *)
(* for that.                                                               *)
(***************************************************************************)
Working == [](pc # "over") /\ []<>(\E fd \in Fds : conn_at[fd] = NoConn)

Left(c) == peer[c] \in {"fin", "reset", "pipe", "gone"}

Reclaimed == Working => []<>(\A c \in Conns : ~ Left(c))

=============================================================================
