------------------------------- MODULE Sockets -------------------------------
(***************************************************************************)
(* The part of the Linux TCP stack the servers of this repository rely on: *)
(* the queue of connections waiting for accept, the table of descriptors,  *)
(* the receive and send queues of every connection and the ways its peer   *)
(* can go away.  External code, modelled from how the servers use it.      *)
(*                                                                         *)
(* A connection is one run of a peer: it connects once, sends the fixed    *)
(* text Stream[c] in pieces of any size, reads what it is sent, and may    *)
(* close or abort at any moment.                                           *)
(***************************************************************************)
EXTENDS Integers, Sequences, FiniteSets

CONSTANTS
  Conns,        \* the connections peers open during a run
  NoConn,       \* no connection: what a free descriptor refers to
  ListenFd,     \* the listening descriptor
  FirstFd,      \* the lowest descriptor accept can return
  LastFd,       \* bound: the highest one (the process's descriptor limit)
  MaxWaiting,   \* bound: connections waiting for accept at the same time
  Stream,       \* the text each peer sends
  SNDBUF,       \* capacity of a connection's send queue, in bytes
  Faults        \* which of the faults named below the environment may inject

Chars == {"x", "r", "n", "0"}   \* any other byte, '\r', '\n', '\0'

Fds == FirstFd .. LastFd

ASSUME ConnAssumption == NoConn \notin Conns
ASSUME FdAssumption ==
  ListenFd \in Nat /\ FirstFd \in Nat /\ LastFd \in Nat /\ ListenFd < FirstFd
ASSUME StreamAssumption == Stream \in [Conns -> Seq(Chars)]
ASSUME QueueAssumption == SNDBUF \in Nat \ {0} /\ MaxWaiting \in Nat \ {0}
ASSUME FaultAssumption == Faults \subseteq {"close", "abort", "enospc"}

VARIABLES
  conn_at,      \* connection behind each descriptor, NoConn if it is free
  backlog,      \* connections the kernel holds for accept
  peer,         \* what the peer has done, see PeerStates
  arrived,      \* bytes of Stream[c] that have reached the receive queue
  taken,        \* bytes of Stream[c] that read has taken out of it
  outq          \* bytes in the send queue that the peer has not read

sockVars == <<conn_at, backlog, peer, arrived, taken, outq>>

(***************************************************************************)
(* "none": not connected yet.  "up": open.  "fin": the peer closed or shut *)
(* down its sending side.  "reset": RST on an open connection, ECONNRESET  *)
(* not yet reported.  "pipe": RST after the FIN.  "gone": the error has    *)
(* been reported to a send.  "over": this side closed the descriptor.      *)
(***************************************************************************)
PeerStates == {"none", "up", "fin", "reset", "pipe", "gone", "over"}

SockTypeOK ==
  /\ conn_at \in [Fds -> Conns \cup {NoConn}]
  /\ backlog \subseteq Conns
  /\ peer \in [Conns -> PeerStates]
  /\ arrived \in [Conns -> Nat]
  /\ taken \in [Conns -> Nat]
  /\ outq \in [Conns -> 0 .. SNDBUF]

SockInit ==
  /\ conn_at = [fd \in Fds |-> NoConn]
  /\ backlog = {}
  /\ peer = [c \in Conns |-> "none"]
  /\ arrived = [c \in Conns |-> 0]
  /\ taken = [c \in Conns |-> 0]
  /\ outq = [c \in Conns |-> 0]

Smaller(a, b) == IF a <= b THEN a ELSE b

Unread(c) == arrived[c] - taken[c]
Space(c) == SNDBUF - outq[c]

-----------------------------------------------------------------------------
(***************************************************************************)
(* Results of the system calls on connection c.  A non-blocking read of an *)
(* empty queue gives EAGAIN while the peer is up; data already received is *)
(* read before an error or the end of the stream.  A send to a connection  *)
(* whose error was already reported raises SIGPIPE.                        *)
(***************************************************************************)
ReadWouldBlock(c) == Unread(c) = 0 /\ peer[c] = "up"
ReadEnds(c) == Unread(c) = 0 /\ peer[c] # "up"     \* end of stream or error
ReadFails(c) == Unread(c) = 0 /\ peer[c] = "reset"  \* ECONNRESET

SendAccepts(c) == peer[c] \in {"up", "fin"} /\ Space(c) > 0
SendFails(c) ==                                     \* EAGAIN or ECONNRESET
  \/ peer[c] \in {"up", "fin"} /\ Space(c) = 0
  \/ peer[c] = "reset"
SendKills(c) == peer[c] \in {"pipe", "gone"}        \* SIGPIPE

\* What a failed send leaves behind: the pending error has been reported.
ErrorReported(c) == IF peer[c] = "reset" THEN [peer EXCEPT ![c] = "gone"]
                                         ELSE peer

\* accept and socket return the lowest free descriptor.
LowestFree(fd) == /\ fd \in Fds
                  /\ conn_at[fd] = NoConn
                  /\ \A f \in Fds : conn_at[f] = NoConn => fd <= f

-----------------------------------------------------------------------------
(***************************************************************************)
(* The peers.  What each step does to the readiness of descriptors is the  *)
(* business of the module that composes these with select or epoll.        *)
(***************************************************************************)
Connect(c) ==
  /\ peer[c] = "none"
  /\ Cardinality(backlog) < MaxWaiting
  /\ peer' = [peer EXCEPT ![c] = "up"]
  /\ backlog' = backlog \cup {c}
  /\ UNCHANGED <<conn_at, arrived, taken, outq>>

PeerSend(c) ==
  /\ peer[c] = "up"
  /\ \E n \in 1 .. Len(Stream[c]) - arrived[c] :
       arrived' = [arrived EXCEPT ![c] = @ + n]
  /\ UNCHANGED <<conn_at, backlog, peer, taken, outq>>

PeerRead(c) ==
  /\ peer[c] \in {"up", "fin"}
  /\ outq[c] > 0
  /\ outq' = [outq EXCEPT ![c] = 0]
  /\ UNCHANGED <<conn_at, backlog, peer, arrived, taken>>

\* The peer closes, aborts, or resets a connection it had closed (its kernel
\* does so when data reaches a socket nobody holds any more).
PeerLeaves(c) ==
  /\ \/ /\ "close" \in Faults /\ peer[c] = "up"
        /\ peer' = [peer EXCEPT ![c] = "fin"]
     \/ /\ "abort" \in Faults /\ peer[c] = "up"
        /\ peer' = [peer EXCEPT ![c] = "reset"]
     \/ /\ "abort" \in Faults /\ peer[c] = "fin"
        /\ peer' = [peer EXCEPT ![c] = "pipe"]
  /\ UNCHANGED <<conn_at, backlog, arrived, taken, outq>>

=============================================================================
