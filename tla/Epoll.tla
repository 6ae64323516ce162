-------------------------------- MODULE Epoll --------------------------------
(***************************************************************************)
(* The epoll instance of the servers, edge-triggered, over Sockets: the    *)
(* interest list and the ready list of the kernel.  External code,         *)
(* modelled from how the servers use it and from what the Linux interface  *)
(* guarantees them.                                                        *)
(*                                                                         *)
(* An event is an edge: it puts the descriptor on the ready list once.     *)
(* epoll_ctl ADD and MOD look at the descriptor's present state as well;   *)
(* epoll_wait takes descriptors off the list and reports those that are    *)
(* still ready for the registered event.                                   *)
(***************************************************************************)
EXTENDS Sockets

CONSTANT MAX_EVENT      \* size of the array given to epoll_wait

ASSUME MaxEventAssumption == MAX_EVENT \in Nat \ {0}

VARIABLES
  interest,     \* event each descriptor is registered for, "none" if it is not
  ready         \* the ready list, as a set

epollVars == <<interest, ready>>

Watched == Fds \cup {ListenFd}

EpollTypeOK ==
  /\ interest \in [Fds -> {"none", "IN", "OUT"}]
  /\ ready \subseteq Watched

EpollInit ==
  /\ interest = [fd \in Fds |-> "none"]
  /\ ready = {}

\* Readiness of a connection with n unread bytes, or with n bytes of space.
HotIn(n, p) == n > 0 \/ p # "up"
HotOut(n, p) == n > 0 \/ p \notin {"up", "fin"}

Hot(c, ev) == \/ ev = "IN" /\ HotIn(Unread(c), peer[c])
              \/ ev = "OUT" /\ HotOut(Space(c), peer[c])

HotFd(fd) == IF fd = ListenFd THEN backlog # {}
                              ELSE Hot(conn_at[fd], interest[fd])

EventOf(fd) == [fd |-> fd, ev |-> IF fd = ListenFd THEN "IN" ELSE interest[fd]]

-----------------------------------------------------------------------------
(***************************************************************************)
(* epoll_ctl.  hot is the readiness for ev after the call the caller makes *)
(* in the same step.                                                       *)
(***************************************************************************)
Register(fd, ev, hot) ==        \* EPOLL_CTL_ADD and EPOLL_CTL_MOD
  /\ interest' = [interest EXCEPT ![fd] = ev]
  /\ ready' = IF hot THEN ready \cup {fd} ELSE ready

Unregister(fd) ==               \* EPOLL_CTL_DEL
  /\ interest' = [interest EXCEPT ![fd] = "none"]
  /\ ready' = ready \ {fd}

(***************************************************************************)
(* epoll_wait: batch is the set of descriptors reported.  All that are     *)
(* ready are reported unless the array is too small for them.              *)
(***************************************************************************)
EpollWait(batch) ==
  LET hot == {fd \in ready : HotFd(fd)} IN
  /\ batch \subseteq hot
  /\ \/ batch = hot /\ Cardinality(hot) <= MAX_EVENT /\ ready' = {}
     \/ /\ Cardinality(hot) > MAX_EVENT
        /\ Cardinality(batch) = MAX_EVENT
        /\ ready' = ready \ batch
  /\ UNCHANGED interest

-----------------------------------------------------------------------------
(***************************************************************************)
(* The peers' steps with the edges they cause.  The arrival of data wakes  *)
(* a descriptor registered for EPOLLIN, space in the send queue one        *)
(* registered for EPOLLOUT; a FIN or RST puts it on the ready list         *)
(* whatever it waits for.                                                  *)
(***************************************************************************)
Wake(c, evs) ==
  ready' = ready \cup {fd \in Fds : conn_at[fd] = c /\ interest[fd] \in evs}

PeerConnects(c) ==
  /\ Connect(c)
  /\ ready' = ready \cup {ListenFd}
  /\ UNCHANGED interest

PeerSends(c) == PeerSend(c) /\ Wake(c, {"IN"}) /\ UNCHANGED interest

PeerReads(c) == PeerRead(c) /\ Wake(c, {"OUT"}) /\ UNCHANGED interest

PeerEnds(c) == PeerLeaves(c) /\ Wake(c, {"IN", "OUT"}) /\ UNCHANGED interest

EnvNext == \E c \in Conns : \/ PeerConnects(c)
                            \/ PeerSends(c)
                            \/ PeerReads(c)
                            \/ PeerEnds(c)

=============================================================================
