---------------------------- MODULE SocketClient ----------------------------
(***************************************************************************)
(* socket/client.cpp, the earlier client: the parent and its children are  *)
(* those of ClientSupervisor, but a child that is connected reads without  *)
(* waiting, takes the absence of text for an error, and every way out of   *)
(* its threads is an exit of the process.  A behaviour is of one program,  *)
(* this one or that of epoll/client.cpp, so that what both parents owe is  *)
(* checked of both.                                                        *)
(***************************************************************************)
EXTENDS ClientSupervisor

CONSTANTS
  MSG_SIZE,     \* sizeof(msg) of onread
  MaxText       \* bound: bytes a child's socket holds

ASSUME TextAssumption == MSG_SIZE \in Nat \ {0} /\ MaxText \in Nat

VARIABLES
  program,      \* "epoll" or "socket"
  unread        \* bytes each child's socket holds

clientVars == <<vars, program, unread>>

SocketClientTypeOK ==
  /\ ClientSupervisorTypeOK
  /\ program \in {"epoll", "socket"}
  /\ unread \in [Pids -> 0 .. MaxText]
  /\ \A p \in Pids : proc[p] # "run" => unread[p] = 0

SocketInit ==
  /\ Init
  /\ program \in {"epoll", "socket"}
  /\ unread = [p \in Pids |-> 0]

-----------------------------------------------------------------------------
\* main in the parent makes the same calls in the same order.
SocketParent == Parent /\ UNCHANGED unread

(***************************************************************************)
(* onconnect.  The address found is lost here too, but server_ip is not    *)
(* cleared and sin_addr is: what inet_pton makes of the text the stack     *)
(* held is an address, or it refuses it and INADDR_ANY stays, by which     *)
(* connect reaches the server on the same host.                            *)
(***************************************************************************)
SocketResolve(p) ==
  /\ Move(p, "resolve", "connect")
  /\ \E a \in Addresses \cup {"server"} : addr' = [addr EXCEPT ![p] = a]
  /\ UNCHANGED <<supervisor, failed, writer, link, listening, troubles, unread>>

\* The host has no address, or there is no socket: onconnect returns to main.
SocketResolveFails(p) == ResolveFails(p) /\ UNCHANGED unread

SocketConnect(p) == Connect(p) /\ UNCHANGED unread

\* exit in any thread, or a signal: the process ends, what it has not read
\* with it.
SocketEnd(p) ==
  /\ End(p)
  /\ unread' = [unread EXCEPT ![p] = 0]

(***************************************************************************)
(* onread with text at hand: whether a recv fills msg or not decides what  *)
(* is printed, which is left out; either way the thread reads on.          *)
(***************************************************************************)
ReadText(p) ==
  /\ proc[p] = "run" /\ unread[p] > 0
  /\ LET n == IF unread[p] < MSG_SIZE THEN unread[p] ELSE MSG_SIZE
     IN  unread' = [unread EXCEPT ![p] = @ - n]
  /\ UNCHANGED vars

\* Mutant: the commented-out test of EAGAIN, which reads on.
ReadExits_Waits(p) ==
  /\ proc[p] = "run" /\ unread[p] = 0 /\ link[p] # "up"
  /\ SocketEnd(p)
  /\ UNCHANGED troubles

\* onread without: EAGAIN and an error are an exit(1), the end an exit(2).
ReadExits(p) ==
  /\ proc[p] = "run" /\ unread[p] = 0
  /\ SocketEnd(p)
  /\ UNCHANGED troubles

SocketWriterSends(p) == WriterSends(p) /\ UNCHANGED unread

\* onwrite: the send fails, or the input has ended and nothing is sent;
\* exit(3).  The pthread_join that waits for this thread never returns.
WriterExits(p) ==
  /\ writer[p] /\ proc[p] = "run"
  /\ SocketEnd(p)
  /\ UNCHANGED troubles

SocketSigPipe(p) ==
  /\ writer[p] /\ proc[p] = "run" /\ link[p] = "pipe"
  /\ SocketEnd(p)
  /\ UNCHANGED troubles

\* main in a child whose onconnect returned.
SocketReturnedExits(p) == proc[p] = "returned" /\ SocketEnd(p) /\ UNCHANGED troubles

SocketKilled(p) ==
  /\ "kill" \in Faults /\ proc[p] \notin {"free", "zombie"}
  /\ SocketEnd(p)
  /\ Trouble

\* The server sends, as much at a time as it likes.
Arrive(p) ==
  /\ link[p] = "up"
  /\ \E n \in 1 .. MaxText - unread[p] : unread' = [unread EXCEPT ![p] = @ + n]
  /\ UNCHANGED vars

SocketServer ==
  /\ ServerStops \/ ServerStarts \/ \E p \in Pids : ServerCloses(p)
  /\ UNCHANGED unread

-----------------------------------------------------------------------------
SocketChild(p) == \/ SocketResolve(p) \/ SocketResolveFails(p) \/ SocketConnect(p)
                  \/ ReadText(p) \/ ReadExits(p) \/ SocketReturnedExits(p)

SocketOthers(p) == \/ SocketWriterSends(p) \/ WriterExits(p) \/ SocketSigPipe(p)
                   \/ SocketKilled(p) \/ Arrive(p)

Of(name) == program = name /\ UNCHANGED program

ClientsNext ==
  \/ Of("epoll") /\ Next /\ UNCHANGED unread
  \/ Of("socket") /\ SocketParent
  \/ Of("socket") /\ \E p \in Pids : SocketChild(p) \/ SocketOthers(p)
  \/ Of("socket") /\ SocketServer

ClientsSpec == SocketInit /\ [][ClientsNext]_clientVars

(***************************************************************************)
(* The kernel lets parent and children run on, as in ClientSupervisor.     *)
(***************************************************************************)
FairClientsSpec ==
  /\ ClientsSpec
  /\ WF_clientVars(UNCHANGED <<program, unread>> /\ Parent)
  /\ \A p \in Pids :
       /\ WF_clientVars(Of("epoll") /\ Child(p) /\ UNCHANGED unread)
       /\ WF_clientVars(Of("socket") /\ SocketChild(p))

-----------------------------------------------------------------------------
(***************************************************************************)
(* socket/client.cpp:79.  While the server is up and has nothing to say no *)
(* child of the earlier client stays and none is the last: each is gone    *)
(* soon after it connected and is waited for, and the parent forks one     *)
(* that connects in its turn, again and again.  As in Reconnects, no fork  *)
(* fails and sin_addr happens to hold an address of the server.            *)
(***************************************************************************)
ClientsTurnOver ==
  program = "socket" /\ <>[](/\ listening /\ ~ failed
                            /\ \A p \in Pids : unread[p] = 0 /\ addr[p] # "other") =>
    []<>(Children = {}) /\ []<> Connected

=============================================================================
