-------------------------- MODULE ClientSupervisor --------------------------
(***************************************************************************)
(* epoll/client.cpp as a set of processes: main forks a child and forks    *)
(* another whenever waitpid has collected one; a child resolves the host,  *)
(* connects, retrying for ever, and runs a reading and a writing thread    *)
(* until the reading one ends, when it exits.  What the threads read and   *)
(* write is the business of ReplyChannel.                                  *)
(***************************************************************************)
EXTENDS Naturals, FiniteSets

CONSTANTS
  Pids,         \* process identifiers of the children, used over again
  Addresses,    \* what sin_addr can hold, see Resolve: "server", "other"
  MaxTroubles,  \* bound: how often the server goes down, a child is killed or
                \* finds no address
  Faults        \* which faults named below may happen

ASSUME PidAssumption == Pids # {}
ASSUME AddressAssumption == Addresses \subseteq {"server", "other"} /\ Addresses # {}
ASSUME TroubleAssumption == MaxTroubles \in Nat
ASSUME FaultAssumption == Faults \subseteq {"fork", "resolve", "socket", "kill", "garbled"}

VARIABLES
  supervisor,   \* the parent: "start", "wait" (in waitpid), "fork" or "over"
  failed,       \* history: a fork of the parent has failed
  proc,         \* what each child is doing, see ChildStates
  addr,         \* the address the child connects to
  writer,       \* the writing thread of the child runs
  link,         \* the child's connection, see LinkStates
  listening,    \* the server is up
  troubles      \* how much of MaxTroubles is used up

vars == <<supervisor, failed, proc, addr, writer, link, listening, troubles>>

(***************************************************************************)
(* "resolve": at the beginning of onconnect.  "connect": in its connect    *)
(* loop.  "run": both threads started.  "join": the reading thread has     *)
(* ended.  "returned": onconnect has returned to main.  "zombie": ended,   *)
(* not waited for.                                                         *)
(***************************************************************************)
ChildStates == {"free", "resolve", "connect", "run", "join", "returned", "zombie"}

\* "fin": the server closed.  "pipe": it did, and reset what was sent later.
\* "shut": the child itself has shut the connection down.
LinkStates == {"none", "up", "fin", "pipe", "reset", "shut"}

Children == {p \in Pids : proc[p] # "free"}

ClientSupervisorTypeOK ==
  /\ supervisor \in {"start", "wait", "fork", "over"}
  /\ failed \in BOOLEAN
  /\ proc \in [Pids -> ChildStates]
  /\ addr \in [Pids -> {"unset", "server", "other"}]
  /\ writer \in [Pids -> BOOLEAN]
  /\ link \in [Pids -> LinkStates]
  /\ \A p \in Pids :
       /\ proc[p] \in {"connect", "run", "join"} => addr[p] # "unset"
       /\ link[p] # "none" => proc[p] \in {"run", "join"}
  /\ listening \in BOOLEAN
  /\ troubles \in 0 .. MaxTroubles

Init ==
  /\ supervisor = "start"
  /\ failed = FALSE
  /\ proc = [p \in Pids |-> "free"]
  /\ addr = [p \in Pids |-> "unset"]
  /\ writer = [p \in Pids |-> FALSE]
  /\ link = [p \in Pids |-> "none"]
  /\ listening \in BOOLEAN
  /\ troubles = 0

-----------------------------------------------------------------------------
(***************************************************************************)
(* main in the parent.                                                     *)
(***************************************************************************)
Spawn ==
  /\ \E p \in Pids \ Children : proc' = [proc EXCEPT ![p] = "resolve"]
  /\ supervisor' = "wait"
  /\ UNCHANGED failed

Fork ==
  /\ supervisor = "start"
  /\ \/ Spawn
     \/ /\ "fork" \in Faults
        /\ supervisor' = "over" /\ failed' = TRUE
        /\ UNCHANGED proc
  /\ UNCHANGED <<addr, writer, link, listening, troubles>>

\* Mutant: WNOHANG, whose result 0 is not less than 0 either.
Reap_NoHang ==
  /\ supervisor = "wait"
  /\ supervisor' = "fork"
  /\ \/ \E p \in Pids : proc[p] = "zombie" /\ proc' = [proc EXCEPT ![p] = "free"]
     \/ (\A p \in Pids : proc[p] # "zombie") /\ Children # {} /\ UNCHANGED proc
  /\ UNCHANGED <<failed, addr, writer, link, listening, troubles>>

Reap ==
  /\ supervisor = "wait"
  /\ supervisor' = "fork"
  /\ \E p \in Pids : proc[p] = "zombie" /\ proc' = [proc EXCEPT ![p] = "free"]
  /\ UNCHANGED <<failed, addr, writer, link, listening, troubles>>

\* The result of this fork is only compared with 0.
Refork ==
  /\ supervisor = "fork"
  /\ \/ Spawn
     \/ /\ "fork" \in Faults
        /\ supervisor' = "wait" /\ failed' = TRUE
        /\ UNCHANGED proc
  /\ UNCHANGED <<addr, writer, link, listening, troubles>>

\* waitpid fails for want of children.
GiveUp ==
  /\ supervisor = "wait"
  /\ Children = {}
  /\ supervisor' = "over"
  /\ UNCHANGED <<failed, proc, addr, writer, link, listening, troubles>>

-----------------------------------------------------------------------------
(***************************************************************************)
(* onconnect in the child p.  getIpbyHostName assigns the address to its   *)
(* own parameter: server_ip stays empty, inet_pton refuses it, and         *)
(* sin_addr is whatever new left in the structure.                         *)
(***************************************************************************)
Trouble == troubles < MaxTroubles /\ troubles' = troubles + 1

Move(p, from, to) == proc[p] = from /\ proc' = [proc EXCEPT ![p] = to]

Resolve(p) ==
  /\ Move(p, "resolve", "connect")
  /\ \E a \in Addresses : addr' = [addr EXCEPT ![p] = a]
  /\ UNCHANGED <<supervisor, failed, writer, link, listening, troubles>>

\* The host has no address, or there is no socket.
ResolveFails(p) ==
  /\ Faults \cap {"resolve", "socket"} # {}
  /\ Move(p, "resolve", "returned")
  /\ Trouble
  /\ UNCHANGED <<supervisor, failed, addr, writer, link, listening>>

\* A connect that fails is tried again after a pause.
Connect(p) ==
  /\ addr[p] = "server" /\ listening
  /\ Move(p, "connect", "run")
  /\ writer' = [writer EXCEPT ![p] = TRUE]
  /\ link' = [link EXCEPT ![p] = "up"]
  /\ UNCHANGED <<supervisor, failed, addr, listening, troubles>>

\* Mutant: the end of the stream is not told from an empty message.
ReaderShuts_OnErrorOnly(p) ==
  /\ proc[p] = "run" /\ link[p] = "reset"
  /\ link' = [link EXCEPT ![p] = "shut"]
  /\ UNCHANGED <<supervisor, failed, proc, addr, writer, listening, troubles>>

\* onread: judge_recv finds an error or the end of the stream and shuts the
\* connection down, so that a send of the other thread raises SIGPIPE ...
ReaderShuts(p) ==
  /\ proc[p] = "run" /\ link[p] \in {"fin", "pipe", "reset"}
  /\ link' = [link EXCEPT ![p] = "shut"]
  /\ UNCHANGED <<supervisor, failed, proc, addr, writer, listening, troubles>>

\* ... and closes it, so that one only fails.
ReaderEnds(p) ==
  /\ link[p] = "shut"
  /\ Move(p, "run", "join")
  /\ link' = [link EXCEPT ![p] = "none"]
  /\ UNCHANGED <<supervisor, failed, addr, writer, listening, troubles>>

\* onread: a head below zero, after which the socket stays open.
ReaderRefuses(p) ==
  /\ "garbled" \in Faults /\ link[p] = "up"
  /\ Move(p, "run", "join")
  /\ UNCHANGED <<supervisor, failed, addr, writer, link, listening, troubles>>

\* onwrite: what is sent on a connection the server has closed it answers
\* with a reset.
WriterSends(p) ==
  /\ writer[p] /\ proc[p] = "run" /\ link[p] = "fin"
  /\ link' = [link EXCEPT ![p] = "pipe"]
  /\ UNCHANGED <<supervisor, failed, proc, addr, writer, listening, troubles>>

\* onwrite: the send fails, on a reset connection or a closed socket, or the
\* input has ended and there is nothing to send.
WriterEnds(p) ==
  /\ writer[p] /\ proc[p] \in {"run", "join"}
  /\ writer' = [writer EXCEPT ![p] = FALSE]
  /\ UNCHANGED <<supervisor, failed, proc, addr, link, listening, troubles>>

End(p) ==
  /\ proc' = [proc EXCEPT ![p] = "zombie"]
  /\ link' = [link EXCEPT ![p] = "none"]
  /\ writer' = [writer EXCEPT ![p] = FALSE]
  /\ addr' = [addr EXCEPT ![p] = "unset"]
  /\ UNCHANGED <<supervisor, failed, listening>>

\* onwrite: a send on a connection reset after it was closed, or shut down,
\* raises SIGPIPE.
SigPipe(p) == writer[p] /\ proc[p] = "run" /\ link[p] \in {"pipe", "shut"} /\ End(p)
              /\ UNCHANGED troubles

\* onconnect has joined the reading thread: close and exit(5).
Exit(p) == proc[p] = "join" /\ End(p) /\ UNCHANGED troubles

\* main in a child whose onconnect returned: it has no children, waitpid fails.
ReturnedExits(p) == proc[p] = "returned" /\ End(p) /\ UNCHANGED troubles

Killed(p) == "kill" \in Faults /\ proc[p] \notin {"free", "zombie"} /\ End(p)
             /\ Trouble

-----------------------------------------------------------------------------
(***************************************************************************)
(* The server closes one connection, goes down, comes back.                *)
(***************************************************************************)
ServerCloses(p) ==
  /\ link[p] = "up"
  /\ \E how \in {"fin", "reset"} : link' = [link EXCEPT ![p] = how]
  /\ UNCHANGED <<supervisor, failed, proc, addr, writer, listening, troubles>>

ServerStops ==
  /\ listening /\ listening' = FALSE
  /\ Trouble
  /\ \E how \in {"fin", "reset"} :
       link' = [p \in Pids |-> IF link[p] = "up" THEN how ELSE link[p]]
  /\ UNCHANGED <<supervisor, failed, proc, addr, writer>>

ServerStarts ==
  /\ ~ listening /\ listening' = TRUE
  /\ UNCHANGED <<supervisor, failed, proc, addr, writer, link, troubles>>

-----------------------------------------------------------------------------
Parent == Fork \/ Reap \/ Refork \/ GiveUp

Child(p) == \/ Resolve(p) \/ ResolveFails(p) \/ Connect(p)
            \/ ReaderShuts(p) \/ ReaderEnds(p) \/ Exit(p) \/ ReturnedExits(p)

Others(p) == \/ ReaderRefuses(p) \/ WriterSends(p) \/ WriterEnds(p) \/ SigPipe(p)
             \/ Killed(p) \/ ServerCloses(p)

Next == \/ Parent
        \/ \E p \in Pids : Child(p) \/ Others(p)
        \/ ServerStops
        \/ ServerStarts

Spec == Init /\ [][Next]_vars

(***************************************************************************)
(* The kernel lets every process and thread run on; what the user, the     *)
(* server and the faults do is not promised.                               *)
(***************************************************************************)
FairSpec == Spec /\ WF_vars(Parent) /\ \A p \in Pids : WF_vars(Child(p))

-----------------------------------------------------------------------------
(***************************************************************************)
(* Whatever ends the child, and in whatever state, the parent in waitpid   *)
(* has one child, never two, and never gives up, unless a fork has failed. *)
(***************************************************************************)
AlwaysOneClient ==
  /\ Cardinality(Children) <= 1
  /\ ~ failed => /\ supervisor = "wait" => Cardinality(Children) = 1
                 /\ supervisor # "over"

Connected == \E p \in Pids : proc[p] = "run" /\ link[p] = "up"

(***************************************************************************)
(* Once the server stays up there is a connected client again and again,   *)
(* however the connections before it were lost, provided no fork has       *)
(* failed and sin_addr happens to hold an address of the server.           *)
(***************************************************************************)
Reconnects ==
  <>[](listening /\ ~ failed /\ \A p \in Pids : addr[p] # "other") => []<> Connected

=============================================================================
