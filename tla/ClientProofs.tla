---------------------------- MODULE ClientProofs ----------------------------
(***************************************************************************)
(* Both clients keep one child at a time, for any set of identifiers, any  *)
(* addresses, faults and texts.                                            *)
(***************************************************************************)
EXTENDS SocketClient, FiniteSetTheorems, TLAPS

(***************************************************************************)
(* AlwaysOneClient counts children; the invariant says who they are and    *)
(* adds what the parent is about to do: it forks only when it has none.    *)
(***************************************************************************)
ParentOK ==
  /\ supervisor \in {"start", "wait", "fork", "over"}
  /\ failed \in BOOLEAN
  /\ proc \in [Pids -> ChildStates]

Only(S) == \A p, q \in S : p = q

OneChild ==
  /\ Only(Children)
  /\ supervisor \in {"start", "fork"} => Children = {}
  /\ ~ failed => /\ supervisor = "wait" => Children # {}
                 /\ supervisor # "over"

ClientInv == ParentOK /\ OneChild

-----------------------------------------------------------------------------
\* A process that goes on or ends stays a child until it is waited for.
LEMMA ChildGoesOn ==
  ASSUME ClientInv, NEW p \in Pids, NEW to \in ChildStates \ {"free"},
         proc[p] # "free", proc' = [proc EXCEPT ![p] = to],
         UNCHANGED <<supervisor, failed>>
  PROVE  ClientInv'
<1>1. ParentOK'
  BY DEF ClientInv, ParentOK
<1>2. Children' = Children
  BY DEF ClientInv, ParentOK, Children
<1>. QED
  BY <1>1, <1>2 DEF ClientInv, OneChild, Only

\* A step of nobody's process.
LEMMA NoProcessMoves ==
  ASSUME ClientInv, UNCHANGED <<supervisor, failed, proc>>
  PROVE  ClientInv'
BY DEF ClientInv, ParentOK, OneChild, Only, Children

\* The parent forks when it has no child, and then has one.
LEMMA SpawnsOne ==
  ASSUME ClientInv, supervisor \in {"start", "fork"}, Spawn
  PROVE  ClientInv'
<1>1. PICK p \in Pids \ Children : proc' = [proc EXCEPT ![p] = "resolve"]
  BY DEF Spawn
<1>2. Children = {}
  BY DEF ClientInv, OneChild
<1>3. ParentOK'
  BY <1>1 DEF ClientInv, ParentOK, Spawn, ChildStates
<1>4. Children' = {p}
  BY <1>1, <1>2 DEF ClientInv, ParentOK, Children
<1>. QED
  BY <1>3, <1>4 DEF ClientInv, OneChild, Only, Spawn

\* main in the parent, in both clients.
LEMMA ParentStep ==
  ASSUME ClientInv, Parent
  PROVE  ClientInv'
<1>1. CASE Fork
  <2>1. CASE Spawn
    BY <1>1, <2>1, SpawnsOne DEF Fork
  <2>2. CASE supervisor' = "over" /\ failed' = TRUE /\ UNCHANGED proc
    BY <2>2 DEF ClientInv, ParentOK, OneChild, Only, Children
  <2>. QED
    BY <1>1, <2>1, <2>2 DEF Fork
<1>2. CASE Reap
  <2>1. PICK p \in Pids : proc[p] = "zombie" /\ proc' = [proc EXCEPT ![p] = "free"]
    BY <1>2 DEF Reap
  <2>2. Children' = {}
    BY <2>1 DEF ClientInv, ParentOK, OneChild, Only, Children
  <2>3. ParentOK'
    BY <1>2, <2>1 DEF ClientInv, ParentOK, Reap, ChildStates
  <2>. QED
    BY <1>2, <2>2, <2>3 DEF ClientInv, OneChild, Only, Reap
<1>3. CASE Refork
  <2>1. CASE Spawn
    BY <1>3, <2>1, SpawnsOne DEF Refork
  <2>2. CASE supervisor' = "wait" /\ failed' = TRUE /\ UNCHANGED proc
    BY <2>2 DEF ClientInv, ParentOK, OneChild, Only, Children
  <2>. QED
    BY <1>3, <2>1, <2>2 DEF Refork
<1>4. CASE GiveUp
  BY <1>4 DEF GiveUp, ClientInv, ParentOK, OneChild, Only, Children
<1>. QED
  BY <1>1, <1>2, <1>3, <1>4 DEF Parent

\* The end of a process, by exit or by a signal.
LEMMA EndStep ==
  ASSUME ClientInv, NEW p \in Pids, proc[p] # "free", End(p)
  PROVE  ClientInv'
BY ChildGoesOn DEF End, ChildStates

\* The processes of epoll/client.cpp.
LEMMA EpollClientStep ==
  ASSUME ClientInv, Next
  PROVE  ClientInv'
<1>1. CASE Parent
  BY <1>1, ParentStep
<1>2. ASSUME NEW p \in Pids, Child(p) \/ Others(p)
      PROVE  ClientInv'
  <2>1. CASE Resolve(p) \/ ResolveFails(p) \/ Connect(p) \/ ReaderEnds(p) \/ ReaderRefuses(p)
    BY <2>1, ChildGoesOn
    DEF Resolve, ResolveFails, Connect, ReaderEnds, ReaderRefuses, Move, ChildStates
  <2>2. CASE Exit(p) \/ ReturnedExits(p) \/ SigPipe(p) \/ Killed(p)
    BY <2>2, EndStep DEF Exit, ReturnedExits, SigPipe, Killed
  <2>3. CASE WriterSends(p) \/ WriterEnds(p) \/ ServerCloses(p) \/ ReaderShuts(p)
    BY <2>3, NoProcessMoves DEF WriterSends, WriterEnds, ServerCloses, ReaderShuts
  <2>. QED
    BY <1>2, <2>1, <2>2, <2>3 DEF Child, Others
<1>3. CASE ServerStops \/ ServerStarts
  BY <1>3, NoProcessMoves DEF ServerStops, ServerStarts
<1>. QED
  BY <1>1, <1>2, <1>3 DEF Next

\* The children of socket/client.cpp.
LEMMA SocketClientStep ==
  ASSUME ClientInv, NEW p \in Pids, SocketChild(p) \/ SocketOthers(p)
  PROVE  ClientInv'
<1>1. CASE SocketResolve(p) \/ SocketResolveFails(p) \/ SocketConnect(p)
  BY <1>1, ChildGoesOn
  DEF SocketResolve, SocketResolveFails, SocketConnect, ResolveFails, Connect, Move, ChildStates
<1>2. CASE ReadExits(p) \/ SocketReturnedExits(p) \/ WriterExits(p) \/ SocketSigPipe(p)
           \/ SocketKilled(p)
  BY <1>2, EndStep
  DEF ReadExits, SocketReturnedExits, WriterExits, SocketSigPipe, SocketKilled, SocketEnd
<1>3. CASE ReadText(p) \/ SocketWriterSends(p) \/ Arrive(p)
  BY <1>3, NoProcessMoves DEF ReadText, SocketWriterSends, WriterSends, Arrive, vars
<1>. QED
  BY <1>1, <1>2, <1>3 DEF SocketChild, SocketOthers

-----------------------------------------------------------------------------
LEMMA ClientInvInit == SocketInit => ClientInv
<1>. SUFFICES ASSUME SocketInit PROVE ClientInv
  OBVIOUS
<1>1. supervisor = "start" /\ failed = FALSE /\ proc = [p \in Pids |-> "free"]
  BY DEF SocketInit, Init
<1>2. ParentOK
  BY <1>1 DEF ParentOK, ChildStates
<1>3. Children = {}
  BY <1>1 DEF Children
<1>. QED
  BY <1>1, <1>2, <1>3 DEF ClientInv, OneChild, Only

LEMMA ClientInvStep == ClientInv /\ [ClientsNext]_clientVars => ClientInv'
<1>. SUFFICES ASSUME ClientInv, [ClientsNext]_clientVars PROVE ClientInv'
  OBVIOUS
<1>1. CASE Next
  BY <1>1, EpollClientStep
<1>2. CASE SocketParent
  BY <1>2, ParentStep DEF SocketParent
<1>3. CASE \E p \in Pids : SocketChild(p) \/ SocketOthers(p)
  BY <1>3, SocketClientStep
<1>4. CASE SocketServer
  BY <1>4, NoProcessMoves DEF SocketServer, ServerStops, ServerStarts, ServerCloses
<1>5. CASE UNCHANGED clientVars
  BY <1>5, NoProcessMoves DEF clientVars, vars
<1>. QED
  BY <1>1, <1>2, <1>3, <1>4, <1>5 DEF ClientsNext

LEMMA ClientInvCounts == ClientInv => AlwaysOneClient
<1>. SUFFICES ASSUME ClientInv PROVE AlwaysOneClient
  OBVIOUS
<1>1. CASE Children = {}
  BY <1>1, FS_EmptySet DEF ClientInv, OneChild, AlwaysOneClient
<1>2. CASE Children # {}
  <2>1. PICK p : Children = {p}
    BY <1>2 DEF ClientInv, OneChild, Only
  <2>2. Cardinality(Children) = 1
    BY <2>1, FS_Singleton
  <2>. QED
    BY <1>2, <2>2 DEF ClientInv, OneChild, AlwaysOneClient
<1>. QED
  BY <1>1, <1>2

(***************************************************************************)
(* epoll/client.cpp:243 and socket/client.cpp:211.  However children end,  *)
(* the parent of either client never has two of them, and while no fork    *)
(* has failed it has one whenever it waits and never gives up.             *)
(***************************************************************************)
THEOREM OneClient == ClientsSpec => []AlwaysOneClient
<1>1. ClientsSpec => []ClientInv
  BY ClientInvInit, ClientInvStep, PTL DEF ClientsSpec
<1>. QED
  BY <1>1, ClientInvCounts, PTL

-----------------------------------------------------------------------------
(***************************************************************************)
(* Types: the earlier client has no state between its reading thread and   *)
(* its exit, so that no child that holds text ends without an exit.        *)
(***************************************************************************)
TextInv ==
  /\ SocketClientTypeOK
  /\ program = "epoll" => \A p \in Pids : unread[p] = 0
  /\ program = "socket" => \A p \in Pids : proc[p] # "join"

\* main in the parent keeps the types, and leaves the running children alone.
LEMMA ParentTypes ==
  ASSUME ClientSupervisorTypeOK, Parent
  PROVE  /\ ClientSupervisorTypeOK'
         /\ \A p \in Pids : proc'[p] \in {"run", "join"} <=> proc[p] \in {"run", "join"}
         /\ \A p \in Pids : proc'[p] = "join" <=> proc[p] = "join"
<1>1. CASE Spawn /\ UNCHANGED <<addr, writer, link, listening, troubles>>
  <2>1. PICK p \in Pids : proc[p] = "free" /\ proc' = [proc EXCEPT ![p] = "resolve"]
    BY <1>1 DEF Spawn, Children
  <2>. QED
    BY <1>1, <2>1 DEF ClientSupervisorTypeOK, Spawn, ChildStates
<1>2. CASE UNCHANGED <<proc, addr, writer, link, listening, troubles>>
           /\ supervisor' \in {"wait", "over"} /\ failed' \in BOOLEAN
  BY <1>2 DEF ClientSupervisorTypeOK
<1>3. CASE Reap
  <2>1. PICK p \in Pids : proc[p] = "zombie" /\ proc' = [proc EXCEPT ![p] = "free"]
    BY <1>3 DEF Reap
  <2>. QED
    BY <1>3, <2>1 DEF ClientSupervisorTypeOK, Reap, ChildStates
<1>4. failed \in BOOLEAN
  BY DEF ClientSupervisorTypeOK
<1>5. CASE Fork
  BY <1>1, <1>2, <1>5 DEF Fork
<1>6. CASE Refork
  BY <1>1, <1>2, <1>6 DEF Refork
<1>7. CASE GiveUp
  BY <1>2, <1>4, <1>7 DEF GiveUp
<1>. QED
  BY <1>3, <1>5, <1>6, <1>7 DEF Parent

\* The end of a process keeps the types.
LEMMA EndTypes ==
  ASSUME ClientSupervisorTypeOK, NEW p \in Pids, End(p), UNCHANGED troubles \/ Trouble
  PROVE  /\ ClientSupervisorTypeOK'
         /\ proc' = [proc EXCEPT ![p] = "zombie"]
<1>1. troubles' \in 0 .. MaxTroubles
  BY TroubleAssumption DEF ClientSupervisorTypeOK, Trouble
<1>. QED
  BY <1>1 DEF ClientSupervisorTypeOK, End, ChildStates, LinkStates

\* The beginning of a child: onconnect.
LEMMA ConnectTypes ==
  ASSUME ClientSupervisorTypeOK, NEW p \in Pids,
         Resolve(p) \/ SocketResolve(p) \/ ResolveFails(p) \/ Connect(p)
  PROVE  /\ ClientSupervisorTypeOK'
         /\ proc[p] \notin {"run", "join"}
         /\ \E s \in {"connect", "returned", "run"} : proc' = [proc EXCEPT ![p] = s]
<1>1. CASE Resolve(p) \/ SocketResolve(p)
  <2>1. PICK a \in {"server", "other"} : addr' = [addr EXCEPT ![p] = a]
    BY <1>1, AddressAssumption DEF Resolve, SocketResolve
  <2>2. /\ proc[p] = "resolve" /\ proc' = [proc EXCEPT ![p] = "connect"]
        /\ UNCHANGED <<supervisor, failed, writer, link, listening, troubles>>
    BY <1>1 DEF Resolve, SocketResolve, Move
  <2>. QED
    BY <2>1, <2>2 DEF ClientSupervisorTypeOK, ChildStates
<1>2. CASE ResolveFails(p)
  <2>1. troubles' \in 0 .. MaxTroubles
    BY <1>2, TroubleAssumption DEF ClientSupervisorTypeOK, ResolveFails, Trouble
  <2>. QED
    BY <1>2, <2>1 DEF ClientSupervisorTypeOK, ChildStates, ResolveFails, Move
<1>3. CASE Connect(p)
  BY <1>3 DEF ClientSupervisorTypeOK, ChildStates, LinkStates, Connect, Move
<1>. QED
  BY <1>1, <1>2, <1>3

\* What happens to a connection, and the threads that end without the process.
LEMMA LinkTypes ==
  ASSUME ClientSupervisorTypeOK,
         \/ ServerStops \/ ServerStarts
         \/ \E p \in Pids : \/ ServerCloses(p) \/ WriterSends(p) \/ WriterEnds(p)
                            \/ ReaderShuts(p) \/ ReaderEnds(p) \/ ReaderRefuses(p)
  PROVE  ClientSupervisorTypeOK'
<1>1. CASE ServerStops
  <2>1. troubles' \in 0 .. MaxTroubles
    BY <1>1, TroubleAssumption DEF ClientSupervisorTypeOK, ServerStops, Trouble
  <2>. QED
    BY <1>1, <2>1 DEF ClientSupervisorTypeOK, ServerStops, LinkStates
<1>2. CASE ServerStarts
  BY <1>2 DEF ClientSupervisorTypeOK, ServerStarts
<1>3. ASSUME NEW p \in Pids, ServerCloses(p) \/ WriterSends(p) \/ ReaderShuts(p)
      PROVE  ClientSupervisorTypeOK'
  BY <1>3 DEF ClientSupervisorTypeOK, ServerCloses, WriterSends, ReaderShuts, LinkStates
<1>4. ASSUME NEW p \in Pids, WriterEnds(p) PROVE ClientSupervisorTypeOK'
  BY <1>4 DEF ClientSupervisorTypeOK, WriterEnds
<1>5. ASSUME NEW p \in Pids, ReaderEnds(p) \/ ReaderRefuses(p) PROVE ClientSupervisorTypeOK'
  BY <1>5
  DEF ClientSupervisorTypeOK, ReaderEnds, ReaderRefuses, Move, LinkStates, ChildStates
<1>. QED
  BY <1>1, <1>2, <1>3, <1>4, <1>5

\* epoll/client.cpp keeps the types.
LEMMA EpollTypes ==
  ASSUME ClientSupervisorTypeOK, Next
  PROVE  ClientSupervisorTypeOK'
<1>1. ASSUME NEW p \in Pids, Exit(p) \/ ReturnedExits(p) \/ SigPipe(p) \/ Killed(p)
      PROVE  ClientSupervisorTypeOK'
  BY <1>1, EndTypes DEF Exit, ReturnedExits, SigPipe, Killed
<1>. QED
  BY <1>1, ParentTypes, ConnectTypes, LinkTypes DEF Next, Child, Others

-----------------------------------------------------------------------------
\* The text of a child that does not end, nor read, stays as it is.
LEMMA TextStays ==
  ASSUME TextInv, ClientSupervisorTypeOK', UNCHANGED <<program, unread>>,
         program = "socket" => \A p \in Pids :
           /\ proc[p] = "run" => proc'[p] = "run"
           /\ proc'[p] # "join"
  PROVE  TextInv'
<1>1. \A p \in Pids : proc'[p] # "run" => unread[p] = 0
  BY DEF TextInv, SocketClientTypeOK
<1>. QED
  BY <1>1 DEF TextInv, SocketClientTypeOK

\* A child that ends leaves no text behind.
LEMMA TextLost ==
  ASSUME TextInv, NEW p \in Pids, SocketEnd(p), UNCHANGED troubles \/ Trouble,
         program = "socket", UNCHANGED program
  PROVE  TextInv'
<1>1. /\ ClientSupervisorTypeOK' /\ proc' = [proc EXCEPT ![p] = "zombie"]
      /\ proc \in [Pids -> ChildStates] /\ unread \in [Pids -> 0 .. MaxText]
      /\ unread' = [unread EXCEPT ![p] = 0]
  BY EndTypes DEF TextInv, SocketClientTypeOK, ClientSupervisorTypeOK, SocketEnd
<1>2. 0 \in 0 .. MaxText
  BY TextAssumption
<1>. QED
  BY <1>1, <1>2 DEF TextInv, SocketClientTypeOK

\* A child that reads or is sent text runs, and holds no more than MaxText.
LEMMA TextMoves ==
  ASSUME TextInv, NEW p \in Pids, ReadText(p) \/ Arrive(p), program = "socket",
         UNCHANGED program
  PROVE  TextInv'
<1>1. /\ UNCHANGED proc /\ ClientSupervisorTypeOK'
      /\ unread \in [Pids -> 0 .. MaxText] /\ proc[p] = "run"
  <2>1. UNCHANGED vars
    BY DEF ReadText, Arrive
  <2>2. proc[p] = "run"
    BY DEF TextInv, SocketClientTypeOK, ClientSupervisorTypeOK, ReadText, Arrive
  <2>. QED
    BY <2>1, <2>2 DEF TextInv, SocketClientTypeOK, ClientSupervisorTypeOK, vars
<1>2. MaxText \in Nat /\ MSG_SIZE \in Nat \ {0} /\ unread[p] \in 0 .. MaxText
  BY <1>1, TextAssumption
<1>3. PICK u \in 0 .. MaxText : unread' = [unread EXCEPT ![p] = u]
  <2>1. CASE Arrive(p)
    <3>1. PICK n \in 1 .. MaxText - unread[p] : unread' = [unread EXCEPT ![p] = unread[p] + n]
      BY <2>1 DEF Arrive
    <3>2. unread[p] + n \in 0 .. MaxText
      BY <1>2, <3>1
    <3>. QED
      BY <3>1, <3>2
  <2>2. CASE ReadText(p)
    <3>. DEFINE n == IF unread[p] < MSG_SIZE THEN unread[p] ELSE MSG_SIZE
    <3>1. unread' = [unread EXCEPT ![p] = unread[p] - n]
      BY <2>2 DEF ReadText
    <3>2. unread[p] - n \in 0 .. MaxText
      BY <1>2
    <3>. QED
      BY <3>1, <3>2
  <2>. QED
    BY <2>1, <2>2
<1>. QED
  BY <1>1, <1>3 DEF TextInv, SocketClientTypeOK

LEMMA TextInvInit == SocketInit => TextInv
<1>. SUFFICES ASSUME SocketInit PROVE TextInv
  OBVIOUS
<1>1. ClientSupervisorTypeOK
  <2>1. Init /\ 0 \in 0 .. MaxTroubles
    BY TroubleAssumption DEF SocketInit
  <2>2. /\ proc \in [Pids -> ChildStates] /\ link \in [Pids -> LinkStates]
        /\ addr \in [Pids -> {"unset", "server", "other"}]
        /\ writer \in [Pids -> BOOLEAN]
    BY <2>1 DEF Init, ChildStates, LinkStates
  <2>3. \A p \in Pids : proc[p] = "free" /\ link[p] = "none"
    BY <2>1 DEF Init
  <2>. QED
    BY <2>1, <2>2, <2>3 DEF Init, ClientSupervisorTypeOK
<1>2. SocketClientTypeOK
  BY <1>1, TextAssumption DEF SocketInit, SocketClientTypeOK
<1>3. \A p \in Pids : unread[p] = 0 /\ proc[p] # "join"
  BY DEF SocketInit, Init
<1>. QED
  BY <1>2, <1>3 DEF TextInv

LEMMA TextInvStep == TextInv /\ [ClientsNext]_clientVars => TextInv'
<1>. SUFFICES ASSUME TextInv, [ClientsNext]_clientVars PROVE TextInv'
  OBVIOUS
<1>0. ClientSupervisorTypeOK /\ proc \in [Pids -> ChildStates]
      /\ program \in {"epoll", "socket"}
  BY DEF TextInv, SocketClientTypeOK, ClientSupervisorTypeOK
<1>1. CASE Of("epoll") /\ Next /\ UNCHANGED unread
  BY <1>0, <1>1, EpollTypes, TextStays DEF Of
<1>2. CASE Of("socket") /\ SocketParent
  <2>1. \A p \in Pids : /\ proc[p] = "run" => proc'[p] = "run"
                        /\ proc'[p] # "join"
    BY <1>0, <1>2, ParentTypes DEF TextInv, Of, SocketParent
  <2>. QED
    BY <1>0, <1>2, <2>1, ParentTypes, TextStays DEF Of, SocketParent
<1>3. CASE Of("socket") /\ \E p \in Pids : SocketChild(p) \/ SocketOthers(p)
  <2>1. PICK p \in Pids : SocketChild(p) \/ SocketOthers(p)
    BY <1>3
  <2>2. CASE SocketResolve(p) \/ SocketResolveFails(p) \/ SocketConnect(p)
    <3>1. ClientSupervisorTypeOK' /\ proc[p] \notin {"run", "join"}
          /\ \E s \in {"connect", "returned", "run"} : proc' = [proc EXCEPT ![p] = s]
      BY <1>0, <2>2, ConnectTypes DEF SocketResolveFails, SocketConnect
    <3>2. \A q \in Pids : /\ proc[q] = "run" => proc'[q] = "run"
                          /\ proc'[q] # "join"
      BY <1>0, <1>3, <3>1 DEF TextInv, Of
    <3>. QED
      BY <1>3, <2>2, <3>1, <3>2, TextStays
      DEF Of, SocketResolve, SocketResolveFails, SocketConnect
  <2>3. CASE ReadText(p) \/ Arrive(p)
    BY <1>3, <2>3, TextMoves DEF Of
  <2>4. CASE SocketWriterSends(p)
    <3>1. ClientSupervisorTypeOK' /\ UNCHANGED proc
      BY <1>0, <2>4, LinkTypes DEF SocketWriterSends, WriterSends
    <3>. QED
      BY <1>3, <2>4, <3>1, TextStays DEF Of, SocketWriterSends, TextInv
  <2>5. CASE ReadExits(p) \/ SocketReturnedExits(p) \/ WriterExits(p) \/ SocketSigPipe(p)
             \/ SocketKilled(p)
    BY <1>3, <2>5, TextLost
    DEF Of, ReadExits, SocketReturnedExits, WriterExits, SocketSigPipe, SocketKilled
  <2>. QED
    BY <2>1, <2>2, <2>3, <2>4, <2>5 DEF SocketChild, SocketOthers
<1>4. CASE Of("socket") /\ SocketServer
  <2>1. ClientSupervisorTypeOK' /\ UNCHANGED proc
    BY <1>0, <1>4, LinkTypes DEF SocketServer, ServerStops, ServerStarts, ServerCloses
  <2>. QED
    BY <1>4, <2>1, TextStays DEF Of, SocketServer, TextInv
<1>5. CASE UNCHANGED clientVars
  <2>1. UNCHANGED <<supervisor, failed, proc, addr, writer, link, listening, troubles,
                    program, unread>>
    BY <1>5 DEF clientVars, vars
  <2>2. ClientSupervisorTypeOK'
    BY <1>0, <2>1 DEF ClientSupervisorTypeOK
  <2>. QED
    BY <2>1, <2>2, TextStays DEF TextInv
<1>. QED
  BY <1>1, <1>2, <1>3, <1>4, <1>5 DEF ClientsNext

LEMMA TextInvariance == ClientsSpec => []TextInv
BY TextInvInit, TextInvStep, PTL DEF ClientsSpec

(***************************************************************************)
(* Every variable of both clients keeps its type: a child is connected     *)
(* only while its threads may run, and one that has ended holds no text.   *)
(***************************************************************************)
THEOREM ClientTypesCorrect == ClientsSpec => []SocketClientTypeOK
<1>1. TextInv => SocketClientTypeOK
  BY DEF TextInv
<1>. QED
  BY <1>1, TextInvariance, PTL

=============================================================================
