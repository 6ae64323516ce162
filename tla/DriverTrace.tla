---------------------------- MODULE DriverTrace ----------------------------
(***************************************************************************)
(* The job of driver_trace/src/baidu_location.cpp from its configuration   *)
(* on: it connects, runs one query, makes a list of one column, connects   *)
(* again and ends.  The process it runs in is that of Daemon, the object   *)
(* that holds the query's result that of MysqlWrapper.                     *)
(***************************************************************************)
EXTENDS Daemon, MysqlWrapper

\* Two connections beside 0, 1 and 2.
ASSUME ConnectionAssumption == MaxFd >= 4

VARIABLES
  connected     \* mysql_zs has a connection

allVars == <<daemonVars, wrapperVars, connected>>

DriverTraceTypeOK ==
  /\ DaemonTypeOK
  /\ MysqlWrapperTypeOK
  /\ connected \in BOOLEAN
  /\ connected => pc \in {"query", "result", "trace"} \cup Ended

Init == DaemonInit /\ WrapperInit /\ connected = FALSE

-----------------------------------------------------------------------------
Free == {fd \in 0 .. MaxFd : fds[fd] = "closed"}

Lowest == CHOOSE fd \in Free : \A other \in Free : fd <= other

\* The end of main: both objects are destroyed and their connections closed.
Released == [fd \in 0 .. MaxFd |-> IF fds[fd] = "mysql" THEN "closed" ELSE fds[fd]]

Step(from, to) == Goto(from, to) /\ UNCHANGED <<program, dm, g_run, parent, session, terminal, nonull>>

(***************************************************************************)
(* PLConfig::init.  The file is closed when it returns.  A field that is   *)
(* not of the type it should be is passed over; the port, which has no     *)
(* value before, may then be any, and connect may fail for that.           *)
(***************************************************************************)
LoadConfig ==
  /\ Step("config", "connect")
  /\ UNCHANGED <<fds, said, connected, wrapperVars>>

\* It cannot be opened, or it cannot be parsed, which is printed.
LoadConfigFails ==
  /\ Step("config", "over")
  /\ Says(1) \/ UNCHANGED said
  /\ UNCHANGED <<fds, connected, wrapperVars>>

\* The constructor of CMysqlWrapper: the result is printed when the
\* connection, if there is one, has its descriptor.
Open(succeeds) ==
  /\ fds' = IF succeeds THEN [fds EXCEPT ![Lowest] = "mysql"] ELSE fds
  /\ said' = said \cup {fds'[1]}

Connect ==
  /\ Step("connect", "query")
  /\ connected' \in BOOLEAN
  /\ Open(connected')
  /\ UNCHANGED wrapperVars

QueryDrivers ==
  /\ Step("query", "result")
  /\ Query
  /\ ~ connected => res' = NoResult
  /\ UNCHANGED <<fds, said, connected>>

\* getResult("uid"), which prints the rows and the list.
ListDrivers ==
  /\ Step("result", "trace")
  /\ GetResultOf("uid") \/ GetResultAgain
  /\ Says(1)
  /\ UNCHANGED <<fds, connected>>

\* mysql_trace is constructed, and main ends.
ConnectTrace ==
  /\ Step("trace", "over")
  /\ \E succeeds \in BOOLEAN :
       said' = said \cup {IF succeeds /\ Lowest = 1 THEN "mysql" ELSE fds[1]}
  /\ fds' = Released
  /\ connected' = FALSE
  /\ UNCHANGED wrapperVars

-----------------------------------------------------------------------------
Job == \/ LoadConfig \/ LoadConfigFails \/ Connect \/ QueryDrivers
       \/ ListDrivers \/ ConnectTrace

Next == \/ Main /\ UNCHANGED <<wrapperVars, connected>>
        \/ Signals /\ UNCHANGED <<wrapperVars, connected>>
        \/ Job

Spec == Init /\ [][Next]_allVars

\* The kernel lets the process run on, and calls of the database return.
FairSpec == /\ Spec
            /\ WF_allVars(Main /\ UNCHANGED <<wrapperVars, connected>>)
            /\ WF_allVars(Job)

-----------------------------------------------------------------------------
(***************************************************************************)
(* daemon.cpp:104.  Wherever SIGTERM meets the process that runs main -    *)
(* between the test of g_run and the sleep, before the fork that makes     *)
(* another process of it, while it sleeps - a request to end that its      *)
(* handler took is followed, while what its parent takes is not.           *)
(***************************************************************************)
ShutdownHeeded == ~ g_run ~> pc \in Ended

(***************************************************************************)
(* baidu_location.cpp:40.  What the job and the daemon print never goes    *)
(* into a connection to the database that was given the number 1, unless   *)
(* /dev/null could not be opened in its place.                             *)
(***************************************************************************)
OutputApart == "mysql" \in said => nonull

=============================================================================
