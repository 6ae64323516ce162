------------------------------- MODULE Daemon -------------------------------
(***************************************************************************)
(* other/daemon.cpp, and what driver_trace/src/baidu_location.cpp shares   *)
(* with it: options, signals, daemonize.  A behaviour is of one of the two *)
(* programs; DriverTrace continues the second one where the paths part.    *)
(* The process followed is the one that runs main, which is another one    *)
(* from the fork of daemonize on; the one that forked still has to exit.   *)
(***************************************************************************)
EXTENDS Integers

CONSTANTS
  MaxFd,        \* descriptors are 0 .. MaxFd
  Faults        \* "fork", "devnull" (/dev/null cannot be opened)

ASSUME FdAssumption == MaxFd \in Nat /\ MaxFd >= 2
ASSUME FaultAssumption == Faults \subseteq {"fork", "devnull"}

VARIABLES
  program,      \* "daemon" or "driver_trace"
  dm,           \* option -d was given
  pc,           \* where main is, see Places
  g_run,        \* cleared by the handler
  parent,       \* who forked: "none", "leaving" until it exits, "gone"
  session,      \* "terminal", or "own" since setsid
  terminal,     \* the terminal has not been closed
  fds,          \* what is behind each descriptor
  nonull,       \* history: /dev/null could not be opened
  said          \* history: what the output of the program went to

daemonVars == <<program, dm, pc, g_run, parent, session, terminal, fds, nonull, said>>

Starting == {"options", "install"}
Detaching == {"fork", "setsid", "redirect"}
Looping == {"test", "print", "sleep"}
Working == {"config", "connect", "query", "result", "trace"}
Ended == {"over", "killed", "crashed"}
Places == Starting \cup Detaching \cup Looping \cup Working \cup Ended

Files == {"closed", "terminal", "null", "mysql"}

DaemonTypeOK ==
  /\ program \in {"daemon", "driver_trace"}
  /\ dm \in BOOLEAN
  /\ pc \in Places
  /\ g_run \in BOOLEAN
  /\ parent \in {"none", "leaving", "gone"}
  /\ session \in {"terminal", "own"}
  /\ terminal \in BOOLEAN
  /\ fds \in [0 .. MaxFd -> Files]
  /\ nonull \in BOOLEAN
  /\ said \subseteq Files
  /\ pc \in Looping => program = "daemon"
  /\ pc \in Working => program = "driver_trace"

DaemonInit ==
  /\ program \in {"daemon", "driver_trace"}
  /\ dm = FALSE
  /\ pc = "options"
  /\ g_run = TRUE
  /\ parent = "none"
  /\ session = "terminal" /\ terminal = TRUE
  /\ fds = [fd \in 0 .. MaxFd |-> IF fd <= 2 THEN "terminal" ELSE "closed"]
  /\ nonull = FALSE
  /\ said = {}

-----------------------------------------------------------------------------
Goto(from, to) == pc = from /\ pc' = to

Says(fd) == said' = said \cup {fds[fd]}

\* What main does once signals and daemonize are done.
Start == IF program = "daemon" THEN "test" ELSE "config"

\* -h, or no configuration for the job, ends the program with a help text.
Help ==
  /\ Goto("options", "over")
  /\ Says(1)
  /\ UNCHANGED <<program, dm, g_run, parent, session, terminal, fds, nonull>>

Options ==
  /\ Goto("options", "install")
  /\ dm' \in BOOLEAN
  /\ UNCHANGED <<program, g_run, parent, session, terminal, fds, nonull, said>>

\* -s without a text: the job makes a string of a null pointer.
BareSql ==
  /\ program = "driver_trace" /\ Goto("options", "crashed")
  /\ UNCHANGED <<program, dm, g_run, parent, session, terminal, fds, nonull, said>>

\* signal: both programs catch SIGTERM, the job ignores SIGHUP.
Install ==
  /\ Goto("install", IF dm THEN "fork" ELSE Start)
  /\ UNCHANGED <<program, dm, g_run, parent, session, terminal, fds, nonull, said>>

-----------------------------------------------------------------------------
(***************************************************************************)
(* daemonize.  The parent exits; the child goes on with all the parent had *)
(* set and received, its handlers and g_run among it.                      *)
(***************************************************************************)
Fork ==
  /\ \/ Goto("fork", "setsid") /\ parent' = "leaving"
     \/ "fork" \in Faults /\ Goto("fork", "over") /\ UNCHANGED parent
  /\ UNCHANGED <<program, dm, g_run, session, terminal, fds, nonull, said>>

ParentExits ==
  /\ parent = "leaving" /\ parent' = "gone"
  /\ UNCHANGED <<program, dm, pc, g_run, session, terminal, fds, nonull, said>>

\* A request to end that reaches the parent in between clears a g_run of its
\* own: it ends with the parent, and the child goes on.
ParentTerminated ==
  /\ parent = "leaving"
  /\ said' = IF program = "daemon" THEN said \cup {"terminal"} ELSE said
  /\ UNCHANGED <<program, dm, pc, g_run, parent, session, terminal, fds, nonull>>

Setsid ==
  /\ Goto("setsid", "redirect")
  /\ session' = "own"
  /\ UNCHANGED <<program, dm, g_run, parent, terminal, fds, nonull, said>>

\* Mutant: one dup is missing.
Redirect_OneDup ==
  /\ Goto("redirect", Start)
  /\ nonull' \in IF "devnull" \in Faults THEN BOOLEAN ELSE {FALSE}
  /\ fds' = [fd \in 0 .. MaxFd |-> IF fd > 2 THEN fds[fd]
                                   ELSE IF nonull' \/ fd > 0 THEN "closed" ELSE "null"]
  /\ UNCHANGED <<program, dm, g_run, parent, session, terminal, said>>

\* 0, 1 and 2 are closed, and open and dup take the lowest ones that are
\* free; without /dev/null the dups fail as well.
Redirect ==
  /\ Goto("redirect", Start)
  /\ nonull' \in IF "devnull" \in Faults THEN BOOLEAN ELSE {FALSE}
  /\ fds' = [fd \in 0 .. MaxFd |-> IF fd > 2 THEN fds[fd]
                                   ELSE IF nonull' THEN "closed" ELSE "null"]
  /\ UNCHANGED <<program, dm, g_run, parent, session, terminal, said>>

-----------------------------------------------------------------------------
(***************************************************************************)
(* The loop of daemon.cpp.                                                 *)
(***************************************************************************)
Test ==
  /\ Goto("test", IF g_run THEN "print" ELSE "over")
  /\ UNCHANGED <<program, dm, g_run, parent, session, terminal, fds, nonull, said>>

PrintRunning ==
  /\ Goto("print", "sleep")
  /\ Says(1)
  /\ UNCHANGED <<program, dm, g_run, parent, session, terminal, fds, nonull>>

\* Mutant: main waits for a signal instead of eight seconds.
Wake_BySignalOnly ==
  /\ Goto("sleep", "test")
  /\ FALSE
  /\ UNCHANGED <<program, dm, g_run, parent, session, terminal, fds, nonull, said>>

Wake ==
  /\ Goto("sleep", "test")
  /\ UNCHANGED <<program, dm, g_run, parent, session, terminal, fds, nonull, said>>

-----------------------------------------------------------------------------
(***************************************************************************)
(* Signals.  The handler of daemon.cpp writes to the stream main may just  *)
(* be writing to, which no standard allows: it may work and may end the    *)
(* process.  A sleep is interrupted, other calls go on.                    *)
(***************************************************************************)
Terminate ==
  /\ pc \notin Ended
  /\ \/ /\ pc \in Starting
        /\ pc' = "killed" /\ UNCHANGED <<g_run, said>>
     \/ /\ pc \notin Starting
        /\ g_run' = FALSE
        /\ pc' = IF pc = "sleep" THEN "test" ELSE pc
        /\ IF program = "daemon" THEN Says(1) ELSE UNCHANGED said
     \/ /\ program = "daemon" /\ pc = "print"
        /\ pc' = "crashed" /\ UNCHANGED <<g_run, said>>
  /\ UNCHANGED <<program, dm, parent, session, terminal, fds, nonull>>

\* The terminal is closed, and its session gets SIGHUP.
HangUp ==
  /\ terminal /\ terminal' = FALSE
  /\ pc' = IF /\ pc \notin Ended /\ session = "terminal"
              /\ program = "driver_trace" => pc \in Starting
             THEN "killed" ELSE pc
  /\ UNCHANGED <<program, dm, g_run, parent, session, fds, nonull, said>>

-----------------------------------------------------------------------------
Main == \/ Help \/ Options \/ BareSql \/ Install \/ Fork \/ ParentExits \/ Setsid
        \/ Redirect \/ Test \/ PrintRunning \/ Wake

Signals == Terminate \/ ParentTerminated \/ HangUp

=============================================================================
