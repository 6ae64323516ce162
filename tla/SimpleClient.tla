---------------------------- MODULE SimpleClient ----------------------------
(***************************************************************************)
(* socket/client_socket.cpp: one process, one connection, a thread that    *)
(* reads it and one that writes what the user types.  The reading thread   *)
(* closes the descriptor at the end of the stream and goes on reading it,  *)
(* the writing one goes on sending to it, and main waits for the writing   *)
(* one first.  The text itself is left out: no step depends on it.         *)
(***************************************************************************)
EXTENDS Naturals

CONSTANTS
  MSG_SIZE,     \* sizeof(msg) of onread
  MaxText       \* bound: bytes the server sends ahead of the reader

ASSUME SizeAssumption == MSG_SIZE \in Nat \ {0} /\ MaxText \in Nat

VARIABLES
  main,         \* "connect", "join_writer", "join_reader", "over" or "killed"
  reader,       \* the thread in onread: "none", "recv" or "over"
  writer,       \* the thread in onwrite: "none", "type" or "over"
  fd,           \* the descriptor is open
  link,         \* the connection, see LinkStates
  unread,       \* bytes the socket holds
  finish,       \* onread is between two messages
  input         \* the user's input: "open", or ended with the array "empty"
                \* or holding a text, "full"

vars == <<main, reader, writer, fd, link, unread, finish, input>>

\* "fin": the server closed.  "reset": an error no call has reported yet.
\* "pipe": the server has reset what was sent to it, or it was reported.
LinkStates == {"none", "up", "fin", "reset", "pipe"}

SimpleClientTypeOK ==
  /\ main \in {"connect", "join_writer", "join_reader", "over", "killed"}
  /\ reader \in {"none", "recv", "over"}
  /\ writer \in {"none", "type", "over"}
  /\ fd \in BOOLEAN
  /\ link \in LinkStates
  /\ unread \in 0 .. MaxText
  /\ finish \in BOOLEAN
  /\ input \in {"open", "empty", "full"}

Init ==
  /\ main = "connect"
  /\ reader = "none" /\ writer = "none"
  /\ fd = TRUE
  /\ link = "none" /\ unread = 0
  /\ finish = TRUE
  /\ input = "open"

Running == main \in {"join_writer", "join_reader"}

-----------------------------------------------------------------------------
(***************************************************************************)
(* main.  One connect is tried; then both threads run.                     *)
(***************************************************************************)
Connect ==
  /\ main = "connect"
  /\ \/ /\ main' = "join_writer" /\ link' = "up"
        /\ reader' = "recv" /\ writer' = "type"
        /\ UNCHANGED fd
     \/ /\ main' = "over" /\ fd' = FALSE
        /\ UNCHANGED <<link, reader, writer>>
  /\ UNCHANGED <<unread, finish, input>>

JoinWriter ==
  /\ main = "join_writer" /\ writer = "over"
  /\ main' = "join_reader"
  /\ UNCHANGED <<reader, writer, fd, link, unread, finish, input>>

\* The last close is the second one when onread has closed already.
JoinReader ==
  /\ main = "join_reader" /\ reader = "over"
  /\ main' = "over" /\ fd' = FALSE
  /\ UNCHANGED <<reader, writer, link, unread, finish, input>>

-----------------------------------------------------------------------------
(***************************************************************************)
(* onread.  A recv that fills msg leaves the message unfinished; nothing   *)
(* but the output depends on it.                                           *)
(***************************************************************************)
Recv == Running /\ reader = "recv" /\ fd

ReadText ==
  /\ Recv /\ unread > 0
  /\ unread' = IF unread < MSG_SIZE THEN 0 ELSE unread - MSG_SIZE
  /\ finish' = (unread < MSG_SIZE)
  /\ UNCHANGED <<main, reader, writer, fd, link, input>>

\* Mutant: the descriptor stays open, as if the loop ended here.
ReadEnds_KeepsOpen ==
  /\ Recv /\ unread = 0 /\ link \in {"fin", "pipe"}
  /\ finish' = TRUE
  /\ UNCHANGED <<main, reader, writer, fd, link, unread, input>>

\* recv returns 0: the descriptor is closed, the text received before is
\* printed once more, and the loop goes on.
ReadEnds ==
  /\ Recv /\ unread = 0 /\ link \in {"fin", "pipe"}
  /\ fd' = FALSE
  /\ finish' = TRUE
  /\ UNCHANGED <<main, reader, writer, link, unread, input>>

\* Mutant: EAGAIN's break is taken for every error.
ReadFails_Breaks ==
  /\ Running /\ reader = "recv"
  /\ fd => unread = 0 /\ link = "reset"
  /\ link' = IF fd THEN "pipe" ELSE link
  /\ UNCHANGED <<main, reader, writer, fd, unread, finish, input>>

\* The thread ends on an error: a reset, or EBADF once the loop has come
\* back to a descriptor it closed.  The descriptor stays as it is.
ReadFails ==
  /\ Running /\ reader = "recv"
  /\ fd => unread = 0 /\ link = "reset"
  /\ reader' = "over"
  /\ link' = IF fd THEN "pipe" ELSE link
  /\ UNCHANGED <<main, writer, fd, unread, finish, input>>

-----------------------------------------------------------------------------
(***************************************************************************)
(* onwrite: the user's next text is read and sent.  When the input has     *)
(* ended cin leaves the array as it is, and what it holds is sent again    *)
(* and again, unless it is empty.                                          *)
(***************************************************************************)
Write == Running /\ writer = "type"

\* What reaches a peer that has closed is answered with a reset.
Send ==
  /\ Write /\ fd /\ link \in {"up", "fin"} /\ input # "empty"
  /\ link' = IF link = "fin" THEN "pipe" ELSE link
  /\ UNCHANGED <<main, reader, writer, fd, unread, finish, input>>

\* The descriptor is closed, the reset is reported here, or there is nothing
\* to send: pthread_exit.
SendFails ==
  /\ Write
  /\ \/ ~ fd
     \/ link = "reset"
     \/ link \in {"up", "fin"} /\ input = "empty"
  /\ writer' = "over"
  /\ link' = IF fd /\ link = "reset" THEN "pipe" ELSE link
  /\ UNCHANGED <<main, reader, fd, unread, finish, input>>

SigPipe ==
  /\ Write /\ fd /\ link = "pipe"
  /\ main' = "killed" /\ fd' = FALSE
  /\ UNCHANGED <<reader, writer, link, unread, finish, input>>

-----------------------------------------------------------------------------
(***************************************************************************)
(* The user and the server.                                                *)
(***************************************************************************)
InputEnds ==
  /\ Running /\ input = "open"
  /\ input' \in {"empty", "full"}
  /\ UNCHANGED <<main, reader, writer, fd, link, unread, finish>>

Arrive ==
  /\ link = "up" /\ Running
  /\ \E n \in 1 .. MaxText - unread : unread' = unread + n
  /\ UNCHANGED <<main, reader, writer, fd, link, finish, input>>

ServerCloses ==
  /\ link = "up" /\ Running
  /\ link' \in {"fin", "reset"}
  /\ UNCHANGED <<main, reader, writer, fd, unread, finish, input>>

-----------------------------------------------------------------------------
Main == Connect \/ JoinWriter \/ JoinReader
Reader == ReadText \/ ReadEnds \/ ReadFails
Writer == Send \/ SendFails \/ SigPipe

Next == Main \/ Reader \/ Writer \/ InputEnds \/ Arrive \/ ServerCloses

Spec == Init /\ [][Next]_vars

(***************************************************************************)
(* The kernel lets main and the reading thread run on, and the writing one *)
(* whenever it need not wait for the user.                                 *)
(***************************************************************************)
FairSpec == /\ Spec
            /\ WF_vars(Main) /\ WF_vars(Reader)
            /\ WF_vars(input # "open" /\ Writer)

-----------------------------------------------------------------------------
Ended == main \in {"over", "killed"}

(***************************************************************************)
(* client_socket.cpp:36.  The end of the stream does not end the loop of   *)
(* onread; the descriptor it has closed does.  However the writing thread  *)
(* uses and loses the connection meanwhile, onread is over some time after *)
(* the server closed, whether or not the user types anything more.         *)
(***************************************************************************)
ReaderLeaves == link \in {"fin", "reset", "pipe"} ~> reader = "over" \/ Ended

(***************************************************************************)
(* client_socket.cpp:101.  main waits for the writing thread first, which  *)
(* may wait for the user; with an input that ends, the process ends some   *)
(* time after the server closed, by itself or by SIGPIPE.                  *)
(***************************************************************************)
ProcessEnds ==
  [](link \in {"fin", "reset", "pipe"} /\ input # "open" => <>Ended)

=============================================================================
