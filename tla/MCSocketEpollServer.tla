------------------------ MODULE MCSocketEpollServer ------------------------
(***************************************************************************)
(* Values of the constants of SocketEpollServer for model checking.        *)
(***************************************************************************)
EXTENDS SocketEpollServer

CONSTANT c1       \* the connection with a stream of its own

\* Two requests, which may be sent together, and part of one.
Requests == [c \in Conns |-> IF c = c1 THEN <<"n", "n", "x", "n", "n">> ELSE <<"x">>]

=============================================================================
