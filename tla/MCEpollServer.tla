---------------------------- MODULE MCEpollServer ----------------------------
(***************************************************************************)
(* Values of the constants of EpollServer for model checking.              *)
(***************************************************************************)
EXTENDS EpollServer, TLC

CONSTANT c1       \* the connection with a stream of its own

Terminator == <<"r", "n", "r", "n">>

\* One request, longer than the first buffer; the others never send.
OneSilent == [c \in Conns |-> IF c = c1 THEN <<"x">> \o Terminator ELSE <<>>]

\* Two of the shortest requests on one connection, and on the others the
\* beginning of one.
TwoAndPart == [c \in Conns |-> IF c = c1 THEN Terminator \o Terminator
                                         ELSE <<"x">>]

\* Two requests that may be read together, and one after a '\0' that follows
\* part of a terminator.
Pipelined ==
  [c \in Conns |-> IF c = c1 THEN Terminator \o <<"x">> \o Terminator
                             ELSE <<"r", "n", "0">> \o Terminator]

\* The connections that send nothing.
Symmetry == Permutations(Conns \ {c1})

=============================================================================
