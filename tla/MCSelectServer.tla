--------------------------- MODULE MCSelectServer ---------------------------
(***************************************************************************)
(* Values of the constants of SelectServer for model checking.             *)
(***************************************************************************)
EXTENDS SelectServer

CONSTANTS c1, c2  \* the connections that send something

Text == [c \in Conns |-> IF c = c1 THEN <<"x", "x">>
                         ELSE IF c = c2 THEN <<"x">> ELSE <<>>]

=============================================================================
