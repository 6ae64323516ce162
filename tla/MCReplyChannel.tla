--------------------------- MODULE MCReplyChannel ---------------------------
(***************************************************************************)
(* Values of the constants of ReplyChannel for model checking.             *)
(***************************************************************************)
EXTENDS ReplyChannel

\* "OK:1234567890" and the literal behind it.
Reply == <<LETTER, LETTER, LETTER, 1, 2, 3, 4, 5, 6, 7, 8, 9, 0>>
BehindReply == <<NUL>> \o [i \in 1 .. 7 |-> UNKNOWN]

=============================================================================
