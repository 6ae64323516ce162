---------------------------- MODULE RequestReply ----------------------------
(***************************************************************************)
(* What the epoll servers of this repository promise each connection: it   *)
(* is admitted once, asks one request at a time, every request is answered *)
(* exactly once before the next one is taken up, and the server closes the *)
(* connection only when nothing is owed on it.  A connection the kernel    *)
(* refuses to watch is admitted and then ignored.                          *)
(***************************************************************************)
EXTENDS Naturals

CONSTANT Conns

VARIABLES phase, asked, answered

rrVars == <<phase, asked, answered>>

Phases == {"absent", "reading", "owing", "closed", "unwatched"}

RRInit ==
  /\ phase = [c \in Conns |-> "absent"]
  /\ asked = [c \in Conns |-> 0]
  /\ answered = [c \in Conns |-> 0]

Move(c, from, to) == phase[c] = from /\ phase' = [phase EXCEPT ![c] = to]

Admit(c) ==
  /\ Move(c, "absent", "reading") \/ Move(c, "absent", "unwatched")
  /\ UNCHANGED <<asked, answered>>

Ask(c) ==
  /\ Move(c, "reading", "owing")
  /\ asked' = [asked EXCEPT ![c] = @ + 1]
  /\ UNCHANGED answered

Answer(c) ==
  /\ Move(c, "owing", "reading")
  /\ answered' = [answered EXCEPT ![c] = @ + 1]
  /\ UNCHANGED asked

Close(c) == Move(c, "reading", "closed") /\ UNCHANGED <<asked, answered>>

RRNext == \E c \in Conns : Admit(c) \/ Ask(c) \/ Answer(c) \/ Close(c)

RRSpec == RRInit /\ [][RRNext]_rrVars

\* A server that stops when a send fails gives the reply up.
GiveUp(c) == Move(c, "owing", "reading") /\ UNCHANGED <<asked, answered>>

RRLossySpec == RRInit /\ [][RRNext \/ \E c \in Conns : GiveUp(c)]_rrVars

\* With peers that stay and read: every request is answered.
RRFairSpec == RRSpec /\ \A c \in Conns : WF_rrVars(Answer(c))

=============================================================================
