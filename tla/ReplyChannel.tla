---------------------------- MODULE ReplyChannel ----------------------------
(***************************************************************************)
(* A reply on its way: onwrite of epoll/epoll_socket.cpp prints the length *)
(* of the message, sends it as text, and sends the message WRITE_SIZE      *)
(* bytes at a time; onread of epoll/client.cpp reads a head of MSG_SIZE    *)
(* bytes, takes its number for the length of the body, and reads the body  *)
(* MSG_SIZE bytes at a time.  Between them is a stream of bytes.  The send *)
(* queue of the server has room for all it sends: short and failed sends   *)
(* are those of EpollServer.                                               *)
(*                                                                         *)
(* A byte on the wire is <<k, i>>, the i-th byte sent for the k-th reply,  *)
(* so that a message tells which bytes it was put together from.           *)
(***************************************************************************)
EXTENDS Integers, Sequences

CONSTANTS
  Message,      \* the text of the reply, characters without NUL
  Behind,       \* what memory holds behind it, beginning with its NUL
  WRITE_SIZE,   \* bytes asked of every write of the server
  MSG_SIZE,     \* sizeof(msg) of the client
  MaxReplies,   \* bound: replies the server sends in lockstep
  Delayed,      \* bytes sent may arrive late, so that a read gets fewer
  MaxCut,       \* bound: replies it sends otherwise
  MaxLen        \* bound: larger lengths behave like this one

\* Characters: the digits 0 .. 9, NUL, any letter or other sign that atoi
\* stops at, and one of which nothing is known.
NUL == 10
LETTER == 11
UNKNOWN == 12
Chars == 0 .. 12

ASSUME MessageAssumption ==
  /\ Message \in Seq(Chars \ {NUL}) /\ Len(Message) \in 1 .. 99
  /\ Behind \in Seq(Chars) /\ Len(Behind) >= WRITE_SIZE /\ Behind[1] = NUL
ASSUME SizeAssumption ==
  /\ WRITE_SIZE \in Nat \ {0} /\ MSG_SIZE \in Nat \ {0}
  /\ Delayed \in BOOLEAN
  /\ MaxReplies \in Nat /\ MaxCut \in 0 .. MaxReplies /\ MaxLen \in Nat

VARIABLES
  lockstep,     \* in this run a write is read whole before the next one
  wire,         \* bytes sent and not read yet
  next_byte,    \* the byte the server sends next, as <<k, i>>
  up,           \* the server has not closed the connection
  pc,           \* where onread is: "head", "body" or "done"
  body_len,     \* bytes of the body it still expects; -MSG_SIZE after
                \* a body of length 0, of which one read is made all the same
  recv_msg,     \* the message so far
  last,         \* history: the message printed last
  printed       \* history: how many have been printed

channelVars == <<lockstep, wire, next_byte, up, pc, body_len, recv_msg, last, printed>>

Smaller(a, b) == IF a <= b THEN a ELSE b

\* sprintf("%d"), for the lengths of two digits the assumption allows.
Decimal(n) == IF n < 10 THEN <<n>> ELSE <<n \div 10, n % 10>>

\* The bytes of one reply: its head, and whole writes of the message and of
\* what lies behind it in memory.
Frame ==
  LET writes == (Len(Message) + WRITE_SIZE - 1) \div WRITE_SIZE
  IN  Decimal(Len(Message)) \o SubSeq(Message \o Behind, 1, writes * WRITE_SIZE)

HeadLen == Len(Decimal(Len(Message)))

Garbage == <<0, 0>>             \* a byte of the stack behind msg
Wired == (1 .. MaxReplies + 1) \X (1 .. Len(Frame))

CharOf(b) == Frame[b[2]]

ReplyChannelTypeOK ==
  /\ lockstep \in BOOLEAN
  /\ wire \in Seq(Wired)
  /\ next_byte \in Wired
  /\ up \in BOOLEAN
  /\ pc \in {"head", "body", "done"}
  /\ body_len \in -MSG_SIZE .. MaxLen
  /\ pc = "body" => body_len >= 0
  /\ recv_msg \in Seq(Wired \cup {Garbage})
  /\ last \in Seq(Wired \cup {Garbage})
  /\ printed \in Nat

Init ==
  /\ lockstep \in BOOLEAN
  /\ wire = <<>>
  /\ next_byte = <<1, 1>>
  /\ up = TRUE
  /\ pc = "head"
  /\ body_len = 0
  /\ recv_msg = <<>>
  /\ last = <<>>
  /\ printed = 0

-----------------------------------------------------------------------------
(***************************************************************************)
(* The server: one send.  It may also close the connection at any moment.  *)
(***************************************************************************)
WriteLen(i) == IF i = 1 THEN HeadLen ELSE WRITE_SIZE

After(k, i) == IF i > Len(Frame) THEN <<k + 1, 1>> ELSE <<k, i>>

ServerSends ==
  LET k == next_byte[1]
      i == next_byte[2]
      n == WriteLen(i) IN
  /\ up
  /\ k <= IF lockstep THEN MaxReplies ELSE MaxCut
  /\ lockstep => wire = <<>>
  /\ wire' = wire \o [j \in 1 .. n |-> <<k, i + j - 1>>]
  /\ next_byte' = After(k, i + n)
  /\ UNCHANGED <<lockstep, up, pc, body_len, recv_msg, last, printed>>

ServerCloses ==
  /\ up /\ up' = FALSE
  /\ UNCHANGED <<lockstep, wire, next_byte, pc, body_len, recv_msg, last, printed>>

-----------------------------------------------------------------------------
(***************************************************************************)
(* The client.  read returns n bytes, as many as there are or fewer when   *)
(* the rest has not arrived.                                               *)
(***************************************************************************)
Read(n) ==
  /\ n \in 1 .. Smaller(Len(wire), MSG_SIZE)
  /\ lockstep \/ ~ Delayed => n = Smaller(Len(wire), MSG_SIZE)
  /\ wire' = SubSeq(wire, n + 1, Len(wire))

Text(n) == [i \in 1 .. n |-> CharOf(wire[i])]

\* The first place of text that holds one of chars, Len(text) + 1 if none does.
FirstOf(text, chars) ==
  CHOOSE i \in 1 .. Len(text) + 1 :
    /\ i <= Len(text) => text[i] \in chars
    /\ \A j \in 1 .. i - 1 : text[j] \notin chars

\* atoi of a head of n bytes.  When digits fill the whole of msg the number
\* goes on into the stack and can be anything; a character that is not known
\* may be a sign or white space.
Atoi(n) ==
  LET stop == FirstOf(Text(n), {NUL, LETTER, UNKNOWN})
      value[i \in 0 .. stop - 1] ==
        IF i = 0 THEN 0 ELSE Smaller(10 * value[i - 1] + Text(n)[i], MaxLen)
  IN  IF stop > MSG_SIZE \/ Text(n)[1] = UNKNOWN THEN -1 .. MaxLen
                                              ELSE {value[stop - 1]}

ReadHead(n) ==
  /\ pc = "head"
  /\ Read(n)
  /\ \E len \in Atoi(n) :
       IF len < 0
         THEN pc' = "done" /\ UNCHANGED body_len
         ELSE pc' = "body" /\ body_len' = len
  /\ recv_msg' = <<>>
  /\ UNCHANGED <<lockstep, next_byte, up, last, printed>>

\* What recv_msg += msg appends: the bytes before the first NUL, and bytes of
\* the stack when msg is full and holds none.
Appended(n) ==
  LET stop == FirstOf(Text(n), {NUL})
      bytes == SubSeq(wire, 1, stop - 1)
  IN  IF stop > MSG_SIZE THEN {bytes, bytes \o <<Garbage>>} ELSE {bytes}

\* Mutant: the length must be met exactly.
ReadBody_Exact(n) ==
  /\ pc = "body"
  /\ Read(n)
  /\ body_len' = body_len - n
  /\ \E bytes \in Appended(n) : recv_msg' = recv_msg \o bytes
  /\ IF n # MSG_SIZE \/ body_len' = 0
       THEN pc' = "head" /\ last' = recv_msg' /\ printed' = printed + 1
       ELSE UNCHANGED <<pc, last, printed>>
  /\ UNCHANGED <<lockstep, next_byte, up>>

ReadBody(n) ==
  /\ pc = "body"
  /\ Read(n)
  /\ body_len' = body_len - n
  /\ \E bytes \in Appended(n) : recv_msg' = recv_msg \o bytes
  /\ IF n # MSG_SIZE \/ body_len' <= 0
       THEN pc' = "head" /\ last' = recv_msg' /\ printed' = printed + 1
       ELSE UNCHANGED <<pc, last, printed>>
  /\ UNCHANGED <<lockstep, next_byte, up>>

\* Mutant: the end of the stream is noticed between messages only.
ReadEnds_BetweenMessages ==
  /\ pc = "head"
  /\ wire = <<>> /\ ~ up
  /\ pc' = "done"
  /\ UNCHANGED <<lockstep, wire, next_byte, up, body_len, recv_msg, last, printed>>

\* judge_recv: the end of the stream; the thread closes the socket and exits.
ReadEnds ==
  /\ pc # "done"
  /\ wire = <<>> /\ ~ up
  /\ pc' = "done"
  /\ UNCHANGED <<lockstep, wire, next_byte, up, body_len, recv_msg, last, printed>>

-----------------------------------------------------------------------------
Server == ServerSends \/ ServerCloses

Client == ReadEnds \/ \E n \in 1 .. MSG_SIZE : ReadHead(n) \/ ReadBody(n)

Next == Server \/ Client

Spec == Init /\ [][Next]_channelVars

(***************************************************************************)
(* The reading thread of the client takes a step whenever read returns,    *)
(* and the server finishes a reply it has begun.                           *)
(***************************************************************************)
FairSpec == /\ Spec
            /\ WF_channelVars(Client)
            /\ WF_channelVars(ServerSends)

-----------------------------------------------------------------------------
(***************************************************************************)
(* "Head: holds the length of the body": the message printed last is the   *)
(* text of the reply sent last, all of it and nothing else.  Bytes of the  *)
(* stack, which recv_msg += msg takes along when msg is full, are left out *)
(* of the comparison.                                                      *)
(***************************************************************************)
MessageIsReply ==
  printed > 0 =>
    /\ {last[j] : j \in DOMAIN last} \ {Garbage} =
         {<<printed, HeadLen + i>> : i \in 1 .. Len(Message)}
    /\ \A i, j \in DOMAIN last :
         i < j /\ Garbage \notin {last[i], last[j]} => last[i][2] < last[j][2]

(***************************************************************************)
(* It is when every write is read whole before the next one, although more *)
(* bytes come than the head announced; and then every reply sent whole is  *)
(* printed without waiting for another one.                                *)
(***************************************************************************)
PacedMessageIsReply == lockstep => MessageIsReply

RepliesPrinted ==
  \A k \in 1 .. MaxReplies :
    lockstep /\ next_byte = <<k + 1, 1>> ~> printed >= k

\* The thread does not stay in the middle of a message when the server is gone.
EndNoticed == ~ up ~> pc = "done"

=============================================================================
