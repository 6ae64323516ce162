------------------------- MODULE DriverTraceProofs -------------------------
(***************************************************************************)
(* Where the output of the two programs goes, for any number of            *)
(* descriptors, any faults and any results; and what the lists of values   *)
(* are that the job puts into its statements.                              *)
(***************************************************************************)
EXTENDS DriverTrace, TLAPS, WellFoundedInduction, SequenceTheorems

(***************************************************************************)
(* OutputApart is not inductive: it needs that 0, 1 and 2 are never free   *)
(* once they have been opened, and that there is another descriptor for    *)
(* each connection, so that the lowest free one is none of the three.      *)
(***************************************************************************)
ProcessOK ==
  /\ program \in {"daemon", "driver_trace"}
  /\ dm \in BOOLEAN
  /\ pc \in Places
  /\ fds \in [0 .. MaxFd -> Files]
  /\ nonull \in BOOLEAN
  /\ pc \in Starting \cup Detaching => ~ nonull

Standard == ~ nonull => \A fd \in {0, 1, 2} : fds[fd] \in {"terminal", "null"}

Connecting == {"query", "result", "trace"} \cup Ended

Spare == /\ fds[3] = "closed" \/ fds[4] = "closed"
         /\ pc \notin Connecting => fds[3] = "closed" /\ fds[4] = "closed"

TraceInv == ProcessOK /\ Standard /\ Spare /\ OutputApart

USE FdAssumption, ConnectionAssumption

-----------------------------------------------------------------------------
\* open, dup and socket take a descriptor that is free, if there is one.
LEMMA LowestIsFree ==
  ASSUME Spare
  PROVE  Lowest \in Free
<1>1. \E fd \in Free : \A other \in Free : fd <= other
  <2>1. CASE 0 \in Free
    BY <2>1 DEF Free
  <2>2. CASE 0 \notin Free /\ 1 \in Free
    BY <2>2 DEF Free
  <2>3. CASE 0 \notin Free /\ 1 \notin Free /\ 2 \in Free
    BY <2>3 DEF Free
  <2>4. CASE 0 \notin Free /\ 1 \notin Free /\ 2 \notin Free /\ 3 \in Free
    BY <2>4 DEF Free
  <2>5. CASE 0 \notin Free /\ 1 \notin Free /\ 2 \notin Free /\ 3 \notin Free
    <3>1. 4 \in Free
      BY <2>5 DEF Spare, Free
    <3>. QED
      BY <2>5, <3>1 DEF Free
  <2>. QED
    BY <2>1, <2>2, <2>3, <2>4, <2>5
<1>. QED
  BY <1>1 DEF Lowest

\* While /dev/null is there, that is none of the first three.
LEMMA LowestAboveStandard ==
  ASSUME ProcessOK, Standard, Spare, ~ nonull
  PROVE  Lowest \in 3 .. MaxFd
<1>1. Lowest \in 0 .. MaxFd /\ fds[Lowest] = "closed"
  BY LowestIsFree DEF Free
<1>. QED
  BY <1>1 DEF Standard

-----------------------------------------------------------------------------
LEMMA TraceInvInit == Init => TraceInv
<1>. SUFFICES ASSUME Init PROVE TraceInv
  OBVIOUS
<1>1. ProcessOK
  BY DEF Init, DaemonInit, ProcessOK, Places, Starting, Detaching, Looping, Working, Ended, Files
<1>2. Standard /\ OutputApart
  BY DEF Init, DaemonInit, Standard, OutputApart
<1>3. Spare
  BY DEF Init, DaemonInit, Spare
<1>. QED
  BY <1>1, <1>2, <1>3 DEF TraceInv

\* What is written to descriptor 1 while it keeps its place.
LEMMA SaysApart ==
  ASSUME TraceInv, Says(1), nonull' = nonull
  PROVE  OutputApart'
BY DEF TraceInv, ProcessOK, Standard, OutputApart, Says

\* The steps that touch no descriptor.
LEMMA OnlyMoves ==
  ASSUME TraceInv, pc' \in Places,
         OutputApart',
         UNCHANGED <<program, dm, fds, nonull>>,
         \/ pc' \in Ended \cup {pc}
         \/ pc' \in Looping /\ pc \in Looping
         \/ pc' \in {"install", "fork", "setsid"} /\ pc \in Starting \cup Detaching
         \/ pc' \in Looping \cup Working /\ pc \notin Connecting
  PROVE  TraceInv'
<1>1. ProcessOK'
  BY DEF TraceInv, ProcessOK, Starting, Detaching, Looping, Working, Ended
<1>3. Standard' /\ OutputApart'
  BY DEF TraceInv, Standard
<1>4. Spare'
  BY DEF TraceInv, Spare, Connecting, Starting, Detaching, Looping, Working, Ended
<1>. QED
  BY <1>1, <1>3, <1>4 DEF TraceInv

-----------------------------------------------------------------------------
\* Options, signals, daemonize and the loop of daemon.cpp.
LEMMA MainStep ==
  ASSUME TraceInv, Main
  PROVE  TraceInv'
<1>. USE DEF Goto, Places, Starting, Detaching, Looping, Working, Ended
<1>0. UNCHANGED <<said, nonull>> => OutputApart'
  BY DEF TraceInv, OutputApart
<1>1. CASE Help \/ PrintRunning
  <2>1. OutputApart'
    BY <1>1, SaysApart DEF Help, PrintRunning
  <2>. QED
    BY <1>1, <2>1, OnlyMoves DEF Help, PrintRunning
<1>2. CASE BareSql \/ Fork
  BY <1>0, <1>2, OnlyMoves DEF BareSql, Fork
<1>3. CASE Options
  BY <1>3 DEF Options, TraceInv, ProcessOK, Standard, Spare, Connecting, OutputApart
<1>4. CASE Install
  BY <1>0, <1>4, OnlyMoves DEF Install, Start, Connecting, TraceInv, ProcessOK
<1>5. CASE Setsid
  BY <1>5 DEF Setsid, TraceInv, ProcessOK, Standard, Spare, Connecting, OutputApart
<1>6. CASE Redirect
  <2>1. ProcessOK'
    BY <1>6 DEF Redirect, Start, TraceInv, ProcessOK, Files
  <2>3. Standard' /\ OutputApart'
    BY <1>6 DEF Redirect, TraceInv, ProcessOK, Standard, OutputApart
  <2>4. Spare'
    BY <1>6 DEF Redirect, Start, TraceInv, Spare, Connecting
  <2>. QED
    BY <2>1, <2>3, <2>4 DEF TraceInv
<1>7. CASE Test \/ Wake
  BY <1>0, <1>7, OnlyMoves DEF Test, Wake, Connecting
<1>8. CASE ParentExits
  BY <1>8 DEF ParentExits, TraceInv, ProcessOK, Standard, Spare, Connecting, OutputApart
<1>. QED
  BY <1>1, <1>2, <1>3, <1>4, <1>5, <1>6, <1>7, <1>8 DEF Main

LEMMA SignalStep ==
  ASSUME TraceInv, Signals
  PROVE  TraceInv'
<1>0. UNCHANGED <<said, nonull>> => OutputApart'
  BY DEF TraceInv, OutputApart
<1>1. CASE Terminate
  <2>0. \/ pc' = "killed" \/ pc' = "crashed"
        \/ pc = "sleep" /\ pc' = "test"
        \/ pc' = pc
    BY <1>1 DEF Terminate
  <2>1. pc' \in Ended \cup {pc} \/ (pc' \in Looping /\ pc \in Looping)
    BY <2>0 DEF Ended, Looping
  <2>2. pc' \in Places
    BY <2>1 DEF TraceInv, ProcessOK, Places
  <2>3. OutputApart'
    <3>1. UNCHANGED said \/ Says(1)
      BY <1>1 DEF Terminate
    <3>2. nonull' = nonull
      BY <1>1 DEF Terminate
    <3>. QED
      BY <1>0, <3>1, <3>2, SaysApart
  <2>. QED
    BY <1>1, <2>1, <2>2, <2>3, OnlyMoves DEF Terminate
<1>2. CASE HangUp
  <2>1. pc' \in Ended \cup {pc}
    BY <1>2 DEF HangUp, Ended
  <2>2. pc' \in Places
    BY <2>1 DEF TraceInv, ProcessOK, Places
  <2>. QED
    BY <1>0, <1>2, <2>1, <2>2, OnlyMoves DEF HangUp
<1>3. CASE ParentTerminated
  <2>1. OutputApart'
    BY <1>3 DEF ParentTerminated, TraceInv, OutputApart
  <2>. QED
    BY <1>3, <2>1 DEF ParentTerminated, TraceInv, ProcessOK, Standard, Spare, Connecting
<1>. QED
  BY <1>1, <1>2, <1>3 DEF Signals

\* A connection gets a descriptor beside the standard ones.
LEMMA ConnectStep ==
  ASSUME TraceInv, Connect
  PROVE  TraceInv'
<1>. USE DEF Step, Goto, Places, Starting, Detaching, Looping, Working, Ended
<1>1. PICK succeeds \in BOOLEAN :
        /\ fds' = IF succeeds THEN [fds EXCEPT ![Lowest] = "mysql"] ELSE fds
        /\ said' = said \cup {fds'[1]}
  BY DEF Connect, Open
<1>2. Lowest \in 0 .. MaxFd
  BY LowestIsFree DEF TraceInv, Free
<1>3. ~ nonull => Lowest \in 3 .. MaxFd
  BY LowestAboveStandard DEF TraceInv
<1>4. ProcessOK'
  BY <1>1, <1>2 DEF Connect, TraceInv, ProcessOK, Files
<1>6. Standard'
  BY <1>1, <1>3 DEF Connect, TraceInv, ProcessOK, Standard
<1>7. Spare'
  BY <1>1, <1>2 DEF Connect, TraceInv, ProcessOK, Spare, Connecting
<1>8. OutputApart'
  BY <1>1, <1>6 DEF Connect, TraceInv, Standard, OutputApart
<1>. QED
  BY <1>4, <1>6, <1>7, <1>8 DEF TraceInv

LEMMA ConnectTraceStep ==
  ASSUME TraceInv, ConnectTrace
  PROVE  TraceInv'
<1>. USE DEF Step, Goto, Places, Starting, Detaching, Looping, Working, Ended
<1>1. ~ nonull => Lowest # 1 /\ fds[1] # "mysql"
  BY LowestAboveStandard DEF TraceInv, Standard
<1>2. OutputApart'
  BY <1>1 DEF ConnectTrace, TraceInv, OutputApart
<1>3. ProcessOK'
  BY DEF ConnectTrace, Released, TraceInv, ProcessOK, Files
<1>4. Standard'
  BY DEF ConnectTrace, Released, TraceInv, ProcessOK, Standard
<1>5. Spare'
  BY DEF ConnectTrace, Released, TraceInv, Spare, Connecting
<1>. QED
  BY <1>2, <1>3, <1>4, <1>5 DEF TraceInv

LEMMA JobStep ==
  ASSUME TraceInv, Job
  PROVE  TraceInv'
<1>. USE DEF Step, Goto
<1>1. CASE (LoadConfig \/ QueryDrivers \/ LoadConfigFails) /\ UNCHANGED said
  <2>1. ProcessOK'
    BY <1>1 DEF LoadConfig, QueryDrivers, LoadConfigFails, TraceInv, ProcessOK, Places, Starting,
                Detaching, Working, Ended
  <2>2. Standard' /\ OutputApart'
    BY <1>1 DEF LoadConfig, QueryDrivers, LoadConfigFails, TraceInv, Standard,
                OutputApart, Looping, Working, Ended
  <2>3. Spare'
    BY <1>1 DEF LoadConfig, QueryDrivers, LoadConfigFails, TraceInv, Spare, Connecting, Ended
  <2>. QED
    BY <2>1, <2>2, <2>3 DEF TraceInv
<1>2. CASE LoadConfigFails /\ Says(1)
  <2>1. OutputApart'
    BY <1>2, SaysApart DEF LoadConfigFails, Step
  <2>2. pc' \in Ended /\ pc' \in Places
    BY <1>2 DEF LoadConfigFails, Ended, Places
  <2>. QED
    BY <1>2, <2>1, <2>2, OnlyMoves DEF LoadConfigFails
<1>3. CASE Connect
  BY <1>3, ConnectStep
<1>4. CASE ListDrivers
  <2>1. ProcessOK'
    BY <1>4 DEF ListDrivers, TraceInv, ProcessOK, Places, Starting, Detaching, Working
  <2>2. Standard'
    BY <1>4 DEF ListDrivers, TraceInv, Standard, Looping, Working
  <2>3. Spare'
    BY <1>4 DEF ListDrivers, TraceInv, Spare, Connecting
  <2>4. OutputApart'
    BY <1>4, SaysApart DEF ListDrivers
  <2>. QED
    BY <2>1, <2>2, <2>3, <2>4 DEF TraceInv
<1>5. CASE ConnectTrace
  BY <1>5, ConnectTraceStep
<1>6. QueryDrivers => UNCHANGED said
  BY DEF QueryDrivers
<1>. QED
  BY <1>1, <1>2, <1>3, <1>4, <1>5, <1>6 DEF Job, LoadConfig, LoadConfigFails

LEMMA TraceInvStep == TraceInv /\ [Next]_allVars => TraceInv'
<1>1. TraceInv /\ UNCHANGED allVars => TraceInv'
  BY DEF allVars, daemonVars, TraceInv, ProcessOK, Standard, Spare, OutputApart
<1>. QED
  BY <1>1, MainStep, SignalStep, JobStep DEF Next

LEMMA TraceInvariance == Spec => []TraceInv
BY TraceInvInit, TraceInvStep, PTL DEF Spec

-----------------------------------------------------------------------------
(***************************************************************************)
(* baidu_location.cpp:40.  No output of either program goes into the       *)
(* connection to the database while /dev/null can be opened.               *)
(***************************************************************************)
THEOREM OutputStaysApart == Spec => []OutputApart
BY TraceInvariance, PTL DEF TraceInv

-----------------------------------------------------------------------------
(***************************************************************************)
(* The list getResult returns.                                             *)
(***************************************************************************)

\* The i-th of the pieces that are appended for values s.
Piece(s, i) == IF i = 1 THEN LeftParen
               ELSE IF i % 4 = 1 THEN Comma
               ELSE IF i % 4 = 3 THEN s[(i + 1) \div 4]
               ELSE Quote

\* The pieces up to those of the n-th value.
Pieces(s, n) == [i \in 1 .. 4 * n + 2 |-> Piece(s, i)]

\* Four elements behind a sequence.
LEMMA FourMore ==
  ASSUME NEW U, NEW p \in Seq(U),
         NEW a \in U, NEW b \in U, NEW c \in U, NEW d \in U
  PROVE  \A q : q = p \o <<a, b, c, d>> =>
         /\ q \in Seq(U) /\ Len(q) = Len(p) + 4
         /\ \A i \in 1 .. Len(p) : q[i] = p[i]
         /\ q[Len(p) + 1] = a /\ q[Len(p) + 2] = b
         /\ q[Len(p) + 3] = c /\ q[Len(p) + 4] = d
<1> DEFINE t == <<a, b, c, d>>
<1>1. /\ t \in Seq(U) /\ Len(t) = 4
      /\ t[1] = a /\ t[2] = b /\ t[3] = c /\ t[4] = d
  OBVIOUS
<1>2. Len(p) \in Nat
  BY LenProperties
<1> HIDE DEF t
<1>3. /\ p \o t \in Seq(U) /\ Len(p \o t) = Len(p) + 4
      /\ \A i \in 1 .. Len(p) + Len(t) :
           (p \o t)[i] = IF i <= Len(p) THEN p[i] ELSE t[i - Len(p)]
  <2>1. t \in Seq(U)
    BY <1>1
  <2>2. /\ p \o t \in Seq(U) /\ Len(p \o t) = Len(p) + Len(t)
        /\ \A i \in 1 .. Len(p) + Len(t) :
             (p \o t)[i] = IF i <= Len(p) THEN p[i] ELSE t[i - Len(p)]
    BY <2>1, ConcatProperties, Zenon
  <2>. QED
    BY <1>1, <2>2
<1>4. \A i \in 1 .. Len(p) : (p \o t)[i] = p[i]
  BY <1>1, <1>2, <1>3
<1>5. \A j \in 1 .. 4 : (p \o t)[Len(p) + j] = t[j]
  BY <1>1, <1>2, <1>3
<1>. QED
  BY <1>1, <1>3, <1>4, <1>5 DEF t

LEMMA SignsAreSigns ==
  LeftParen \in Signs /\ Quote \in Signs /\ Comma \in Signs /\ RightParen \in Signs
  BY DEF Signs

LEMMA PiecesAreSeq ==
  ASSUME NEW T, NEW s \in Seq(T), NEW n \in 0 .. Len(s)
  PROVE  /\ n \in Nat
         /\ Pieces(s, n) \in Seq(T \cup Signs) /\ Len(Pieces(s, n)) = 4 * n + 2
         /\ \A i \in 1 .. 4 * n + 2 : Pieces(s, n)[i] = Piece(s, i)
<1>0. Len(s) \in Nat /\ n \in Nat /\ n <= Len(s)
  BY LenProperties
<1>1. \A i \in 1 .. 4 * n + 2 : i % 4 = 3 => (i + 1) \div 4 \in 1 .. n
  BY <1>0
<1>2. \A i \in 1 .. 4 * n + 2 : Piece(s, i) \in T \cup Signs
  <2> SUFFICES ASSUME NEW i \in 1 .. 4 * n + 2
               PROVE  Piece(s, i) \in T \cup Signs
    OBVIOUS
  <2>1. CASE i % 4 = 3
    <3>1. (i + 1) \div 4 \in 1 .. Len(s)
      BY <1>0, <1>1, <2>1
    <3>2. s[(i + 1) \div 4] \in T
      BY <3>1, ElementOfSeq
    <3>. QED
      BY <2>1, <3>2, SignsAreSigns DEF Piece
  <2>2. CASE i % 4 # 3
    BY <2>2, SignsAreSigns DEF Piece
  <2>. QED
    BY <2>1, <2>2
<1>3. 4 * n + 2 \in Nat
  BY <1>0
<1>4. Pieces(s, n) \in [1 .. 4 * n + 2 -> T \cup Signs]
  BY <1>2 DEF Pieces
<1>5. Pieces(s, n) \in Seq(T \cup Signs)
  BY <1>3, <1>4, SeqDef
<1>6. Len(Pieces(s, n)) = 4 * n + 2
  BY <1>3, <1>4, <1>5, LenProperties
<1>. QED
  BY <1>0, <1>5, <1>6 DEF Pieces

\* One value more.
LEMMA OneMorePiece ==
  ASSUME NEW T, NEW s \in Seq(T), NEW n \in 1 .. Len(s)
  PROVE  Pieces(s, n) = Pieces(s, n - 1) \o <<s[n], Quote, Comma, Quote>>
<1>1. n \in Nat /\ n >= 1 /\ n \in 0 .. Len(s) /\ n - 1 \in 0 .. Len(s)
  BY LenProperties
<1>2. PICK m \in Nat : m = 4 * (n - 1) + 2
  BY <1>1
<1>3. PICK p : p = Pieces(s, n - 1)
  OBVIOUS
<1>4. /\ p \in Seq(T \cup Signs) /\ Len(p) = m
      /\ \A i \in 1 .. m : p[i] = Piece(s, i)
  BY <1>1, <1>2, <1>3, PiecesAreSeq
<1>5. /\ Pieces(s, n) \in Seq(T \cup Signs) /\ Len(Pieces(s, n)) = m + 4
      /\ \A i \in 1 .. m + 4 : Pieces(s, n)[i] = Piece(s, i)
  <2>1. 4 * n + 2 = m + 4
    BY <1>1, <1>2
  <2>. QED
    BY <1>1, <2>1, PiecesAreSeq
<1>6. /\ Piece(s, m + 1) = s[n] /\ Piece(s, m + 2) = Quote
      /\ Piece(s, m + 3) = Comma /\ Piece(s, m + 4) = Quote
  <2>1. /\ (m + 1) % 4 = 3 /\ (m + 1 + 1) \div 4 = n /\ (m + 2) % 4 = 0
        /\ (m + 3) % 4 = 1 /\ (m + 4) % 4 = 2
        /\ m + 1 # 1 /\ m + 2 # 1 /\ m + 3 # 1 /\ m + 4 # 1
    BY <1>1, <1>2
  <2>. QED
    BY <2>1 DEF Piece
<1>7. PICK U : U = T \cup Signs
  OBVIOUS
<1>8. PICK q : q = p \o <<s[n], Quote, Comma, Quote>>
  OBVIOUS
<1>9. /\ q \in Seq(U) /\ Len(q) = Len(p) + 4
      /\ \A i \in 1 .. Len(p) : q[i] = p[i]
      /\ q[Len(p) + 1] = s[n] /\ q[Len(p) + 2] = Quote
      /\ q[Len(p) + 3] = Comma /\ q[Len(p) + 4] = Quote
  <2>1. s[n] \in U /\ Quote \in U /\ Comma \in U
    BY <1>7, SignsAreSigns, ElementOfSeq
  <2>2. p \in Seq(U)
    BY <1>4, <1>7
  <2>3. PICK x \in U : x = s[n]
    BY <2>1
  <2>4. q = p \o <<x, Quote, Comma, Quote>>
    BY <1>8, <2>3
  <2>5. /\ q \in Seq(U) /\ Len(q) = Len(p) + 4
        /\ \A i \in 1 .. Len(p) : q[i] = p[i]
        /\ q[Len(p) + 1] = x /\ q[Len(p) + 2] = Quote
        /\ q[Len(p) + 3] = Comma /\ q[Len(p) + 4] = Quote
    BY <2>1, <2>2, <2>4, FourMore
  <2>. QED
    BY <2>3, <2>5
<1>10. \A i \in 1 .. m + 4 : Pieces(s, n)[i] = q[i]
  <2> SUFFICES ASSUME NEW i \in 1 .. m + 4
               PROVE  Piece(s, i) = q[i]
    BY <1>5
  <2>1. i \in 1 .. m \/ i = m + 1 \/ i = m + 2 \/ i = m + 3 \/ i = m + 4
    OBVIOUS
  <2>. QED
    BY <1>4, <1>6, <1>9, <2>1
<1>11. q \in Seq(T \cup Signs) /\ Len(q) = m + 4
  BY <1>4, <1>7, <1>9
<1>12. Pieces(s, n) = q
  BY <1>5, <1>10, <1>11, SeqEqual
<1>. QED
  BY <1>3, <1>8, <1>12

\* The recursive function of Appended is defined, and its values are these.
LEMMA AppendedIsPieces ==
  ASSUME NEW T, NEW s \in Seq(T)
  PROVE  Appended(s) = Pieces(s, Len(s))
<1> DEFINE Steps(f) == [n \in 0 .. Len(s) |->
                          IF n = 0 THEN <<LeftParen, Quote>>
                                   ELSE f[n - 1] \o <<s[n], Quote, Comma, Quote>>]
           upto == CHOOSE f : f = Steps(f)
           pieces == [n \in 0 .. Len(s) |-> Pieces(s, n)]
<1>0. Len(s) \in Nat
  OBVIOUS
<1>1. Appended(s) = upto[Len(s)]
  BY DEF Appended
<1>2. Pieces(s, 0) = <<LeftParen, Quote>>
  <2>0. 0 \in 0 .. Len(s) /\ 4 * 0 + 2 = 2
    BY <1>0
  <2>1. /\ Pieces(s, 0) \in Seq(T \cup Signs) /\ Len(Pieces(s, 0)) = 2
        /\ \A i \in 1 .. 2 : Pieces(s, 0)[i] = Piece(s, i)
    BY <2>0, PiecesAreSeq
  <2>2. Piece(s, 1) = LeftParen /\ Piece(s, 2) = Quote
    BY DEF Piece
  <2>3. <<LeftParen, Quote>> \in Seq(T \cup Signs)
    BY SignsAreSigns
  <2>. QED
    BY <2>1, <2>2, <2>3, SeqEqual
<1>3. \A n \in 0 .. Len(s) : pieces[n] = Steps(pieces)[n]
  <2> SUFFICES ASSUME NEW n \in 0 .. Len(s)
               PROVE  Pieces(s, n) = IF n = 0 THEN <<LeftParen, Quote>>
                        ELSE pieces[n - 1] \o <<s[n], Quote, Comma, Quote>>
    OBVIOUS
  <2>1. CASE n = 0
    BY <1>2, <2>1
  <2>2. CASE n # 0
    <3>1. n \in 1 .. Len(s) /\ n - 1 \in 0 .. Len(s)
      BY <1>0, <2>2
    <3>2. pieces[n - 1] = Pieces(s, n - 1)
      BY <3>1
    <3>. QED
      BY <2>2, <3>1, <3>2, OneMorePiece
  <2>. QED
    BY <2>1, <2>2
<1>4. pieces = Steps(pieces)
  BY <1>3
<1>5. upto = Steps(upto)
  <2> HIDE DEF Steps, pieces
  <2>. QED  BY <1>4
<1> DEFINE Differ == {n \in 0 .. Len(s) : upto[n] # Pieces(s, n)}
<1>6. Differ = {}
  <2>1. SUFFICES ASSUME Differ # {} PROVE FALSE
    OBVIOUS
  <2>2. Differ \subseteq Nat
    OBVIOUS
  <2>3. PICK n \in Differ : \A m \in Differ : ~ (<<m, n>> \in OpToRel(<, Nat))
    <3> HIDE DEF Differ
    <3>. QED  BY <2>1, <2>2, WFMin, NatLessThanWellFounded
  <2>4. n \in 0 .. Len(s) /\ upto[n] # Pieces(s, n)
    <3> HIDE DEF upto
    <3>. QED  OBVIOUS
  <2>5. upto[n] = IF n = 0 THEN <<LeftParen, Quote>>
                           ELSE upto[n - 1] \o <<s[n], Quote, Comma, Quote>>
    <3> HIDE DEF upto
    <3>. QED  BY <1>5, <2>4
  <2> HIDE DEF upto
  <2>6. CASE n = 0
    BY <1>2, <2>4, <2>5, <2>6
  <2>7. CASE n # 0
    <3>1. n - 1 \in 0 .. Len(s) /\ n \in 1 .. Len(s)
      BY <1>0, <2>4, <2>7
    <3>0. n \in Nat /\ n - 1 \in Nat /\ n - 1 < n
      BY <1>0, <2>4, <2>7
    <3>2. n - 1 \notin Differ
      <4>1. <<n - 1, n>> \in OpToRel(<, Nat)
        BY <3>0 DEF OpToRel
      <4> HIDE DEF Differ
      <4>. QED  BY <2>3, <4>1
    <3>3. upto[n - 1] = Pieces(s, n - 1)
      BY <3>1, <3>2
    <3>. QED
      BY <2>4, <2>5, <2>7, <3>1, <3>3, OneMorePiece
  <2>. QED
    BY <2>6, <2>7
<1>. QED
  <2> HIDE DEF upto
  <2>. QED  BY <1>0, <1>1, <1>6

\* A list of values, and the parenthesis that is left of none.
LEMMA ListedIsInList ==
  ASSUME NEW T, NEW s \in Seq(T)
  PROVE  IF s = <<>> THEN Listed(s) = <<RightParen>> ELSE Listed(s) = InList(s)
<1>1. Len(s) \in Nat /\ Len(s) \in 0 .. Len(s)
  BY LenProperties
<1>2. PICK p : p = Pieces(s, Len(s))
  OBVIOUS
<1>3. PICK m \in Nat : m = 4 * Len(s)
  BY <1>1
<1>4. /\ p \in Seq(T \cup Signs) /\ Len(p) = m + 2
      /\ \A i \in 1 .. m + 2 : p[i] = Piece(s, i)
  BY <1>1, <1>2, <1>3, PiecesAreSeq
<1>5. PICK cut : cut = SubSeq(p, 1, m)
  OBVIOUS
<1>6. Listed(s) = Append(cut, RightParen)
  <2>1. Appended(s) = p
    BY <1>2, AppendedIsPieces
  <2>2. Len(p) - 2 = m
    BY <1>4
  <2>. QED
    BY <1>5, <2>1, <2>2 DEF Listed
<1>7. /\ cut \in Seq(T \cup Signs) /\ Len(cut) = m
      /\ \A i \in 1 .. m : cut[i] = p[i]
  <2>1. \A i \in 1 .. m : p[i] \in T \cup Signs
    BY <1>4, ElementOfSeq
  <2>. QED
    BY <1>5, <2>1, SubSeqProperties
<1>8. PICK t : t = Append(cut, RightParen)
  OBVIOUS
<1>9. /\ t \in Seq(T \cup Signs) /\ Len(t) = m + 1
      /\ \A i \in 1 .. m : t[i] = p[i]
      /\ t[m + 1] = RightParen
  <2>1. RightParen \in T \cup Signs
    BY SignsAreSigns
  <2>. QED
    BY <1>7, <1>8, <2>1, AppendProperties
<1>10. CASE s = <<>>
  <2>1. m = 0
    BY <1>3, <1>10
  <2>2. Len(t) = 1 /\ t[1] = RightParen /\ t \in Seq(T \cup Signs)
    BY <1>9, <2>1
  <2>3. t = <<RightParen>>
    BY <2>2, SignsAreSigns
  <2>. QED
    BY <1>6, <1>8, <1>10, <2>3
<1>11. CASE s # <<>>
  <2>1. m >= 4 /\ m % 4 = 0 /\ (m + 1) % 4 = 1
    BY <1>1, <1>3, <1>11
  <2>2. \A i \in 1 .. m + 1 : t[i] = InList(s)[i]
    <3> SUFFICES ASSUME NEW i \in 1 .. m + 1
                 PROVE  t[i] = InList(s)[i]
      OBVIOUS
    <3>0. i \in 1 .. 4 * Len(s) + 1
      BY <1>3
    <3>1. InList(s)[i] = CASE i = 1 -> LeftParen
                           [] i = 4 * Len(s) + 1 -> RightParen
                           [] i % 4 = 3 -> s[(i + 1) \div 4]
                           [] i % 4 = 1 /\ i \notin {1, 4 * Len(s) + 1} -> Comma
                           [] i % 4 \in {0, 2} -> Quote
      BY <3>0 DEF InList
    <3>2. i % 4 \in {0, 1, 2, 3}
      OBVIOUS
    <3>3. CASE i = m + 1
      <4>1. i # 1 /\ i % 4 # 3 /\ i % 4 \notin {0, 2}
        BY <2>1, <3>3
      <4>. QED
        BY <1>3, <1>9, <3>1, <3>3, <4>1
    <3>4. CASE i # m + 1
      <4>1. i \in 1 .. m /\ t[i] = Piece(s, i)
        BY <1>4, <1>9, <3>4
      <4>2. i = 1 => i % 4 = 1
        OBVIOUS
      <4>. QED
        BY <1>3, <3>1, <3>2, <3>4, <4>1, <4>2 DEF Piece
    <3>. QED
      BY <3>3, <3>4
  <2>3. t = [i \in 1 .. m + 1 |-> t[i]]
    BY <1>9, LenProperties
  <2>4. InList(s) = [i \in 1 .. m + 1 |-> InList(s)[i]]
    BY <1>3 DEF InList
  <2>. QED
    BY <1>6, <1>8, <1>11, <2>2, <2>3, <2>4
<1>. QED
  BY <1>10, <1>11

\* A column is as long as its result.
LEMMA ColumnIsSeq ==
  ASSUME NEW r \in Results, NEW key
  PROVE  /\ \E T : Column(r, key) \in Seq(T)
         /\ Column(r, key) = <<>> <=> r.rows = <<>>
<1>1. r.rows \in Seq(Range(r.rows))
  BY ResultAssumption DEF ResultType
<1>2. PICK n \in Nat : n = Len(r.rows) /\ DOMAIN r.rows = 1 .. n
  BY <1>1, LenProperties
<1>3. PICK T : T = {Column(r, key)[i] : i \in 1 .. n}
  OBVIOUS
<1>4. Column(r, key) \in [1 .. n -> T]
  BY <1>2, <1>3 DEF Column
<1>5. Column(r, key) \in Seq(T)
  BY <1>4, SeqDef
<1>6. Len(Column(r, key)) = n
  BY <1>4, <1>5, LenProperties
<1>7. Column(r, key) = <<>> <=> n = 0
  BY <1>5, <1>6, EmptySeq
<1>8. r.rows = <<>> <=> n = 0
  BY <1>1, <1>2, EmptySeq
<1>. QED
  BY <1>5, <1>7, <1>8

\* What getResult makes of a column.
LEMMA ListedColumn ==
  ASSUME NEW r \in Results, NEW key
  PROVE  IF r.rows = <<>> THEN Listed(Column(r, key)) = <<RightParen>>
                          ELSE Listed(Column(r, key)) = InList(Column(r, key))
BY ColumnIsSeq, ListedIsInList

LEMMA ListedNothing == Listed(<<>>) = <<RightParen>>
<1>1. <<>> \in Seq({})
  OBVIOUS
<1>. QED
  BY <1>1, ListedIsInList

(***************************************************************************)
(* What the object holds between calls: v_result is what its source says,  *)
(* and the list was made of such a v_result.                               *)
(***************************************************************************)
Chosen(s) == IF s.of = NoResult THEN <<>> ELSE Column(s.of, s.key)

Collected ==
  /\ res \in Results \cup {NoResult}
  /\ source \in Sources /\ given \in Sources
  /\ v_result = Chosen(source)
  /\ list # NoList => list = Listed(Chosen(given))

\* A walk that keeps nothing, and the list made after it.
LEMMA ChosenNothing == Nothing \in Sources /\ Chosen(Nothing) = <<>>
BY DEF Nothing, Sources, Keys, Chosen

LEMMA CollectedStep ==
  ASSUME Collected, [WrapperNext]_wrapperVars
  PROVE  Collected'
<1>1. CASE Query
  BY <1>1 DEF Query, Collected, Chosen
<1>2. ASSUME NEW columns, NEW ordered, NEW limit, QueryTable(columns, ordered, limit)
      PROVE  Collected'
  BY <1>2 DEF QueryTable, Collected, Chosen
<1>3. CASE Execute
  BY <1>3 DEF Execute, Collected, Chosen
<1>4. CASE PrintInfo
  <2>1. CASE res # NoResult
    <3>1. v_result' = <<>> /\ source' = Nothing /\ UNCHANGED <<res, list, given>>
      BY <1>4, <2>1 DEF PrintInfo, Printed
    <3>2. v_result' = Chosen(source)'
      BY <3>1, ChosenNothing DEF Chosen
    <3>. QED
      BY <3>1, <3>2, ChosenNothing DEF Collected, Chosen
  <2>2. CASE res = NoResult
    BY <1>4, <2>2 DEF PrintInfo, Collected, Chosen
  <2>. QED
    BY <2>1, <2>2
<1>5. CASE GetResult
  <2>1. /\ v_result' = <<>> /\ source' = Nothing /\ given' = Nothing
        /\ list' = Listed(v_result') /\ UNCHANGED res
    BY <1>5 DEF GetResult, Printed, Lists
  <2>2. v_result' = Chosen(source)' /\ v_result' = Chosen(given)'
    BY <2>1, ChosenNothing DEF Chosen
  <2>. QED
    BY <2>1, <2>2, ChosenNothing DEF Collected
<1>6. ASSUME NEW key \in Keys, GetResultOf(key) PROVE Collected'
  <2>1. PICK new : new = [of |-> res, key |-> key]
    OBVIOUS
  <2>2. /\ res # NoResult /\ UNCHANGED res
        /\ v_result' = Column(res, key) /\ source' = new /\ given' = new
        /\ list' = Listed(v_result')
    BY <1>6, <2>1 DEF GetResultOf, Lists
  <2>3. new \in Sources /\ new.of = res /\ new.key = key
    BY <2>1 DEF Sources, Collected
  <2>4. v_result' = Chosen(source)' /\ v_result' = Chosen(given)'
    BY <2>2, <2>3 DEF Chosen
  <2>. QED
    BY <2>2, <2>3, <2>4 DEF Collected
<1>7. CASE GetResultAgain
  <2>1. /\ UNCHANGED <<res, v_result, source>>
        /\ list' = Listed(v_result) /\ given' = source
    BY <1>7 DEF GetResultAgain, Lists
  <2>2. v_result' = Chosen(source)' /\ Chosen(given)' = v_result
    BY <2>1 DEF Collected, Chosen
  <2>. QED
    BY <2>1, <2>2 DEF Collected
<1>8. CASE UNCHANGED wrapperVars
  BY <1>8 DEF wrapperVars, Collected, Chosen
<1>. QED
  BY <1>1, <1>2, <1>3, <1>4, <1>5, <1>6, <1>7, <1>8 DEF WrapperNext

LEMMA CollectedLists ==
  ASSUME Collected
  PROVE  ListNamesOneColumn
<1>1. CASE given.of = NoResult
  BY <1>1, ListedNothing DEF ListNamesOneColumn, Collected, Chosen
<1>2. CASE given.of # NoResult
  <2>1. given.of \in Results
    BY <1>2 DEF Collected, Sources
  <2>. QED
    BY <1>2, <2>1, ListedColumn DEF ListNamesOneColumn, Collected, Chosen
<1>. QED
  BY <1>1, <1>2

(***************************************************************************)
(* CMysqlWrapper.cpp:100, 142.  In whatever order the methods are called   *)
(* and whatever fails, the list of the last getResult is the column it was *)
(* asked for, of the present result or, after a statement without one, of  *)
(* the result last walked, and a lone parenthesis only where that result   *)
(* had no row or the walk kept nothing.                                    *)
(***************************************************************************)
THEOREM ListsAreColumns == WrapperSpec => []ListNamesOneColumn
<1>1. WrapperInit => Collected
  BY ChosenNothing DEF WrapperInit, Collected
<1>2. Collected /\ [WrapperNext]_wrapperVars => Collected'
  BY CollectedStep
<1>. QED
  BY <1>1, <1>2, CollectedLists, PTL DEF WrapperSpec

=============================================================================
