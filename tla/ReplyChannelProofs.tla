------------------------- MODULE ReplyChannelProofs -------------------------
(***************************************************************************)
(* Theorem about ReplyChannel: in lockstep the client prints every reply,  *)
(* the whole of it and nothing else, for every text of the reply and every *)
(* size of the writes, as long as the client reads as much at a time as    *)
(* the server writes, 8 bytes in the source.                               *)
(***************************************************************************)
EXTENDS ReplyChannel, TLAPS, SequenceTheorems, WellFoundedInduction

L == Len(Message)
W == WRITE_SIZE

\* What the proof assumes of the sizes.
SizesAgree == WRITE_SIZE = MSG_SIZE /\ MSG_SIZE >= 3 /\ MaxLen >= Len(Message)

Pairs == Nat \X Nat

\* The n bytes of the k-th reply behind its a-th one.
Stretch(k, a, n) == [j \in 1 .. n |-> <<k, a + j>>]

\* s holds the first o bytes of the k-th body, in order, and garbage.
Holds(s, k, o) ==
  /\ s \in Seq(Pairs)
  /\ \A j \in 1 .. Len(s) : s[j] # Garbage => \E i \in 1 .. o : s[j] = <<k, HeadLen + i>>
  /\ \A i \in 1 .. o : \E j \in 1 .. Len(s) : s[j] = <<k, HeadLen + i>>
  /\ \A i, j \in 1 .. Len(s) :
       i < j /\ s[i] # Garbage /\ s[j] # Garbage => s[i][2] < s[j][2]

-----------------------------------------------------------------------------
LEMMA SizeFacts ==
  /\ L \in 1 .. 99 /\ W \in Nat \ {0} /\ HeadLen \in {1, 2}
  /\ Message \in Seq(Chars) /\ Behind \in Seq(Chars)
  /\ \A i \in 1 .. L : Message[i] \in Chars \ {NUL}
  /\ Decimal(L) \in Seq(0 .. 9) /\ Len(Decimal(L)) = HeadLen
<1>1. L \in 1 .. 99 /\ W \in Nat \ {0} /\ Behind \in Seq(Chars) /\ Message \in Seq(Chars \ {NUL})
  BY MessageAssumption, SizeAssumption DEF L, W
<1>0. HeadLen = Len(Decimal(L))
  BY DEF HeadLen, L
<1>2. Message \in Seq(Chars)
  BY <1>1, SeqMonotonic
<1>3. \A i \in 1 .. L : Message[i] \in Chars \ {NUL}
  BY <1>1, ElementOfSeq DEF L
<1>4. CASE L < 10
  <2>1. PICK a \in 0 .. 9 : a = L
    BY <1>1, <1>4
  <2>2. Decimal(L) = <<a>>
    BY <1>4, <2>1 DEF Decimal
  <2>3. <<a>> \in Seq(0 .. 9) /\ Len(<<a>>) = 1
    OBVIOUS
  <2>. QED
    BY <1>0, <1>1, <1>2, <1>3, <2>2, <2>3
<1>5. CASE L >= 10
  <2>1. L \div 10 \in 0 .. 9 /\ L % 10 \in 0 .. 9
    BY <1>1, <1>5
  <2>2. PICK a \in 0 .. 9, b \in 0 .. 9 : a = L \div 10 /\ b = L % 10
    BY <2>1
  <2>3. Decimal(L) = <<a, b>>
    BY <1>1, <1>5, <2>2 DEF Decimal
  <2>4. <<a, b>> \in Seq(0 .. 9) /\ Len(<<a, b>>) = 2
    OBVIOUS
  <2>. QED
    BY <1>0, <1>1, <1>2, <1>3, <2>3, <2>4
<1>. QED
  BY <1>1, <1>4, <1>5

LEMMA StretchIsSeq ==
  ASSUME NEW k \in Nat, NEW a \in Nat, NEW n \in Nat
  PROVE  /\ Stretch(k, a, n) \in Seq(Pairs) /\ Len(Stretch(k, a, n)) = n
         /\ \A j \in 1 .. n : Stretch(k, a, n)[j] = <<k, a + j>>
<1>1. Stretch(k, a, n) \in [1 .. n -> Pairs]
  BY DEF Stretch, Pairs
<1>2. Stretch(k, a, n) \in Seq(Pairs)
  BY <1>1, SeqDef
<1>3. Len(Stretch(k, a, n)) = n
  BY <1>1, <1>2, LenProperties
<1>. QED
  BY <1>2, <1>3 DEF Stretch

\* The first of a stretch.
LEMMA StretchCut ==
  ASSUME NEW k \in Nat, NEW a \in Nat, NEW n \in Nat, NEW m \in 0 .. n
  PROVE  SubSeq(Stretch(k, a, n), 1, m) = Stretch(k, a, m)
<1>1. PICK s : s = Stretch(k, a, n)
  OBVIOUS
<1>2. s \in Seq(Pairs) /\ Len(s) = n /\ \A j \in 1 .. n : s[j] = <<k, a + j>>
  BY <1>1, StretchIsSeq
<1>3. m \in Nat /\ m <= n
  OBVIOUS
<1>4. \A j \in 1 .. m : s[j] \in Pairs
  BY <1>2, <1>3, ElementOfSeq
<1>5. PICK t : t = SubSeq(s, 1, m)
  OBVIOUS
<1>6. t \in Seq(Pairs) /\ Len(t) = m /\ \A j \in 1 .. m : t[j] = s[j]
  BY <1>3, <1>4, <1>5, SubSeqProperties
<1>7. PICK u : u = Stretch(k, a, m)
  OBVIOUS
<1>8. u \in Seq(Pairs) /\ Len(u) = m /\ \A j \in 1 .. m : u[j] = <<k, a + j>>
  BY <1>3, <1>7, StretchIsSeq
<1>9. \A j \in 1 .. m : t[j] = u[j]
  <2> SUFFICES ASSUME NEW j \in 1 .. m
               PROVE  t[j] = u[j]
    OBVIOUS
  <2>1. j \in 1 .. n
    BY <1>3
  <2>. QED
    BY <1>2, <1>6, <1>8, <2>1
<1>10. t = u
  BY <1>6, <1>8, <1>9, SeqEqual
<1>. QED
  BY <1>1, <1>5, <1>7, <1>10

\* Bytes that follow those held.
LEMMA HoldsMore ==
  ASSUME NEW k \in Nat, NEW o \in Nat, NEW n \in Nat, NEW s, Holds(s, k, o)
  PROVE  Holds(s \o Stretch(k, HeadLen + o, n), k, o + n)
<1>1. HeadLen \in Nat /\ HeadLen > 0
  BY SizeFacts
<1>2. PICK t : t = Stretch(k, HeadLen + o, n)
  OBVIOUS
<1>3. t \in Seq(Pairs) /\ Len(t) = n /\ \A j \in 1 .. n : t[j] = <<k, HeadLen + o + j>>
  <2>1. PICK a \in Nat : a = HeadLen + o
    BY <1>1
  <2>2. /\ Stretch(k, a, n) \in Seq(Pairs) /\ Len(Stretch(k, a, n)) = n
        /\ \A j \in 1 .. n : Stretch(k, a, n)[j] = <<k, a + j>>
    BY StretchIsSeq
  <2>3. t = Stretch(k, a, n)
    BY <1>2, <2>1
  <2>. QED
    BY <2>1, <2>2, <2>3
<1>4. PICK m \in Nat : m = Len(s)
  BY LenProperties DEF Holds
<1>5. PICK q : q = s \o t
  OBVIOUS
<1>6. q \in Seq(Pairs) /\ Len(q) = m + n
      /\ \A j \in 1 .. m + n : q[j] = IF j <= m THEN s[j] ELSE t[j - m]
  <2>1. s \in Seq(Pairs)
    BY DEF Holds
  <2>. QED
    BY <1>3, <1>4, <1>5, <2>1, ConcatProperties
<1>7. \A j \in 1 .. m : q[j] = s[j]
  BY <1>4, <1>6
<1>8. \A j \in 1 .. n : m + j \in 1 .. m + n /\ q[m + j] = <<k, HeadLen + (o + j)>>
  <2> SUFFICES ASSUME NEW j \in 1 .. n
               PROVE  m + j \in 1 .. m + n /\ q[m + j] = <<k, HeadLen + (o + j)>>
    OBVIOUS
  <2>1. m + j \in 1 .. m + n /\ ~ (m + j <= m) /\ (m + j) - m = j
    BY <1>4
  <2>2. q[m + j] = t[j]
    BY <1>6, <2>1
  <2>3. HeadLen + o + j = HeadLen + (o + j)
    BY <1>1
  <2>. QED
    BY <1>3, <2>1, <2>2, <2>3
<1>9. \A j \in 1 .. m + n : j \in 1 .. m \/ \E i \in 1 .. n : j = m + i
  <2> SUFFICES ASSUME NEW j \in 1 .. m + n, j \notin 1 .. m
               PROVE  \E i \in 1 .. n : j = m + i
    OBVIOUS
  <2>1. j - m \in 1 .. n /\ j = m + (j - m)
    BY <1>4
  <2>. QED
    BY <2>1
<1>10. /\ \A j \in 1 .. m : s[j] # Garbage => \E i \in 1 .. o : s[j] = <<k, HeadLen + i>>
       /\ \A i \in 1 .. o : \E j \in 1 .. m : s[j] = <<k, HeadLen + i>>
       /\ \A i, j \in 1 .. m :
            i < j /\ s[i] # Garbage /\ s[j] # Garbage => s[i][2] < s[j][2]
  BY <1>4 DEF Holds
<1>11. ASSUME NEW j \in 1 .. m + n, q[j] # Garbage
       PROVE  \E i \in 1 .. o + n : q[j] = <<k, HeadLen + i>>
  <2>1. CASE j \in 1 .. m
    <3>1. PICK i \in 1 .. o : s[j] = <<k, HeadLen + i>>
      BY <1>7, <1>10, <1>11, <2>1
    <3>2. i \in 1 .. o + n
      OBVIOUS
    <3>. QED
      BY <1>7, <2>1, <3>1, <3>2
  <2>2. ASSUME NEW i \in 1 .. n, j = m + i
        PROVE  \E h \in 1 .. o + n : q[j] = <<k, HeadLen + h>>
    <3>1. o + i \in 1 .. o + n
      OBVIOUS
    <3>. QED
      BY <1>8, <2>2, <3>1
  <2>. QED
    BY <1>9, <2>1, <2>2
<1>12. ASSUME NEW i \in 1 .. o + n
       PROVE  \E j \in 1 .. m + n : q[j] = <<k, HeadLen + i>>
  <2>1. CASE i <= o
    <3>0. i \in 1 .. o
      BY <2>1
    <3>1. PICK j \in 1 .. m : s[j] = <<k, HeadLen + i>>
      BY <1>10, <3>0
    <3>2. j \in 1 .. m + n
      OBVIOUS
    <3>. QED
      BY <1>7, <3>1, <3>2
  <2>2. CASE i > o
    <3>1. i - o \in 1 .. n /\ o + (i - o) = i
      BY <2>2
    <3>. QED
      BY <1>8, <3>1
  <2>. QED
    BY <2>1, <2>2
<1>13. ASSUME NEW i \in 1 .. m + n, NEW j \in 1 .. m + n,
              i < j, q[i] # Garbage, q[j] # Garbage
       PROVE  q[i][2] < q[j][2]
  <2>1. CASE j \in 1 .. m
    <3>1. i \in 1 .. m
      BY <1>13, <2>1
    <3>. QED
      BY <1>7, <1>10, <1>13, <2>1, <3>1
  <2>2. ASSUME NEW h \in 1 .. n, j = m + h
        PROVE  q[i][2] < q[j][2]
    <3>1. q[j][2] = HeadLen + (o + h)
      BY <1>8, <2>2
    <3>2. CASE i \in 1 .. m
      <4>1. PICK g \in 1 .. o : s[i] = <<k, HeadLen + g>>
        BY <1>7, <1>10, <1>13, <3>2
      <4>2. q[i][2] = HeadLen + g
        BY <1>7, <3>2, <4>1
      <4>. QED
        BY <1>1, <3>1, <4>2
    <3>3. ASSUME NEW g \in 1 .. n, i = m + g
          PROVE  q[i][2] < q[j][2]
      <4>1. q[i][2] = HeadLen + (o + g)
        BY <1>8, <3>3
      <4>2. g < h
        BY <1>13, <2>2, <3>3
      <4>. QED
        BY <1>1, <3>1, <4>1, <4>2
    <3>. QED
      BY <1>9, <3>2, <3>3
  <2>. QED
    BY <1>9, <2>1, <2>2
<1>. QED
  BY <1>2, <1>5, <1>6, <1>11, <1>12, <1>13 DEF Holds

\* A byte of the stack behind them.
LEMMA HoldsGarbage ==
  ASSUME NEW k \in Nat, NEW o \in Nat, NEW s, Holds(s, k, o)
  PROVE  Holds(s \o <<Garbage>>, k, o)
<1>1. PICK m \in Nat : m = Len(s)
  BY LenProperties DEF Holds
<1>2. PICK g : g = <<Garbage>>
  OBVIOUS
<1>3. g \in Seq(Pairs) /\ Len(g) = 1 /\ g[1] = Garbage
  <2>1. Garbage \in Pairs
    BY DEF Garbage, Pairs
  <2>. QED
    BY <1>2, <2>1
<1>4. PICK q : q = s \o g
  OBVIOUS
<1>5. q \in Seq(Pairs) /\ Len(q) = m + 1
      /\ \A j \in 1 .. m + 1 : q[j] = IF j <= m THEN s[j] ELSE g[j - m]
  <2>1. s \in Seq(Pairs)
    BY DEF Holds
  <2>. QED
    <3>1. /\ s \o g \in Seq(Pairs) /\ Len(s \o g) = Len(s) + Len(g)
          /\ \A j \in 1 .. Len(s) + Len(g) :
               (s \o g)[j] = IF j <= Len(s) THEN s[j] ELSE g[j - Len(s)]
      BY <1>3, <2>1, ConcatProperties, Zenon
    <3>. QED
      BY <1>1, <1>3, <1>4, <3>1
<1>6. \A j \in 1 .. m : j \in 1 .. m + 1 /\ q[j] = s[j]
  BY <1>5
<1>7. q[m + 1] = Garbage
  <2>1. m + 1 \in 1 .. m + 1 /\ ~ (m + 1 <= m) /\ (m + 1) - m = 1
    OBVIOUS
  <2>. QED
    BY <1>3, <1>5, <2>1
<1>8. \A j \in 1 .. m + 1 : q[j] # Garbage => j \in 1 .. m
  BY <1>7
<1>9. /\ \A j \in 1 .. m : s[j] # Garbage => \E i \in 1 .. o : s[j] = <<k, HeadLen + i>>
      /\ \A i \in 1 .. o : \E j \in 1 .. m : s[j] = <<k, HeadLen + i>>
      /\ \A i, j \in 1 .. m :
           i < j /\ s[i] # Garbage /\ s[j] # Garbage => s[i][2] < s[j][2]
  BY <1>1 DEF Holds
<1>10. \A j \in 1 .. m + 1 : q[j] # Garbage =>
         \E i \in 1 .. o : q[j] = <<k, HeadLen + i>>
  BY <1>6, <1>8, <1>9
<1>11. \A i \in 1 .. o : \E j \in 1 .. m + 1 : q[j] = <<k, HeadLen + i>>
  BY <1>6, <1>9
<1>12. \A i, j \in 1 .. m + 1 :
         i < j /\ q[i] # Garbage /\ q[j] # Garbage => q[i][2] < q[j][2]
  BY <1>6, <1>8, <1>9
<1>13. Len(q) = m + 1 /\ q \in Seq(Pairs)
  BY <1>5
<1>14. Holds(q, k, o)
  BY <1>10, <1>11, <1>12, <1>13 DEF Holds
<1>. QED
  BY <1>2, <1>4, <1>14

LEMMA HoldsNothing == \A k : Holds(<<>>, k, 0)
  BY DEF Holds

-----------------------------------------------------------------------------
(***************************************************************************)
(* The writes of one reply.                                                *)
(***************************************************************************)
Writes == (L + W - 1) \div W

LEMMA Products ==
  /\ \A a, b, w \in Nat : a <= b => a * w <= b * w
  /\ \A a, w \in Int : (a + 1) * w = a * w + w /\ (a - 1) * w = a * w - w
  /\ \A a, w \in Nat : a * w \in Nat
OBVIOUS

\* The writes hold the message and less than one write more.
LEMMA WritesHold ==
  Writes \in Nat /\ Writes * W \in Nat /\ L <= Writes * W /\ Writes * W <= L + W - 1
<1>1. \A a \in Nat, b \in Nat \ {0} :
        a \div b \in Nat /\ (a \div b) * b <= a /\ a < (a \div b) * b + b
  OBVIOUS
<1>2. L + W - 1 \in Nat /\ W \in Nat \ {0} /\ L \in Nat
  BY SizeFacts
<1>3. PICK q \in Nat : q = Writes /\ q * W <= L + W - 1 /\ L + W - 1 < q * W + W
  BY <1>1, <1>2 DEF Writes
<1>4. q * W \in Nat
  BY <1>2, Products
<1>. QED
  BY <1>2, <1>3, <1>4

\* Where in the message a write begins.
Offsets == {m * W : m \in 0 .. Writes - 1}

LEMMA OffsetFacts ==
  /\ 0 \in Offsets
  /\ \A o \in Offsets :
       /\ o \in Nat /\ o < L /\ o + W <= Writes * W
       /\ o + W < L => o + W \in Offsets
       /\ o + W >= L => o + W = Writes * W
<1>1. L \in Nat /\ L >= 1 /\ W \in Nat /\ W >= 1
  BY SizeFacts
<1>2. Writes \in Nat /\ Writes * W \in Nat /\ L <= Writes * W /\ Writes * W <= L + W - 1
  BY WritesHold
<1>3. Writes >= 1
  <2>1. 0 * W = 0
    BY <1>1
  <2>. QED
    BY <1>1, <1>2, <2>1
<1>4. 0 \in Offsets
  <2>1. 0 * W = 0 /\ 0 \in 0 .. Writes - 1
    BY <1>1, <1>2, <1>3
  <2>. QED
    BY <2>1 DEF Offsets
<1>5. ASSUME NEW m \in 0 .. Writes - 1
      PROVE  /\ m * W \in Nat /\ m * W < L /\ m * W + W <= Writes * W
             /\ m * W + W < L => m * W + W \in Offsets
             /\ m * W + W >= L => m * W + W = Writes * W
  <2>1. m \in Nat /\ m + 1 \in Nat /\ m + 1 <= Writes /\ Writes - 1 \in Nat
    BY <1>2, <1>3
  <2>2. PICK p \in Nat : p = m * W
    BY <1>1, <2>1, Products
  <2>3. (m + 1) * W = p + W
    BY <1>1, <2>1, <2>2, Products
  <2>4. p + W <= Writes * W
    BY <1>1, <1>2, <2>1, <2>3, Products
  <2>5. p < L
    BY <1>1, <1>2, <2>2, <2>4
  <2>6. CASE m + 1 = Writes
    BY <1>1, <1>2, <2>2, <2>3, <2>4, <2>5, <2>6
  <2>7. CASE m + 1 < Writes
    <3>1. m + 1 \in 0 .. Writes - 1
      BY <1>2, <2>1, <2>7
    <3>2. p + W \in Offsets
      BY <2>3, <3>1 DEF Offsets
    <3>3. (Writes - 1) * W = Writes * W - W
      BY <1>1, <1>2, Products
    <3>4. (m + 1) * W <= (Writes - 1) * W
      BY <1>1, <2>1, <3>1, Products
    <3>5. p + W < L
      BY <1>1, <1>2, <2>3, <3>3, <3>4
    <3>. QED
      BY <1>1, <1>2, <2>2, <2>4, <2>5, <3>2, <3>5
  <2>. QED
    BY <1>2, <2>1, <2>6, <2>7
<1>. QED
  BY <1>4, <1>5 DEF Offsets

LEMMA FrameFacts ==
  /\ Frame \in Seq(Chars)
  /\ Len(Frame) = HeadLen + Writes * W
  /\ \A i \in 1 .. HeadLen : Frame[i] = Decimal(L)[i]
  /\ \A i \in 1 .. L : Frame[HeadLen + i] = Message[i]
  /\ L < Writes * W => Frame[HeadLen + (L + 1)] = NUL
<1>1. /\ L \in Nat /\ L >= 1 /\ W \in Nat /\ W >= 1 /\ HeadLen \in Nat
      /\ Message \in Seq(Chars) /\ Behind \in Seq(Chars) /\ Len(Message) = L
      /\ Decimal(L) \in Seq(Chars) /\ Len(Decimal(L)) = HeadLen
  <2>1. Decimal(L) \in Seq(Chars)
    BY SizeFacts, SeqMonotonic DEF Chars
  <2>2. Len(Message) = L
    BY DEF L
  <2>. QED
    BY <2>1, <2>2, SizeFacts
<1>2. PICK b \in Nat : b = Len(Behind) /\ b >= W /\ Behind[1] = NUL
  BY <1>1, MessageAssumption, LenProperties DEF W
<1>3. PICK m \in Nat : m = Writes * W /\ L <= m /\ m <= L + W - 1
  BY WritesHold
<1>4. PICK t : t = Message \o Behind
  OBVIOUS
<1>5. /\ t \in Seq(Chars) /\ Len(t) = L + b
      /\ \A i \in 1 .. L : t[i] = Message[i]
      /\ t[L + 1] = NUL
  <2>1. /\ t \in Seq(Chars) /\ Len(t) = L + b
        /\ \A i \in 1 .. L + b : t[i] = IF i <= L THEN Message[i] ELSE Behind[i - L]
    BY <1>1, <1>2, <1>4, ConcatProperties
  <2>2. L + 1 \in 1 .. L + b /\ ~ (L + 1 <= L) /\ (L + 1) - L = 1
    BY <1>1, <1>2
  <2>3. \A i \in 1 .. L : i \in 1 .. L + b /\ i <= L
    BY <1>1, <1>2
  <2>. QED
    BY <1>2, <2>1, <2>2, <2>3
<1>6. PICK u : u = SubSeq(t, 1, m)
  OBVIOUS
<1>7. u \in Seq(Chars) /\ Len(u) = m /\ \A i \in 1 .. m : u[i] = t[i]
  <2>1. \A i \in 1 .. m : i \in 1 .. L + b
    BY <1>1, <1>2, <1>3
  <2>2. \A i \in 1 .. m : t[i] \in Chars
    BY <1>5, <2>1, ElementOfSeq
  <2>. QED
    BY <1>6, <2>2, SubSeqProperties
<1>8. PICK d : d = Decimal(L)
  OBVIOUS
<1>9. PICK f : f = d \o u
  OBVIOUS
<1>10. /\ f \in Seq(Chars) /\ Len(f) = HeadLen + m
       /\ \A i \in 1 .. HeadLen + m : f[i] = IF i <= HeadLen THEN d[i] ELSE u[i - HeadLen]
  <2>1. d \in Seq(Chars) /\ u \in Seq(Chars) /\ Len(d) = HeadLen /\ Len(u) = m
    BY <1>1, <1>7, <1>8
  <2>. QED
    BY <1>9, <2>1, ConcatProperties
<1>11. \A i \in 1 .. HeadLen : f[i] = d[i]
  BY <1>1, <1>10
<1>12. ASSUME NEW i \in 1 .. m PROVE f[HeadLen + i] = t[i]
  <2>1. HeadLen + i \in 1 .. HeadLen + m /\ ~ (HeadLen + i <= HeadLen)
        /\ (HeadLen + i) - HeadLen = i
    BY <1>1
  <2>. QED
    BY <1>7, <1>10, <2>1
<1>13. Frame = f
  BY <1>3, <1>4, <1>6, <1>8, <1>9 DEF Frame, Writes, L, W
<1>14. \A i \in 1 .. L : i \in 1 .. m
  BY <1>1, <1>3
<1>15. L < m => L + 1 \in 1 .. m
  BY <1>1, <1>3
<1>. QED
  BY <1>3, <1>5, <1>8, <1>10, <1>11, <1>12, <1>13, <1>14, <1>15

-----------------------------------------------------------------------------
(***************************************************************************)
(* What the client makes of a head and of a part of the body.              *)
(***************************************************************************)

\* A place that is the first one is the one FirstOf finds.
LEMMA FirstIsFound ==
  ASSUME NEW text, Len(text) \in Nat, NEW chars, NEW p \in 1 .. Len(text) + 1,
         p <= Len(text) => text[p] \in chars,
         \A j \in 1 .. p - 1 : text[j] \notin chars
  PROVE  FirstOf(text, chars) = p
<1> DEFINE First(i) == /\ i <= Len(text) => text[i] \in chars
                       /\ \A j \in 1 .. i - 1 : text[j] \notin chars
<1>1. First(p)
  OBVIOUS
<1>2. ASSUME NEW i \in 1 .. Len(text) + 1, First(i) PROVE i = p
  <2>1. CASE i < p
    <3>1. i \in 1 .. p - 1 /\ i <= Len(text)
      BY <2>1
    <3>. QED
      BY <1>2, <3>1
  <2>2. CASE p < i
    <3>1. p \in 1 .. i - 1 /\ p <= Len(text)
      BY <2>2
    <3>. QED
      BY <1>2, <3>1
  <2>. QED
    BY <2>1, <2>2
<1>3. FirstOf(text, chars) = CHOOSE i \in 1 .. Len(text) + 1 : First(i)
  BY DEF FirstOf
<1> HIDE DEF First
<1>. QED
  BY <1>1, <1>2, <1>3

LEMMA TextIs ==
  ASSUME NEW n \in Nat
  PROVE  Len(Text(n)) = n /\ \A i \in 1 .. n : Text(n)[i] = CharOf(wire[i])
<1>1. PICK T : T = {CharOf(wire[i]) : i \in 1 .. n}
  OBVIOUS
<1>2. Text(n) \in [1 .. n -> T]
  BY <1>1 DEF Text
<1>3. Text(n) \in Seq(T)
  BY <1>2, SeqDef
<1>4. Len(Text(n)) = n
  BY <1>2, <1>3, LenProperties
<1>. QED
  BY <1>4 DEF Text

\* The digits of the head.
LEMMA Digits ==
  /\ L < 10 => HeadLen = 1 /\ Decimal(L)[1] = L
  /\ L >= 10 => HeadLen = 2 /\ Decimal(L)[1] = L \div 10 /\ Decimal(L)[2] = L % 10
<1>1. HeadLen = Len(Decimal(L)) /\ L \in Nat
  BY SizeFacts
<1>2. CASE L < 10
  <2>1. Decimal(L) = <<L>>
    BY <1>2 DEF Decimal
  <2>. QED
    BY <1>1, <1>2, <2>1
<1>3. CASE L >= 10
  <2>1. PICK a, b : a = L \div 10 /\ b = L % 10
    OBVIOUS
  <2>2. Decimal(L) = <<a, b>>
    BY <1>1, <1>3, <2>1 DEF Decimal
  <2>. QED
    BY <1>1, <1>3, <2>1, <2>2
<1>. QED
  BY <1>1, <1>2, <1>3

\* The number read from the head is the length of the message.
LEMMA HeadIsLength ==
  ASSUME SizesAgree, NEW k \in Nat, wire = Stretch(k, 0, HeadLen)
  PROVE  Atoi(HeadLen) = {L}
<1>1. /\ HeadLen \in {1, 2} /\ HeadLen \in Nat /\ L \in Nat /\ L \in 1 .. 99
      /\ HeadLen + 1 <= MSG_SIZE /\ MSG_SIZE \in Nat /\ L <= MaxLen /\ MaxLen \in Nat
  BY SizeFacts, SizeAssumption DEF SizesAgree, L
<1>2. PICK text : text = Text(HeadLen)
  OBVIOUS
<1>3. PICK d : d = Decimal(L)
  OBVIOUS
<1>4. /\ Len(text) = HeadLen /\ \A i \in 1 .. HeadLen : text[i] = d[i]
  <2>1. \A i \in 1 .. HeadLen : wire[i] = <<k, 0 + i>>
    <3>1. \A i \in 1 .. HeadLen : Stretch(k, 0, HeadLen)[i] = <<k, 0 + i>>
      BY <1>1, StretchIsSeq
    <3>. QED
      BY <3>1
  <2>2. \A i \in 1 .. HeadLen : CharOf(wire[i]) = Frame[i]
    BY <1>1, <2>1 DEF CharOf
  <2>. QED
    BY <1>1, <1>2, <1>3, <2>2, TextIs, FrameFacts
<1>5. \A i \in 1 .. HeadLen : d[i] \in 0 .. 9
  BY <1>3, SizeFacts, ElementOfSeq
<1>6. FirstOf(text, {NUL, LETTER, UNKNOWN}) = HeadLen + 1
  <2>1. \A i \in 1 .. HeadLen : text[i] \notin {NUL, LETTER, UNKNOWN}
    BY <1>4, <1>5 DEF NUL, LETTER, UNKNOWN
  <2>2. (HeadLen + 1) - 1 = HeadLen /\ HeadLen + 1 \in 1 .. Len(text) + 1
        /\ ~ (HeadLen + 1 <= Len(text))
    BY <1>1, <1>4
  <2>. QED
    BY <1>1, <1>4, <2>1, <2>2, FirstIsFound
<1>7. text[1] # UNKNOWN
  <2>1. 1 \in 1 .. HeadLen
    BY <1>1
  <2>. QED
    BY <1>4, <1>5, <2>1 DEF UNKNOWN
<1> DEFINE Step(v) == [i \in 0 .. HeadLen |->
                         IF i = 0 THEN 0 ELSE Smaller(10 * v[i - 1] + text[i], MaxLen)]
           value == CHOOSE v : v = Step(v)
<1>8. Atoi(HeadLen) = {value[HeadLen]}
  <2>1. (HeadLen + 1) - 1 = HeadLen /\ ~ (HeadLen + 1 > MSG_SIZE)
    BY <1>1
  <2>. QED
    BY <1>2, <1>6, <1>7, <2>1 DEF Atoi
<1>9. ASSUME NEW v, v = Step(v) PROVE v[HeadLen] = L
  <2>1. /\ v[0] = 0
        /\ \A i \in 1 .. HeadLen : v[i] = Smaller(10 * v[i - 1] + text[i], MaxLen)
    <3>1. \A i \in 0 .. HeadLen :
            v[i] = IF i = 0 THEN 0 ELSE Smaller(10 * v[i - 1] + text[i], MaxLen)
      BY <1>9
    <3>. QED
      BY <1>1, <3>1
  <2>2. CASE L < 10
    <3>1. HeadLen = 1 /\ text[1] = L
      BY <1>3, <1>4, <2>2, Digits
    <3>2. v[1] = Smaller(10 * 0 + L, MaxLen)
      BY <2>1, <3>1
    <3>. QED
      BY <1>1, <3>1, <3>2 DEF Smaller
  <2>3. CASE L >= 10
    <3>1. HeadLen = 2 /\ text[1] = L \div 10 /\ text[2] = L % 10
      BY <1>3, <1>4, <2>3, Digits
    <3>2. PICK a \in Nat, b \in Nat : a = L \div 10 /\ b = L % 10 /\ L = 10 * a + b
      BY <1>1
    <3>3. v[1] = Smaller(10 * 0 + a, MaxLen)
      BY <2>1, <3>1, <3>2
    <3>4. v[1] = a
      BY <1>1, <3>2, <3>3 DEF Smaller
    <3>5. v[2] = Smaller(10 * a + b, MaxLen)
      <4>1. 2 \in 1 .. HeadLen /\ 2 - 1 = 1
        BY <3>1
      <4>. QED
        BY <2>1, <3>1, <3>2, <3>4, <4>1
    <3>. QED
      BY <1>1, <3>1, <3>2, <3>5 DEF Smaller
  <2>. QED
    BY <1>1, <2>2, <2>3
<1>10. \E v : v = Step(v)
  <2> DEFINE one == Smaller(10 * 0 + text[1], MaxLen)
             two == Smaller(10 * one + text[2], MaxLen)
             f == [i \in 0 .. HeadLen |-> IF i = 0 THEN 0 ELSE IF i = 1 THEN one ELSE two]
  <2>1. f[0] = 0 /\ f[1] = one /\ (HeadLen = 2 => f[2] = two)
    BY <1>1
  <2> HIDE DEF one, two
  <2>2. \A i \in 0 .. HeadLen : f[i] = Step(f)[i]
    <3> SUFFICES ASSUME NEW i \in 0 .. HeadLen
                 PROVE  f[i] = IF i = 0 THEN 0
                               ELSE Smaller(10 * f[i - 1] + text[i], MaxLen)
      OBVIOUS
    <3> HIDE DEF f
    <3>1. i = 0 \/ i = 1 \/ (i = 2 /\ HeadLen = 2)
      BY <1>1
    <3>2. CASE i = 0
      BY <2>1, <3>2
    <3>3. CASE i = 1
      <4>1. i - 1 = 0
        BY <3>3
      <4>. QED
        BY <2>1, <3>3, <4>1 DEF one
    <3>4. CASE i = 2 /\ HeadLen = 2
      <4>1. i - 1 = 1
        BY <3>4
      <4>. QED
        BY <2>1, <3>4, <4>1 DEF two
    <3>. QED
      BY <3>1, <3>2, <3>3, <3>4
  <2>3. f = Step(f)
    BY <2>2
  <2>. QED
    BY <2>3
<1>. QED
  <2> HIDE DEF Step
  <2>. QED
  BY <1>8, <1>9, <1>10

\* What a whole write of the body adds to the message.
LEMMA BodyAdds ==
  ASSUME SizesAgree, NEW k \in Nat \ {0}, NEW o \in Offsets,
         wire = Stretch(k, HeadLen + o, W), NEW bytes \in Appended(W),
         Holds(recv_msg, k, o)
  PROVE  Holds(recv_msg \o bytes, k, IF o + W < L THEN o + W ELSE L)
<1>1. /\ k \in Nat /\ HeadLen \in Nat /\ L \in Nat /\ W \in Nat /\ W >= 1 /\ W = MSG_SIZE
      /\ o \in Nat /\ o < L /\ o + W <= Writes * W /\ Writes * W \in Nat
  BY SizeFacts, OffsetFacts, WritesHold DEF SizesAgree, W
<1>2. PICK text : text = Text(W)
  OBVIOUS
<1>3. PICK a \in Nat : a = HeadLen + o
  BY <1>1
<1>4. /\ Len(text) = W
      /\ \A j \in 1 .. W : text[j] = Frame[HeadLen + (o + j)]
  <2>0. wire = Stretch(k, a, W)
    BY <1>3
  <2>1. \A j \in 1 .. W : wire[j] = <<k, a + j>>
    <3>1. k \in Nat /\ a \in Nat /\ W \in Nat
      BY <1>1
    <3>2. \A j \in 1 .. W : Stretch(k, a, W)[j] = <<k, a + j>>
      BY <3>1, StretchIsSeq
    <3>. QED
      BY <2>0, <3>2
  <2>2. \A j \in 1 .. W : a + j = HeadLen + (o + j)
    BY <1>1, <1>3
  <2>3. \A j \in 1 .. W : CharOf(wire[j]) = Frame[HeadLen + (o + j)]
    BY <2>1, <2>2 DEF CharOf
  <2>. QED
    BY <1>1, <1>2, <2>3, TextIs
<1>5. PICK n \in 1 .. W : n = IF o + W < L THEN W ELSE L - o
  <2>1. CASE o + W < L
    <3>1. W \in 1 .. W
      BY <1>1
    <3>. QED
      BY <2>1, <3>1
  <2>2. CASE ~ (o + W < L)
    <3>1. L - o \in 1 .. W
      BY <1>1, <2>2
    <3>. QED
      BY <2>2, <3>1
  <2>. QED
    BY <2>1, <2>2
<1>6. \A j \in 1 .. n : text[j] \notin {NUL}
  <2> SUFFICES ASSUME NEW j \in 1 .. n
               PROVE  text[j] # NUL
    OBVIOUS
  <2>1. j \in 1 .. W /\ o + j \in 1 .. L
    BY <1>1, <1>5
  <2>2. text[j] = Message[o + j]
    BY <1>4, <2>1, FrameFacts
  <2>. QED
    BY <2>1, <2>2, SizeFacts
<1>7. n + 1 <= W => text[n + 1] \in {NUL}
  <2> SUFFICES ASSUME n + 1 <= W
               PROVE  text[n + 1] = NUL
    OBVIOUS
  <2>1. n + 1 \in 1 .. W /\ o + (n + 1) = L + 1 /\ L < Writes * W
    BY <1>1, <1>5
  <2>. QED
    BY <1>4, <2>1, FrameFacts
<1>8. FirstOf(text, {NUL}) = n + 1
  <2>1. n + 1 \in 1 .. Len(text) + 1 /\ (n + 1) - 1 = n /\ Len(text) \in Nat
    BY <1>1, <1>4
  <2>2. n + 1 <= Len(text) => text[n + 1] \in {NUL}
    BY <1>4, <1>7
  <2>3. \A j \in 1 .. (n + 1) - 1 : text[j] \notin {NUL}
    BY <1>6, <2>1
  <2>. QED
    BY <2>1, <2>2, <2>3, FirstIsFound
<1>9. PICK part : part = Stretch(k, HeadLen + o, n)
  OBVIOUS
<1>10. SubSeq(wire, 1, n) = part /\ part \in Seq(Pairs)
  <2>1. wire = Stretch(k, a, W) /\ part = Stretch(k, a, n)
    BY <1>3, <1>9
  <2>2. n \in 0 .. W /\ n \in Nat
    BY <1>1
  <2>3. SubSeq(Stretch(k, a, W), 1, n) = Stretch(k, a, n)
    <3>1. k \in Nat /\ a \in Nat /\ W \in Nat
      BY <1>1
    <3>. QED
      BY <2>2, <3>1, StretchCut
  <2>4. Stretch(k, a, n) \in Seq(Pairs)
    BY <2>2, StretchIsSeq
  <2>. QED
    BY <2>1, <2>3, <2>4
<1>11. bytes = part \/ bytes = part \o <<Garbage>>
  <2>1. (n + 1) - 1 = n
    BY <1>1
  <2>. QED
    BY <1>2, <1>8, <1>10, <2>1 DEF Appended
<1>12. PICK e \in Nat : e = o + n /\ e = IF o + W < L THEN o + W ELSE L
  BY <1>1, <1>5
<1>13. Holds(recv_msg \o part, k, e)
  BY <1>1, <1>9, <1>12, HoldsMore
<1>14. CASE bytes = part
  BY <1>12, <1>13, <1>14
<1>15. CASE bytes = part \o <<Garbage>>
  <2>1. Holds((recv_msg \o part) \o <<Garbage>>, k, e)
    BY <1>12, <1>13, HoldsGarbage
  <2>2. part \in Seq(Pairs) /\ recv_msg \in Seq(Pairs) /\ <<Garbage>> \in Seq(Pairs)
    <3>1. Garbage \in Pairs
      BY DEF Garbage, Pairs
    <3>. QED
      BY <1>10, <3>1 DEF Holds
  <2>3. (recv_msg \o part) \o <<Garbage>> = recv_msg \o bytes
    BY <1>15, <2>2, ConcatAssociative
  <2>. QED
    BY <1>12, <2>1, <2>3
<1>. QED
  BY <1>11, <1>14, <1>15

-----------------------------------------------------------------------------
(***************************************************************************)
(* The inductive invariant: where the two ends of the channel stand.       *)
(***************************************************************************)

\* The message so far is what was sent of the body, and so is the count.
Body(o) == /\ pc = "body" /\ body_len = L - o
           /\ Holds(recv_msg, printed + 1, o)

Between == pc = "head" /\ wire = <<>> /\ next_byte = <<printed + 1, 1>>

HeadSent == /\ pc = "head"
            /\ wire = Stretch(printed + 1, 0, HeadLen)
            /\ next_byte = <<printed + 1, HeadLen + 1>>

Waiting(o) == /\ Body(o) /\ wire = <<>>
              /\ next_byte = <<printed + 1, HeadLen + o + 1>>

BodySent(o) == /\ Body(o)
               /\ wire = Stretch(printed + 1, HeadLen + o, W)
               /\ next_byte = After(printed + 1, HeadLen + o + 1 + W)

Lockstep == \/ pc = "done"
            \/ Between
            \/ HeadSent
            \/ \E o \in Offsets : Waiting(o) \/ BodySent(o)

PrintedWhole == printed > 0 => Holds(last, printed, L)

PacedInv == printed \in Nat /\ (lockstep => Lockstep /\ PrintedWhole)

-----------------------------------------------------------------------------
(***************************************************************************)
(* The steps.                                                              *)
(***************************************************************************)

\* The bytes of a write of n bytes from the i-th one on.
Sent(k, i, n) == [j \in 1 .. n |-> <<k, i + j - 1>>]

\* One write into an empty stream.
LEMMA SentIs ==
  ASSUME NEW k \in Nat, NEW a \in Nat, NEW n \in Nat, NEW i, i = a + 1
  PROVE  <<>> \o Sent(k, i, n) = Stretch(k, a, n)
<1>1. \A j \in 1 .. n : i + j - 1 = a + j
  OBVIOUS
<1>2. Sent(k, i, n) = Stretch(k, a, n)
  BY <1>1 DEF Sent, Stretch
<1>3. Stretch(k, a, n) \in Seq(Pairs)
  BY StretchIsSeq
<1>4. PICK s : s = Stretch(k, a, n)
  OBVIOUS
<1>5. <<>> \o s = s
  BY <1>3, <1>4, ConcatEmptySeq
<1>. QED
  BY <1>2, <1>4, <1>5

\* A read in lockstep takes the whole write.
LEMMA WholeRead ==
  ASSUME lockstep, NEW k \in Nat, NEW a \in Nat, NEW n \in Nat, n <= MSG_SIZE,
         wire = Stretch(k, a, n), NEW m, Read(m)
  PROVE  m = n /\ wire' = <<>>
<1>1. Len(wire) = n /\ wire \in Seq(Pairs)
  BY StretchIsSeq
<1>2. MSG_SIZE \in Nat
  BY SizeAssumption
<1>3. Smaller(Len(wire), MSG_SIZE) = n
  BY <1>1, <1>2 DEF Smaller
<1>4. m = n /\ wire' = SubSeq(wire, n + 1, n)
  BY <1>1, <1>3 DEF Read
<1>5. SubSeq(wire, n + 1, n) = <<>>
  BY <1>1, SubSeqEmpty
<1>. QED
  BY <1>4, <1>5

LEMMA InitPaced == Init => PacedInv
BY DEF Init, PacedInv, Lockstep, Between, PrintedWhole

\* What stays when the printed messages stay.
LEMMA PrintedStays ==
  ASSUME PacedInv, UNCHANGED <<lockstep, last, printed>>, lockstep => Lockstep'
  PROVE  PacedInv'
<1>1. PrintedWhole <=> PrintedWhole'
  BY DEF PrintedWhole, Holds
<1>. QED
  BY <1>1 DEF PacedInv

LEMMA SendsPaced ==
  ASSUME SizesAgree, PacedInv, ServerSends
  PROVE  PacedInv'
<1> SUFFICES ASSUME lockstep PROVE Lockstep'
  BY PrintedStays DEF ServerSends
<1>1. /\ HeadLen \in Nat /\ HeadLen >= 1 /\ L \in Nat /\ L >= 1 /\ W \in Nat
      /\ printed \in Nat /\ printed + 1 \in Nat /\ WRITE_SIZE = W
  BY SizeFacts DEF PacedInv, W
<1>2. PICK k \in Nat : k = printed + 1
  BY <1>1
<1>3. PICK i : i = next_byte[2]
  OBVIOUS
<1>4. /\ wire = <<>>
      /\ wire' = wire \o Sent(next_byte[1], i, WriteLen(i))
      /\ next_byte' = After(next_byte[1], i + WriteLen(i))
      /\ UNCHANGED <<lockstep, pc, body_len, recv_msg, printed>>
  BY <1>3 DEF ServerSends, Sent
<1>5. CASE pc = "done"
  BY <1>4, <1>5 DEF Lockstep
<1>6. CASE Between
  <2>1. next_byte[1] = k /\ i = 1 /\ pc = "head" /\ WriteLen(i) = HeadLen /\ i = 0 + 1
    BY <1>2, <1>3, <1>6 DEF Between, WriteLen
  <2>2. wire' = Stretch(k, 0, HeadLen)
    <3>1. wire' = <<>> \o Sent(k, i, HeadLen)
      BY <1>4, <2>1
    <3>. QED
      BY <1>1, <2>1, <3>1, SentIs
  <2>3. next_byte' = <<k, HeadLen + 1>>
    <3>1. Len(Frame) = HeadLen + Writes * W /\ Writes * W \in Nat /\ L <= Writes * W
      BY FrameFacts, WritesHold
    <3>2. ~ (1 + HeadLen > Len(Frame)) /\ 1 + HeadLen = HeadLen + 1
      BY <1>1, <3>1
    <3>. QED
      BY <1>4, <2>1, <3>2 DEF After
  <2>4. HeadSent'
    BY <1>2, <1>4, <2>1, <2>2, <2>3 DEF HeadSent, Stretch, HeadLen
  <2>. QED
    BY <2>4 DEF Lockstep
<1>7. CASE HeadSent
  <2>1. Len(wire) = HeadLen
    <3>1. wire = Stretch(k, 0, HeadLen)
      BY <1>2, <1>7 DEF HeadSent
    <3>. QED
      BY <1>1, <3>1, StretchIsSeq
  <2>. QED
    BY <1>1, <1>4, <2>1
<1>8. ASSUME NEW o \in Offsets, Waiting(o) PROVE Lockstep'
  <2>0. o \in Nat
    BY OffsetFacts
  <2>1. PICK a \in Nat : a = HeadLen + o
    BY <1>1, <2>0
  <2>2. /\ next_byte[1] = k /\ i = a + 1 /\ pc = "body"
    BY <1>2, <1>3, <1>8, <2>1 DEF Waiting, Body
  <2>3. WriteLen(i) = W
    BY <1>1, <2>1, <2>2, OffsetFacts DEF WriteLen
  <2>4. wire' = Stretch(k, a, W)
    <3>1. wire' = <<>> \o Sent(k, i, W)
      BY <1>4, <2>2, <2>3
    <3>. QED
      BY <1>1, <2>2, <3>1, SentIs
  <2>5. next_byte' = After(k, a + 1 + W)
    BY <1>4, <2>2, <2>3
  <2>6. Body(o)'
    BY <1>4, <1>8 DEF Waiting, Body, Holds, Pairs, L, HeadLen, Garbage
  <2>7. BodySent(o)'
    BY <1>2, <1>4, <2>1, <2>4, <2>5, <2>6 DEF BodySent, Stretch, After
  <2>. QED
    BY <2>7 DEF Lockstep
<1>9. ASSUME NEW o \in Offsets, BodySent(o) PROVE FALSE
  <2>0. o \in Nat
    BY OffsetFacts
  <2>1. PICK a \in Nat : a = HeadLen + o
    BY <1>1, <2>0
  <2>2. wire = Stretch(k, a, W)
    BY <1>2, <1>9, <2>1 DEF BodySent
  <2>3. Len(wire) = W
    BY <1>1, <2>2, StretchIsSeq
  <2>. QED
    BY <1>4, <2>3, SizeFacts
<1>10. Lockstep
  BY DEF PacedInv
<1>. QED
  BY <1>5, <1>6, <1>7, <1>8, <1>9, <1>10 DEF Lockstep

LEMMA HeadPaced ==
  ASSUME SizesAgree, PacedInv, NEW n \in 1 .. MSG_SIZE, ReadHead(n)
  PROVE  PacedInv'
<1> SUFFICES ASSUME lockstep PROVE Lockstep'
  BY PrintedStays DEF ReadHead
<1>1. /\ HeadLen \in Nat /\ HeadLen >= 1 /\ HeadLen <= MSG_SIZE /\ L \in Nat
      /\ printed \in Nat /\ MSG_SIZE \in Nat
  BY SizeFacts, SizeAssumption DEF PacedInv, SizesAgree
<1>2. PICK k \in Nat : k = printed + 1
  BY <1>1
<1>3. pc = "head" /\ Read(n) /\ recv_msg' = <<>> /\ UNCHANGED <<next_byte, printed>>
  BY DEF ReadHead
<1>4. CASE Between
  <2>1. Smaller(Len(wire), MSG_SIZE) = 0
    BY <1>1, <1>4 DEF Between, Smaller
  <2>. QED
    BY <1>3, <2>1 DEF Read
<1>5. CASE HeadSent
  <2>1. wire = Stretch(k, 0, HeadLen)
    BY <1>2, <1>5 DEF HeadSent
  <2>2. n = HeadLen /\ wire' = <<>>
    BY <1>1, <1>3, <2>1, WholeRead
  <2>3. Atoi(n) = {L}
    BY <2>1, <2>2, HeadIsLength
  <2>4. pc' = "body" /\ body_len' = L
    BY <1>1, <2>3 DEF ReadHead
  <2>5. Holds(<<>>, k, 0)
    BY HoldsNothing
  <2>6. L - 0 = L /\ HeadLen + 0 + 1 = HeadLen + 1
    BY <1>1
  <2>7. Waiting(0)'
    BY <1>2, <1>3, <1>5, <2>2, <2>4, <2>5, <2>6 DEF Waiting, Body, HeadSent
  <2>. QED
    BY <2>7, OffsetFacts DEF Lockstep
<1>6. Between \/ HeadSent
  BY <1>3 DEF PacedInv, Lockstep, Waiting, BodySent, Body
<1>. QED
  BY <1>4, <1>5, <1>6

LEMMA BodyPaced ==
  ASSUME SizesAgree, PacedInv, NEW n \in 1 .. MSG_SIZE, ReadBody(n)
  PROVE  PacedInv'
<1>1. /\ HeadLen \in Nat /\ L \in Nat /\ W \in Nat /\ W = MSG_SIZE
      /\ printed \in Nat
      /\ Len(Frame) = HeadLen + Writes * W /\ Writes * W \in Nat /\ L <= Writes * W
  BY SizeFacts, FrameFacts, WritesHold DEF PacedInv, SizesAgree, W
<1>2. PICK k \in Nat \ {0} : k = printed + 1
  BY <1>1
<1>3. /\ pc = "body" /\ Read(n) /\ body_len' = body_len - n
      /\ \E bytes \in Appended(n) : recv_msg' = recv_msg \o bytes
      /\ IF n # MSG_SIZE \/ body_len' <= 0
           THEN pc' = "head" /\ last' = recv_msg' /\ printed' = printed + 1
           ELSE UNCHANGED <<pc, last, printed>>
      /\ UNCHANGED <<lockstep, next_byte>>
  BY DEF ReadBody
<1>4. printed' \in Nat
  BY <1>1, <1>3
<1> SUFFICES ASSUME lockstep PROVE Lockstep' /\ PrintedWhole'
  BY <1>3, <1>4 DEF PacedInv
<1>5. PICK o \in Offsets : Waiting(o) \/ BodySent(o)
  BY <1>3 DEF PacedInv, Lockstep, Between, HeadSent
<1>6. PICK a \in Nat : a = HeadLen + o
  BY <1>1, OffsetFacts
<1>7. /\ o \in Nat /\ o < L
      /\ o + W < L => o + W \in Offsets
      /\ o + W >= L => o + W = Writes * W
  BY OffsetFacts
<1>8. ~ Waiting(o)
  <2> SUFFICES ASSUME wire = <<>> PROVE FALSE
    BY DEF Waiting
  <2>1. Smaller(Len(wire), MSG_SIZE) = 0
    BY <1>1 DEF Smaller
  <2>. QED
    BY <1>3, <2>1 DEF Read
<1>9. /\ wire = Stretch(k, a, W) /\ next_byte = After(k, a + 1 + W)
      /\ body_len = L - o /\ Holds(recv_msg, k, o)
  BY <1>2, <1>5, <1>6, <1>8 DEF BodySent, Body
<1>10. n = W /\ wire' = <<>>
  BY <1>1, <1>2, <1>3, <1>9, WholeRead
<1>11. Holds(recv_msg', k, IF o + W < L THEN o + W ELSE L)
  <2>1. wire = Stretch(k, HeadLen + o, W)
    BY <1>6, <1>9
  <2>2. PICK bytes \in Appended(W) : recv_msg' = recv_msg \o bytes
    BY <1>3, <1>10
  <2>. QED
    BY <1>9, <2>1, <2>2, BodyAdds
<1>12. body_len' = L - (o + W)
  BY <1>1, <1>3, <1>7, <1>9, <1>10
<1>13. CASE o + W < L
  <2>1. ~ (n # MSG_SIZE \/ body_len' <= 0)
    BY <1>1, <1>7, <1>10, <1>12, <1>13
  <2>2. UNCHANGED <<pc, last, printed, next_byte>>
    BY <1>3, <2>1
  <2>3. next_byte = <<k, HeadLen + (o + W) + 1>>
    <3>1. ~ (a + 1 + W > Len(Frame)) /\ a + 1 + W = HeadLen + (o + W) + 1
      BY <1>1, <1>6, <1>7, <1>13
    <3>. QED
      BY <1>9, <3>1 DEF After
  <2>4. Waiting(o + W)'
    BY <1>2, <1>3, <1>10, <1>11, <1>12, <1>13, <2>2, <2>3 DEF Waiting, Body
  <2>5. Lockstep'
    BY <1>7, <1>13, <2>4 DEF Lockstep
  <2>6. PrintedWhole'
    BY <2>2 DEF PacedInv, PrintedWhole, Holds
  <2>. QED
    BY <2>5, <2>6
<1>14. CASE ~ (o + W < L)
  <2>1. body_len' <= 0 /\ o + W = Writes * W
    BY <1>1, <1>7, <1>12, <1>14
  <2>2. pc' = "head" /\ last' = recv_msg' /\ printed' = k /\ next_byte' = next_byte
    BY <1>2, <1>3, <2>1
  <2>3. next_byte = <<k + 1, 1>>
    <3>1. a + 1 + W > Len(Frame)
      BY <1>1, <1>6, <1>7, <2>1
    <3>. QED
      BY <1>9, <3>1 DEF After
  <2>4. Between'
    BY <1>10, <2>2, <2>3 DEF Between
  <2>5. PrintedWhole'
    BY <1>11, <1>14, <2>2 DEF PrintedWhole
  <2>. QED
    BY <2>4, <2>5 DEF Lockstep
<1>. QED
  BY <1>13, <1>14

LEMMA NextPaced ==
  ASSUME SizesAgree, PacedInv, [Next]_channelVars
  PROVE  PacedInv'
<1>1. ASSUME UNCHANGED channelVars PROVE PacedInv'
  <2>1. Lockstep <=> Lockstep'
    BY <1>1 DEF channelVars, Lockstep, Between, HeadSent, Waiting, BodySent, Body
  <2>. QED
    BY <1>1, <2>1, PrintedStays DEF channelVars, PacedInv
<1>2. ASSUME ServerCloses PROVE PacedInv'
  <2>1. Lockstep <=> Lockstep'
    BY <1>2 DEF ServerCloses, Lockstep, Between, HeadSent, Waiting, BodySent, Body
  <2>. QED
    BY <1>2, <2>1, PrintedStays DEF ServerCloses, PacedInv
<1>3. ASSUME ReadEnds PROVE PacedInv'
  <2>1. pc' = "done" /\ UNCHANGED <<lockstep, last, printed>>
    BY <1>3 DEF ReadEnds
  <2>. QED
    BY <2>1, PrintedStays DEF Lockstep
<1>. QED
  BY <1>1, <1>2, <1>3, SendsPaced, HeadPaced, BodyPaced DEF Next, Server, Client

-----------------------------------------------------------------------------
\* A message that holds the body is the reply.
LEMMA HoldsIsReply ==
  ASSUME PacedInv PROVE PacedMessageIsReply
<1> SUFFICES ASSUME Holds(last, printed, L) PROVE MessageIsReply
  BY DEF PacedInv, PrintedWhole, PacedMessageIsReply, MessageIsReply
<1>1. DOMAIN last = 1 .. Len(last)
  BY DEF Holds
<1>2. \A i \in 1 .. L : <<printed, HeadLen + i>> # Garbage
  BY SizeFacts DEF Garbage
<1>3. {last[j] : j \in DOMAIN last} \ {Garbage}
        = {<<printed, HeadLen + i>> : i \in 1 .. L}
  BY <1>1, <1>2 DEF Holds
<1>4. \A i, j \in DOMAIN last :
        i < j /\ Garbage \notin {last[i], last[j]} => last[i][2] < last[j][2]
  BY <1>1 DEF Holds
<1>. QED
  BY <1>3, <1>4 DEF MessageIsReply, L

(***************************************************************************)
(* When every write is read whole before the next one, the message printed *)
(* last is the reply sent last, although the server sends more than its    *)
(* head announced: onread reads to the end of the write that holds the     *)
(* last byte, and takes of it what comes before the NUL.                   *)
(***************************************************************************)
THEOREM PacedRepliesPrinted ==
  ASSUME SizesAgree
  PROVE  Spec => []PacedMessageIsReply
<1>1. Init => PacedInv
  BY InitPaced
<1>2. PacedInv /\ [Next]_channelVars => PacedInv'
  BY NextPaced
<1>3. PacedInv => PacedMessageIsReply
  BY HoldsIsReply
<1>. QED
  BY <1>1, <1>2, <1>3, PTL DEF Spec

-----------------------------------------------------------------------------
(***************************************************************************)
(* Types.  A write never goes beyond the end of a reply, because it begins *)
(* at a multiple of WRITE_SIZE behind the head; and what atoi returns is   *)
(* a length, which takes two facts about definitions TLA+ states with      *)
(* CHOOSE: that there is a first place, and a number for every text.       *)
(***************************************************************************)

\* A set of numbers that is not empty has a least one.
LEMMA LeastOne ==
  ASSUME NEW T, T \subseteq Nat, T # {}
  PROVE  \E n \in T : \A m \in T : n <= m
<1>1. PICK n \in T : \A m \in T : ~ (<<m, n>> \in OpToRel(<, Nat))
  BY WFMin, NatLessThanWellFounded
<1>2. ASSUME NEW m \in T PROVE n <= m
  <2>1. ~ (m < n)
    BY <1>1 DEF OpToRel
  <2>. QED
    BY <2>1
<1>. QED
  BY <1>2

LEMMA FirstOfIs ==
  ASSUME NEW text, Len(text) \in Nat, NEW chars
  PROVE  /\ FirstOf(text, chars) \in 1 .. Len(text) + 1
         /\ \A j \in 1 .. FirstOf(text, chars) - 1 : text[j] \notin chars
<1> DEFINE T == {i \in 1 .. Len(text) + 1 : i <= Len(text) => text[i] \in chars}
<1>1. T \subseteq Nat /\ Len(text) + 1 \in T
  OBVIOUS
<1>2. PICK p \in T : \A m \in T : p <= m
  <2> HIDE DEF T
  <2>. QED
    BY <1>1, LeastOne
<1>3. p \in 1 .. Len(text) + 1 /\ (p <= Len(text) => text[p] \in chars)
  OBVIOUS
<1>4. \A j \in 1 .. p - 1 : text[j] \notin chars
  <2> SUFFICES ASSUME NEW j \in 1 .. p - 1, text[j] \in chars
               PROVE  FALSE
    OBVIOUS
  <2>1. j \in T
    BY <1>3
  <2>2. p <= j
    BY <1>2, <2>1
  <2>. QED
    BY <1>3, <2>2
<1>5. FirstOf(text, chars) = p
  BY <1>3, <1>4, FirstIsFound
<1>. QED
  BY <1>3, <1>4, <1>5

\* The recursion of atoi over the first q characters of a text.
Adds(text, q, v) ==
  [i \in 0 .. q |-> IF i = 0 THEN 0 ELSE Smaller(10 * v[i - 1] + text[i], MaxLen)]

LEMMA ThereIsANumber ==
  ASSUME NEW text, NEW q \in Nat
  PROVE  \E v : v = Adds(text, q, v)
<1> DEFINE T == {m \in Nat : ~ \E v : v = Adds(text, m, v)}
<1>1. SUFFICES ASSUME T # {} PROVE FALSE
  OBVIOUS
<1>2. T \subseteq Nat
  OBVIOUS
<1>3. PICK n \in T : \A m \in T : n <= m
  <2> HIDE DEF T
  <2>. QED
    BY <1>1, <1>2, LeastOne
<1>4. CASE n = 0
  <2> DEFINE v == [i \in 0 .. 0 |-> 0]
  <2>1. v = Adds(text, 0, v)
    BY DEF Adds
  <2> HIDE DEF v
  <2>. QED
    BY <1>4, <2>1
<1>5. CASE n # 0
  <2>0. n \in Nat /\ n - 1 \in Nat
    BY <1>5
  <2>1. n - 1 \notin T
    BY <1>3, <2>0
  <2>2. PICK v : v = Adds(text, n - 1, v)
    BY <2>0, <2>1
  <2>3. \A i \in 0 .. n - 1 :
          v[i] = IF i = 0 THEN 0 ELSE Smaller(10 * v[i - 1] + text[i], MaxLen)
    BY <2>2 DEF Adds
  <2> DEFINE last_one == Smaller(10 * v[n - 1] + text[n], MaxLen)
             w == [i \in 0 .. n |-> IF i = n THEN last_one ELSE v[i]]
  <2>4. w[n] = last_one /\ \A i \in 0 .. n - 1 : w[i] = v[i]
    BY <2>0
  <2>5. \A i \in 0 .. n : w[i] = Adds(text, n, w)[i]
    <3> SUFFICES ASSUME NEW i \in 0 .. n
                 PROVE  w[i] = IF i = 0 THEN 0
                               ELSE Smaller(10 * w[i - 1] + text[i], MaxLen)
      BY DEF Adds
    <3> HIDE DEF w
    <3>1. CASE i = n
      <4>1. n - 1 \in 0 .. n - 1
        BY <2>0
      <4>. QED
        BY <1>5, <2>4, <3>1, <4>1
    <3>2. CASE i # n
      <4>1. i \in 0 .. n - 1 /\ (i # 0 => i - 1 \in 0 .. n - 1)
        BY <2>0, <3>2
      <4>. QED
        BY <2>3, <2>4, <4>1
    <3>. QED
      BY <3>1, <3>2
  <2>6. w = Adds(text, n, w)
    BY <2>5 DEF Adds
  <2> HIDE DEF w
  <2>. QED
    BY <2>6
<1>. QED
  BY <1>4, <1>5

LEMMA NumberIsLength ==
  ASSUME NEW text, NEW q \in Nat, \A i \in 1 .. q : text[i] \in Nat,
         NEW v, v = Adds(text, q, v)
  PROVE  v[q] \in 0 .. MaxLen
<1>1. MaxLen \in Nat
  BY SizeAssumption
<1> DEFINE T == {i \in 0 .. q : v[i] \notin 0 .. MaxLen}
<1>2. SUFFICES ASSUME T # {} PROVE FALSE
  OBVIOUS
<1>3. T \subseteq Nat
  OBVIOUS
<1>4. PICK n \in T : \A m \in T : n <= m
  <2> HIDE DEF T
  <2>. QED
    BY <1>2, <1>3, LeastOne
<1>5. n \in 0 .. q /\ v[n] \notin 0 .. MaxLen
  OBVIOUS
<1>6. v[n] = IF n = 0 THEN 0 ELSE Smaller(10 * v[n - 1] + text[n], MaxLen)
  BY <1>5 DEF Adds
<1>7. n # 0
  BY <1>1, <1>5, <1>6
<1>8. n - 1 \in 0 .. q /\ n \in 1 .. q
  BY <1>5, <1>7
<1>9. v[n - 1] \in 0 .. MaxLen
  <2>1. n - 1 \notin T
    BY <1>4, <1>5
  <2>. QED
    BY <1>8, <2>1
<1>10. PICK a \in Nat, b \in Nat : a = v[n - 1] /\ b = text[n]
  BY <1>1, <1>8, <1>9
<1>. QED
  BY <1>1, <1>5, <1>6, <1>7, <1>10 DEF Smaller

\* atoi returns a length, or less than 0.
LEMMA AtoiIs ==
  ASSUME NEW n \in Nat, \A i \in 1 .. n : CharOf(wire[i]) \in Chars
  PROVE  Atoi(n) \subseteq -1 .. MaxLen
<1>1. MaxLen \in Nat
  BY SizeAssumption
<1>2. PICK text : text = Text(n)
  OBVIOUS
<1>3. Len(text) = n /\ \A i \in 1 .. n : text[i] \in Nat
  BY <1>2, TextIs DEF Chars
<1>4. PICK stop : stop = FirstOf(text, {NUL, LETTER, UNKNOWN})
  OBVIOUS
<1>5. stop \in 1 .. n + 1
  BY <1>3, <1>4, FirstOfIs
<1>6. PICK q \in Nat : q = stop - 1
  BY <1>5
<1>7. \A i \in 1 .. q : text[i] \in Nat
  BY <1>3, <1>5, <1>6
<1> DEFINE value == CHOOSE v : v = Adds(text, q, v)
<1>8. Atoi(n) \subseteq (-1 .. MaxLen) \cup {value[q]}
  BY <1>2, <1>4, <1>6 DEF Atoi, Adds
<1>9. value = Adds(text, q, value)
  BY ThereIsANumber
<1>10. value[q] \in 0 .. MaxLen
  <2> HIDE DEF value
  <2>. QED
    BY <1>7, <1>9, NumberIsLength
<1> HIDE DEF value
<1>. QED
  BY <1>1, <1>8, <1>10

\* What a read appends to the message.
LEMMA AppendedIs ==
  ASSUME wire \in Seq(Wired), NEW n \in Nat, n <= Len(wire), NEW bytes \in Appended(n)
  PROVE  bytes \in Seq(Wired \cup {Garbage})
<1>1. PICK stop : stop = FirstOf(Text(n), {NUL})
  OBVIOUS
<1>2. stop \in 1 .. n + 1
  BY <1>1, TextIs, FirstOfIs
<1>3. PICK first : first = SubSeq(wire, 1, stop - 1)
  OBVIOUS
<1>4. first \in Seq(Wired \cup {Garbage})
  <2>1. stop - 1 \in 0 .. n /\ stop - 1 \in Nat
    BY <1>2
  <2>2. \A i \in 1 .. stop - 1 : wire[i] \in Wired \cup {Garbage}
    BY <2>1, ElementOfSeq
  <2>. QED
    BY <1>3, <2>1, <2>2, SubSeqProperties
<1>5. bytes = first \/ bytes = first \o <<Garbage>>
  BY <1>1, <1>3 DEF Appended
<1>6. <<Garbage>> \in Seq(Wired \cup {Garbage})
  OBVIOUS
<1>7. first \o <<Garbage>> \in Seq(Wired \cup {Garbage})
  BY <1>4, <1>6, ConcatProperties, Zenon
<1>. QED
  BY <1>4, <1>5, <1>7

\* Where a write may begin.
Begins == next_byte[2] = 1 \/ \E o \in Offsets : next_byte[2] = HeadLen + o + 1

TypeInv == ReplyChannelTypeOK /\ Begins

LEMMA InitTypes == Init => TypeInv
<1> SUFFICES ASSUME Init PROVE TypeInv
  OBVIOUS
<1>1. Len(Frame) \in Nat /\ Len(Frame) >= 1 /\ MaxReplies \in Nat
  BY SizeFacts, FrameFacts, WritesHold, SizeAssumption
<1>2. next_byte \in Wired
  BY <1>1 DEF Init, Wired
<1>. QED
  BY <1>2, SizeAssumption DEF Init, TypeInv, Begins, ReplyChannelTypeOK

LEMMA SendsTypes ==
  ASSUME TypeInv, ServerSends
  PROVE  TypeInv'
<1>1. /\ HeadLen \in Nat /\ HeadLen >= 1 /\ L \in Nat /\ L >= 1 /\ W \in Nat /\ W >= 1
      /\ Writes * W \in Nat /\ L <= Writes * W
      /\ Len(Frame) = HeadLen + Writes * W
      /\ MaxReplies \in Nat /\ MaxCut \in 0 .. MaxReplies /\ WRITE_SIZE = W
  BY SizeFacts, FrameFacts, WritesHold, SizeAssumption DEF W
<1>2. PICK f \in Nat : f = Len(Frame)
  BY <1>1
<1>3. PICK k, i : k = next_byte[1] /\ i = next_byte[2]
  OBVIOUS
<1>4. PICK n : n = WriteLen(i)
  OBVIOUS
<1>5. /\ k \in 1 .. MaxReplies
      /\ wire' = wire \o Sent(k, i, n)
      /\ next_byte' = After(k, i + n)
      /\ UNCHANGED <<lockstep, up, pc, body_len, recv_msg, last, printed>>
  <2>1. k \in 1 .. MaxReplies + 1
    BY <1>3 DEF TypeInv, ReplyChannelTypeOK, Wired
  <2>. QED
    BY <1>1, <1>3, <1>4, <2>1 DEF ServerSends, Sent, TypeInv, ReplyChannelTypeOK
<1> DEFINE InReply ==
             /\ i \in Nat /\ i >= 1 /\ n \in Nat /\ i + n - 1 <= f
             /\ \/ next_byte' = <<k + 1, 1>>
                \/ /\ i + n <= f /\ next_byte' = <<k, i + n>>
                   /\ \E o \in Offsets : i + n = HeadLen + o + 1
<1>6. InReply
  <2>1. CASE i = 1
    <3>1. n = HeadLen /\ i + n <= f /\ ~ (i + n > Len(Frame))
      BY <1>1, <1>2, <1>4, <2>1 DEF WriteLen
    <3>2. next_byte' = <<k, i + n>>
      BY <1>5, <3>1 DEF After
    <3>3. 0 \in Offsets /\ i + n = HeadLen + 0 + 1
      BY <1>1, <2>1, <3>1, OffsetFacts
    <3>. QED
      BY <1>1, <1>2, <2>1, <3>1, <3>2, <3>3
  <2>2. ASSUME NEW o \in Offsets, i = HeadLen + o + 1 PROVE InReply
    <3>1. /\ o \in Nat /\ o + W <= Writes * W
          /\ o + W < L => o + W \in Offsets
          /\ o + W >= L => o + W = Writes * W
      BY OffsetFacts
    <3>2. n = W /\ i \in Nat /\ i >= 1
      BY <1>1, <1>4, <2>2, <3>1 DEF WriteLen
    <3>3. CASE o + W < L
      <4>1. ~ (i + n > Len(Frame)) /\ i + n <= f /\ i + n = HeadLen + (o + W) + 1
        BY <1>1, <1>2, <2>2, <3>1, <3>2, <3>3
      <4>2. next_byte' = <<k, i + n>>
        BY <1>5, <4>1 DEF After
      <4>. QED
        BY <1>1, <1>2, <3>1, <3>2, <3>3, <4>1, <4>2
    <3>4. CASE ~ (o + W < L)
      <4>1. i + n > Len(Frame) /\ i + n - 1 <= f
        BY <1>1, <1>2, <2>2, <3>1, <3>2, <3>4
      <4>2. next_byte' = <<k + 1, 1>>
        BY <1>5, <4>1 DEF After
      <4>. QED
        BY <1>1, <3>2, <4>1, <4>2
    <3>. QED
      BY <3>3, <3>4
  <2>. QED
    BY <1>3, <2>1, <2>2 DEF TypeInv, Begins
<1>7. wire' \in Seq(Wired)
  <2>1. \A j \in 1 .. n : <<k, i + j - 1>> \in Wired
    BY <1>1, <1>2, <1>5, <1>6 DEF Wired
  <2>2. Sent(k, i, n) \in [1 .. n -> Wired]
    BY <2>1 DEF Sent
  <2>3. Sent(k, i, n) \in Seq(Wired)
    BY <1>6, <2>2, SeqDef
  <2>4. wire \in Seq(Wired)
    BY DEF TypeInv, ReplyChannelTypeOK
  <2>5. wire \o Sent(k, i, n) \in Seq(Wired)
    BY <2>3, <2>4, ConcatProperties, Zenon
  <2>. QED
    BY <1>5, <2>5
<1>8. next_byte' \in Wired
  <2>1. CASE next_byte' = <<k + 1, 1>>
    BY <1>1, <1>2, <1>5, <2>1 DEF Wired
  <2>2. CASE i + n <= f /\ next_byte' = <<k, i + n>>
    BY <1>1, <1>2, <1>5, <1>6, <2>2 DEF Wired
  <2>. QED
    BY <1>6, <2>1, <2>2
<1>9. Begins'
  BY <1>6 DEF Begins, HeadLen, Offsets
<1>. QED
  BY <1>5, <1>7, <1>8, <1>9 DEF TypeInv, ReplyChannelTypeOK

\* A read takes bytes off the stream.
LEMMA ReadTypes ==
  ASSUME wire \in Seq(Wired), NEW n \in 1 .. MSG_SIZE, Read(n)
  PROVE  /\ n \in Nat /\ n <= Len(wire) /\ wire' \in Seq(Wired)
         /\ \A i \in 1 .. n : CharOf(wire[i]) \in Chars
<1>0. MSG_SIZE \in Nat /\ n \in Nat
  BY SizeAssumption
<1>1. PICK m \in Nat : m = Len(wire)
  BY LenProperties
<1>2. n <= m /\ wire' = SubSeq(wire, n + 1, m)
  BY <1>0, <1>1 DEF Read, Smaller
<1>3. wire' \in Seq(Wired)
  <2>1. \A j \in n + 1 .. m : wire[j] \in Wired
    BY <1>0, <1>1, ElementOfSeq
  <2>. QED
    BY <1>0, <1>2, <2>1, SubSeqProperties
<1>4. \A i \in 1 .. n : CharOf(wire[i]) \in Chars
  <2> SUFFICES ASSUME NEW i \in 1 .. n PROVE CharOf(wire[i]) \in Chars
    OBVIOUS
  <2>1. wire[i] \in Wired
    BY <1>0, <1>1, <1>2, ElementOfSeq
  <2>2. PICK p : p = wire[i][2]
    OBVIOUS
  <2>3. p \in 1 .. Len(Frame)
    BY <2>1, <2>2 DEF Wired
  <2>4. Frame[p] \in Chars
    BY <2>3, FrameFacts, ElementOfSeq
  <2>. QED
    BY <2>2, <2>4 DEF CharOf
<1>. QED
  BY <1>0, <1>1, <1>2, <1>3, <1>4

LEMMA HeadTypes ==
  ASSUME TypeInv, NEW n \in 1 .. MSG_SIZE, ReadHead(n)
  PROVE  TypeInv'
<1>1. ReplyChannelTypeOK /\ wire \in Seq(Wired) /\ MSG_SIZE \in Nat /\ MaxLen \in Nat
  BY SizeAssumption DEF TypeInv, ReplyChannelTypeOK
<1>2. n \in Nat /\ wire' \in Seq(Wired) /\ \A i \in 1 .. n : CharOf(wire[i]) \in Chars
  BY <1>1, ReadTypes DEF ReadHead
<1>3. PICK len \in -1 .. MaxLen :
        IF len < 0 THEN pc' = "done" /\ UNCHANGED body_len
                   ELSE pc' = "body" /\ body_len' = len
  BY <1>2, AtoiIs DEF ReadHead
<1>4. /\ pc' \in {"head", "body", "done"} /\ body_len' \in -MSG_SIZE .. MaxLen
      /\ pc' = "body" => body_len' >= 0
  BY <1>1, <1>3 DEF ReplyChannelTypeOK
<1>5. recv_msg' \in Seq(Wired \cup {Garbage})
  BY DEF ReadHead
<1>6. UNCHANGED <<lockstep, next_byte, up, last, printed>>
  BY DEF ReadHead
<1>7. Begins'
  BY <1>6 DEF TypeInv, Begins
<1>. QED
  BY <1>1, <1>2, <1>4, <1>5, <1>6, <1>7 DEF TypeInv, ReplyChannelTypeOK

LEMMA BodyTypes ==
  ASSUME TypeInv, NEW n \in 1 .. MSG_SIZE, ReadBody(n)
  PROVE  TypeInv'
<1>1. /\ ReplyChannelTypeOK /\ wire \in Seq(Wired)
      /\ recv_msg \in Seq(Wired \cup {Garbage})
      /\ MSG_SIZE \in Nat /\ MaxLen \in Nat /\ printed \in Nat
  BY SizeAssumption DEF TypeInv, ReplyChannelTypeOK
<1>2. n \in Nat /\ n <= Len(wire) /\ wire' \in Seq(Wired)
  BY <1>1, ReadTypes DEF ReadBody
<1>3. body_len \in 0 .. MaxLen /\ body_len' = body_len - n
  BY <1>1 DEF ReadBody, ReplyChannelTypeOK
<1>4. recv_msg' \in Seq(Wired \cup {Garbage})
  <2>1. PICK bytes \in Appended(n) : recv_msg' = recv_msg \o bytes
    BY DEF ReadBody
  <2>2. bytes \in Seq(Wired \cup {Garbage})
    BY <1>1, <1>2, AppendedIs
  <2>3. recv_msg \o bytes \in Seq(Wired \cup {Garbage})
    BY <1>1, <2>2, ConcatProperties, Zenon
  <2>. QED
    BY <2>1, <2>3
<1>5. /\ IF n # MSG_SIZE \/ body_len' <= 0
           THEN pc' = "head" /\ last' = recv_msg' /\ printed' = printed + 1
           ELSE UNCHANGED <<pc, last, printed>>
      /\ UNCHANGED <<lockstep, next_byte, up>>
  BY DEF ReadBody
<1>6. /\ pc' \in {"head", "body", "done"} /\ body_len' \in -MSG_SIZE .. MaxLen
      /\ pc' = "body" => body_len' >= 0
      /\ printed' \in Nat /\ last' \in Seq(Wired \cup {Garbage})
  <2>1. body_len' \in -MSG_SIZE .. MaxLen /\ body_len' \in Int
    BY <1>1, <1>2, <1>3
  <2>2. CASE n # MSG_SIZE \/ body_len' <= 0
    BY <1>1, <1>4, <1>5, <2>1, <2>2
  <2>3. CASE ~ (n # MSG_SIZE \/ body_len' <= 0)
    BY <1>1, <1>5, <2>1, <2>3 DEF ReplyChannelTypeOK
  <2>. QED
    BY <2>2, <2>3
<1>7. Begins'
  BY <1>5 DEF TypeInv, Begins
<1>. QED
  BY <1>1, <1>2, <1>4, <1>5, <1>6, <1>7 DEF TypeInv, ReplyChannelTypeOK

LEMMA NextTypes ==
  ASSUME TypeInv, [Next]_channelVars
  PROVE  TypeInv'
<1>1. ASSUME UNCHANGED channelVars PROVE TypeInv'
  BY <1>1 DEF channelVars, TypeInv, Begins, ReplyChannelTypeOK
<1>2. ASSUME ServerCloses PROVE TypeInv'
  BY <1>2 DEF ServerCloses, TypeInv, Begins, ReplyChannelTypeOK
<1>3. ASSUME ReadEnds PROVE TypeInv'
  BY <1>3 DEF ReadEnds, TypeInv, Begins, ReplyChannelTypeOK
<1>. QED
  BY <1>1, <1>2, <1>3, SendsTypes, HeadTypes, BodyTypes DEF Next, Server, Client

(***************************************************************************)
(* Every variable of the channel keeps its type, however its stream is     *)
(* cut: what onread takes for a length is one, the count of a body that is *)
(* read is not below 0, and onwrite never sends beyond the end of a reply. *)
(***************************************************************************)
THEOREM ChannelTypesCorrect == Spec => []ReplyChannelTypeOK
<1>1. Init => TypeInv
  BY InitTypes
<1>2. TypeInv /\ [Next]_channelVars => TypeInv'
  BY NextTypes
<1>3. TypeInv => ReplyChannelTypeOK
  BY DEF TypeInv
<1>. QED
  BY <1>1, <1>2, <1>3, PTL DEF Spec

=============================================================================
