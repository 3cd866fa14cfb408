------------------------- MODULE WebSocketClientProofs -------------------------
(***************************************************************************)
(* Proofs about WebSocketClient, for frames and buffers of any size.  What *)
(* the client has still to handle of its connection is one stream, from    *)
(* the frame it is reading to what the server has yet to send; the order   *)
(* of that stream is what makes the messages whole.                        *)
(***************************************************************************)
EXTENDS WebSocketClient, SequenceTheorems, TLAPS

-----------------------------------------------------------------------------
(* Streams of units.                                                         *)

\* The unit v may come k places after u: lines up to the empty one, then frames,
\* numbered without a gap, and the units of each in their order.
Before(u, v, k) ==
  LET d == u.of - u.n IN
  /\ k <= d => v.l = u.l /\ v.f = u.f /\ v.of = u.of /\ v.n = u.n + k
  /\ k = d + 1 => v.n = 1
  /\ v.l \in Lines => u.l \in Lines /\ (u.l = "" => k <= d)
  /\ v.l \in Kinds =>
       /\ k = d + 1 => v.f = u.f + 1 /\ u.l \notin Texts
       /\ k > d + 1 => v.f > u.f

\* The server of connection c has told the line of u or sent the frame of u.
Comes(u, t, q, c) ==
  /\ u.x = c /\ u.n \in 1..u.of
  /\ u.l \in Lines => u.l \in t /\ u.f = 0 /\ u.of \in 2..3 /\ (u.l = "" => u.of = 2)
  /\ u.l \in Kinds => "" \in t /\ u.f \in 1..Len(q) /\ u.l = q[u.f]

\* With k units after u, the last of a stream, it is all there up to the last frame.
Closed(u, k, t, q) ==
  /\ u.of - u.n <= k
  /\ u.of - u.n = k => u.f = Len(q) /\ (u.l \in Texts => "" \notin t)

Ordered(s) == \A i, j \in 1..Len(s) : i < j => Before(s[i], s[j], j - i)
Known(s, t, q, c) == \A i \in 1..Len(s) : Comes(s[i], t, q, c)
Ended(s, t, q) == \A i \in 1..Len(s) : Closed(s[i], Len(s) - i, t, q)

-----------------------------------------------------------------------------
(* The inductive invariant.                                                  *)

\* What the client has not handled of its connection
Reading == IF pc = "frame" THEN frame ELSE <<>>
Stream == (Reading \o rx) \o rest

\* The client's view of the connection and where it is in loop() agree.
ControlInv ==
  /\ status = "none" <=> conn = "none"
  /\ pc = "data" => status # "none"
  /\ pc = "frame" => status = "connected"
  /\ pc # "frame" => frame = <<>>
  /\ pc = "crashed" => status = "none"
  /\ status = "none" => cCode = 0 /\ cAccept = 0 /\ ~cIsUpgrade /\ rx = <<>>
  /\ status # "none" => conns > 0
  /\ status = "header" => ~early

\* What the server of a connection does, in order
ServerInv == sent # <<>> => "" \in told

\* The stream is in order and all there.
StreamInv ==
  status # "none" /\ ~early =>
    Ordered(Stream) /\ Known(Stream, told, sent, conns) /\ Ended(Stream, told, sent)

\* What the line l says has been noted.
Recorded(l) ==
  /\ l = "101" => cCode = 101 \/ "200" \in told
  /\ l = "connection" => cIsUpgrade
  /\ l = "upgrade" => cIsWebsocket
  /\ l = "accept" => cAccept = conns \/ "wrong" \in told

\* What has been read of the header is what its lines say, all of it unless one was cut.
HeaderInv ==
  status = "header" =>
    /\ Stream # <<>> => Stream[1].l \in Lines
    /\ Stream = <<>> => "" \notin told
    /\ cCode = 101 => "101" \in told
    /\ cIsUpgrade => "connection" \in told
    /\ cAccept = conns => "accept" \in told
    /\ ~cut => /\ Stream # <<>> => Stream[1].n = 1
               /\ \A l \in told : (\E i \in 1..Len(Stream) : Stream[i].l = l) \/ Recorded(l)

\* The server has agreed to the upgrade with this connection's key.
Agreed == {"101", "connection", "accept"} \subseteq told

AgreedInv == status = "connected" => Agreed

\* The data frames handled are those received.
LastFrame == IF received = <<>> THEN 0 ELSE received[Len(received)].f

FramesInv ==
  status = "connected" /\ ~early =>
    /\ "" \in told
    /\ \E d \in 0..Len(sent) :
         /\ LastFrame <= d /\ \A f \in (LastFrame + 1)..d : sent[f] # "text"
         /\ Stream # <<>> => Stream[1].l \in Kinds /\ Stream[1].n = 1 /\ Stream[1].f = d + 1
         /\ Stream = <<>> => d = Len(sent)

\* What has been read of a frame is no more than the frame.
FrameInv == frame # <<>> => Len(frame) <= frame[1].of

ReceivedInv ==
  /\ \A i \in 1..Len(received) : received[i].f \in 1..Len(sent)
  /\ status = "header" => received = <<>>

IInv ==
  /\ TypeOK /\ MessagesWhole /\ CrashesOnlyRefused
  /\ ControlInv /\ ServerInv /\ StreamInv /\ HeaderInv /\ AgreedInv /\ FramesInv
  /\ FrameInv /\ ReceivedInv

-----------------------------------------------------------------------------
(* Three sequences on end, and what moves between them.                      *)

\* Where the units of three sequences on end are.
LEMMA CatParts ==
  ASSUME NEW a \in Seq(Units), NEW b \in Seq(Units), NEW c \in Seq(Units)
  PROVE  LET s == (a \o b) \o c IN
         /\ s \in Seq(Units) /\ Len(s) = Len(a) + Len(b) + Len(c)
         /\ {Len(a), Len(b), Len(c)} \subseteq Nat
         /\ \A i \in 1..Len(a) : s[i] = a[i]
         /\ \A i \in 1..Len(b) : s[Len(a) + i] = b[i]
         /\ \A i \in 1..Len(c) : s[Len(a) + Len(b) + i] = c[i]
<1>1. a \o b \in Seq(Units) /\ Len(a \o b) = Len(a) + Len(b)
  OBVIOUS
<1>2. /\ \A i \in 1..Len(a) : (a \o b)[i] = a[i]
      /\ \A i \in 1..Len(b) : (a \o b)[Len(a) + i] = b[i]
  OBVIOUS
<1> DEFINE ab == a \o b
<1> HIDE DEF ab
<1>3. /\ \A i \in 1..Len(ab) : (ab \o c)[i] = ab[i]
      /\ \A i \in 1..Len(c) : (ab \o c)[Len(ab) + i] = c[i]
      /\ ab \o c \in Seq(Units) /\ Len(ab \o c) = Len(ab) + Len(c)
  BY <1>1 DEF ab
<1> QED
  BY <1>1, <1>2, <1>3 DEF ab

\* The first units of the second go to the end of the first.
LEMMA CatRead ==
  ASSUME NEW a \in Seq(Units), NEW b \in Seq(Units), NEW c \in Seq(Units), NEW n \in 0..Len(b)
  PROVE  ((a \o SubSeq(b, 1, n)) \o SubSeq(b, n + 1, Len(b))) \o c = (a \o b) \o c
<1> DEFINE b1 == SubSeq(b, 1, n)
           b2 == SubSeq(b, n + 1, Len(b))
<1>1. b1 \in Seq(Units) /\ b2 \in Seq(Units)
  OBVIOUS
<1>2. b1 \o b2 = b
  <2>1. 1 \in 1..(Len(b) + 1) /\ n \in (1 - 1)..Len(b) /\ Len(b) \in n..Len(b)
    OBVIOUS
  <2>2. b1 \o b2 = SubSeq(b, 1, Len(b))
    BY <2>1, ConcatAdjacentSubSeq
  <2> QED BY <2>2, SubSeqFull
<1> HIDE DEF b1, b2
<1>a. \A x, y \in Seq(Units) : (a \o x) \o y = a \o (x \o y)
  BY SMTT(30), ConcatAssociative
<1>3. (a \o b1) \o b2 = a \o b
  BY <1>a, <1>1, <1>2
<1> QED
  BY <1>3 DEF b1, b2

\* A sequence is its first unit and the others.
LEMMA HeadAndTail ==
  ASSUME NEW c \in Seq(Units), c # <<>>
  PROVE  Head(c) \in Units /\ Tail(c) \in Seq(Units) /\ <<Head(c)>> \o Tail(c) = c
<1>1. Head(c) \in Units /\ Tail(c) \in Seq(Units) /\ Len(c) \in Nat \ {0} /\ Len(Tail(c)) = Len(c) - 1
      /\ \A i \in 1..Len(Tail(c)) : Tail(c)[i] = c[i + 1]
  OBVIOUS
<1> DEFINE h == <<Head(c)>>
<1>2. h \in Seq(Units) /\ Len(h) = 1 /\ h[1] = c[1]
  BY <1>1
<1> HIDE DEF h
<1> DEFINE d == Tail(c)
<1> HIDE DEF d
<1>a. d \in Seq(Units) /\ Len(d) = Len(c) - 1
  BY <1>1 DEF d
<1>b. h \o d \in Seq(Units) /\ Len(h \o d) = Len(h) + Len(d)
      /\ \A i \in 1..(Len(h) + Len(d)) : (h \o d)[i] = IF i <= Len(h) THEN h[i] ELSE d[i - Len(h)]
  BY <1>2, <1>a, ConcatProperties
<1>3. h \o Tail(c) \in Seq(Units) /\ Len(h \o Tail(c)) = Len(c)
      /\ \A i \in 1..Len(c) : (h \o Tail(c))[i] = IF i <= 1 THEN h[i] ELSE Tail(c)[i - 1]
  BY <1>1, <1>2, <1>a, <1>b DEF d
<1>4. \A i \in 1..Len(c) : (h \o Tail(c))[i] = c[i]
  BY <1>1, <1>2, <1>3
<1>5. h \o Tail(c) = c
  BY <1>3, <1>4, SeqEqual
<1> QED BY <1>1, <1>5 DEF h
\* The first unit of the third goes to the end of the second.
LEMMA CatArrive ==
  ASSUME NEW a \in Seq(Units), NEW b \in Seq(Units), NEW c \in Seq(Units), c # <<>>
  PROVE  (a \o Append(b, Head(c))) \o Tail(c) = (a \o b) \o c
<1>1. Head(c) \in Units /\ Tail(c) \in Seq(Units) /\ <<Head(c)>> \o Tail(c) = c
  BY HeadAndTail
<1>2. Append(b, Head(c)) = b \o <<Head(c)>>
  BY <1>1, AppendIsConcat
<1>3. <<Head(c)>> \in Seq(Units)
  BY <1>1
<1>4. a \o (b \o <<Head(c)>>) = (a \o b) \o <<Head(c)>> /\ a \o b \in Seq(Units)
  BY <1>3, ConcatAssociative
<1> DEFINE ab == a \o b
           h == <<Head(c)>>
           t == Tail(c)
<1> HIDE DEF ab, h, t
<1>a. ab \in Seq(Units) /\ h \in Seq(Units) /\ t \in Seq(Units)
  BY <1>1, <1>3, <1>4 DEF ab, h, t
<1>b. (ab \o h) \o t = ab \o (h \o t)
  BY SMTT(30), <1>a, ConcatAssociative
<1>5. ((a \o b) \o <<Head(c)>>) \o Tail(c) = (a \o b) \o (<<Head(c)>> \o Tail(c))
  BY <1>b DEF ab, h, t
<1> QED
  BY <1>1, <1>2, <1>4, <1>5

\* Without the first.
LEMMA CatDrop ==
  ASSUME NEW a \in Seq(Units), NEW b \in Seq(Units), NEW c \in Seq(Units)
  PROVE  (<<>> \o b) \o c = SubSeq((a \o b) \o c, Len(a) + 1, Len((a \o b) \o c))
<1> DEFINE s == (a \o b) \o c
           t == (<<>> \o b) \o c
           r == SubSeq(s, Len(a) + 1, Len(s))
<1>1. s \in Seq(Units) /\ Len(s) = Len(a) + Len(b) + Len(c) /\ {Len(a), Len(b), Len(c)} \subseteq Nat
      /\ (\A i \in 1..Len(b) : s[Len(a) + i] = b[i])
      /\ \A i \in 1..Len(c) : s[Len(a) + Len(b) + i] = c[i]
  BY CatParts
<1>2. t \in Seq(Units) /\ Len(t) = Len(b) + Len(c)
      /\ (\A i \in 1..Len(b) : t[i] = b[i]) /\ \A i \in 1..Len(c) : t[Len(b) + i] = c[i]
  <2>1. <<>> \in Seq(Units) /\ <<>> \o b = b
    OBVIOUS
  <2> QED BY <2>1
<1> HIDE DEF s, t
<1>3. r \in Seq(Units) /\ Len(r) = Len(s) - Len(a)
      /\ \A i \in 1..(Len(s) - Len(a)) : r[i] = s[Len(a) + i]
  BY SMTT(30), <1>1
<1> HIDE DEF r
<1>4. \A i \in 1..Len(r) : r[i] = t[i]
  <2> SUFFICES ASSUME NEW i \in 1..Len(r) PROVE r[i] = t[i]
    OBVIOUS
  <2>1. CASE i \in 1..Len(b)
    BY <1>1, <1>2, <1>3, <2>1
  <2>2. CASE i \notin 1..Len(b)
    <3>1. i - Len(b) \in 1..Len(c) /\ i = Len(b) + (i - Len(b))
          /\ Len(a) + i = Len(a) + Len(b) + (i - Len(b))
      BY <1>1, <1>3, <2>2
    <3>2. t[i] = c[i - Len(b)] /\ s[Len(a) + i] = c[i - Len(b)]
      BY <1>1, <1>2, <3>1
    <3> QED BY <1>3, <3>2
  <2> QED BY <2>1, <2>2
<1>5. Len(r) = Len(t)
  BY <1>1, <1>2, <1>3
<1>6. r = t
  BY <1>2, <1>3, <1>4, <1>5, SeqEqual
<1> QED
  BY <1>6 DEF r, s, t

-----------------------------------------------------------------------------
(* What keeps a stream in order.                                             *)

LEMMA UnitTypes ==
  /\ \A u \in Units : /\ u.l \in Lines \union Kinds /\ u.f \in Nat
                       /\ u.n \in Nat \ {0} /\ u.of \in Nat \ {0}
  /\ \A l \in Lines : l \notin Kinds /\ (l # "" => l \in Texts)
  /\ "" \notin Texts /\ Texts \subseteq Lines
<1>1. /\ \A l \in Lines : l \notin Kinds /\ (l # "" => l \in Texts)
      /\ "" \notin Texts /\ Texts \subseteq Lines
  BY DEF Lines, Texts, Kinds
<1>2. 0..MaxFrames \subseteq Nat
  BY WebSocketAssumption
<1> QED
  BY <1>1, <1>2 DEF Units

\* What is left of a stream when its first units are gone
LEMMA Suffix ==
  ASSUME NEW s \in Seq(Units), NEW k \in 0..Len(s)
  PROVE  LET r == SubSeq(s, k + 1, Len(s)) IN
         /\ r \in Seq(Units) /\ Len(r) = Len(s) - k /\ \A i \in 1..Len(r) : r[i] = s[i + k]
         /\ Ordered(s) => Ordered(r)
         /\ \A t, q, c : Known(s, t, q, c) => Known(r, t, q, c)
         /\ \A t, q : Ended(s, t, q) => Ended(r, t, q)
<1> DEFINE r == SubSeq(s, k + 1, Len(s))
<1>1. /\ r \in Seq(Units) /\ Len(r) = Len(s) - k
      /\ \A i \in 1..Len(r) : r[i] = s[i + k] /\ i + k \in 1..Len(s)
  OBVIOUS
<1> HIDE DEF r
<1>2. Ordered(s) => Ordered(r)
  <2> SUFFICES ASSUME Ordered(s), NEW i \in 1..Len(r), NEW j \in 1..Len(r), i < j
               PROVE  Before(r[i], r[j], j - i)
    BY DEF Ordered
  <2>1. i + k < j + k /\ (j + k) - (i + k) = j - i
    BY <1>1
  <2>2. Before(s[i + k], s[j + k], (j + k) - (i + k))
    BY <1>1, <2>1 DEF Ordered
  <2> QED BY <1>1, <2>1, <2>2
<1>3. \A t, q, c : Known(s, t, q, c) => Known(r, t, q, c)
  BY <1>1 DEF Known
<1>4. \A t, q : Ended(s, t, q) => Ended(r, t, q)
  <2>1. \A i \in 1..Len(r) : Len(r) - i = Len(s) - (i + k)
    BY <1>1
  <2> QED BY <1>1, <2>1 DEF Ended
<1> QED
  BY <1>1, <1>2, <1>3, <1>4 DEF r

\* Two streams on end
LEMMA Joined ==
  ASSUME NEW s \in Seq(Units), NEW v \in Seq(Units)
  PROVE  LET r == s \o v IN
         /\ r \in Seq(Units) /\ Len(r) = Len(s) + Len(v)
         /\ \A i \in 1..Len(s) : r[i] = s[i]
         /\ \A i \in 1..Len(v) : r[Len(s) + i] = v[i]
         /\ /\ Ordered(s) /\ Ordered(v)
            /\ \A i \in 1..Len(s), j \in 1..Len(v) : Before(s[i], v[j], Len(s) - i + j)
            => Ordered(r)
         /\ \A t, q, c : Known(s, t, q, c) /\ Known(v, t, q, c) => Known(r, t, q, c)
         /\ \A t, q : /\ \A i \in 1..Len(s) : Closed(s[i], Len(s) - i + Len(v), t, q)
                      /\ Ended(v, t, q)
                      => Ended(r, t, q)
<1> DEFINE r == s \o v
<1>1. /\ r \in Seq(Units) /\ Len(r) = Len(s) + Len(v) /\ Len(s) \in Nat /\ Len(v) \in Nat
      /\ \A i \in 1..Len(s) : r[i] = s[i]
      /\ \A i \in 1..Len(v) : r[Len(s) + i] = v[i]
  OBVIOUS
<1> HIDE DEF r
<1>2. \A i \in 1..Len(r) :
        i \in 1..Len(s) \/ (i - Len(s) \in 1..Len(v) /\ r[i] = v[i - Len(s)])
  <2> SUFFICES ASSUME NEW i \in 1..Len(r), i \notin 1..Len(s)
               PROVE  i - Len(s) \in 1..Len(v) /\ r[i] = v[i - Len(s)]
    OBVIOUS
  <2>1. i - Len(s) \in 1..Len(v) /\ Len(s) + (i - Len(s)) = i
    BY <1>1
  <2> QED BY <1>1, <2>1
<1>3. ASSUME Ordered(s), Ordered(v),
             \A i \in 1..Len(s), j \in 1..Len(v) : Before(s[i], v[j], Len(s) - i + j)
      PROVE  Ordered(r)
  <2> SUFFICES ASSUME NEW i \in 1..Len(r), NEW j \in 1..Len(r), i < j
               PROVE  Before(r[i], r[j], j - i)
    BY DEF Ordered
  <2>1. CASE j \in 1..Len(s)
    <3>1. i \in 1..Len(s)
      BY <1>1, <2>1
    <3> QED BY <1>1, <1>3, <2>1, <3>1 DEF Ordered
  <2>2. CASE j \notin 1..Len(s) /\ i \in 1..Len(s)
    <3>1. j - Len(s) \in 1..Len(v) /\ r[j] = v[j - Len(s)] /\ r[i] = s[i]
      BY <1>1, <1>2, <2>2
    <3>2. Len(s) - i + (j - Len(s)) = j - i
      BY <1>1
    <3> QED BY <1>3, <2>2, <3>1, <3>2
  <2>3. CASE j \notin 1..Len(s) /\ i \notin 1..Len(s)
    <3>1. /\ i - Len(s) \in 1..Len(v) /\ r[i] = v[i - Len(s)]
          /\ j - Len(s) \in 1..Len(v) /\ r[j] = v[j - Len(s)]
      BY <1>2, <2>3
    <3>2. (j - Len(s)) - (i - Len(s)) = j - i /\ i - Len(s) < j - Len(s)
      BY <1>1
    <3>3. Before(v[i - Len(s)], v[j - Len(s)], (j - Len(s)) - (i - Len(s)))
      BY <1>3, <3>1, <3>2 DEF Ordered
    <3> QED BY <3>1, <3>2, <3>3
  <2> QED BY <2>1, <2>2, <2>3
<1>4. ASSUME NEW t, NEW q, NEW c, Known(s, t, q, c), Known(v, t, q, c)
      PROVE  Known(r, t, q, c)
  BY <1>1, <1>2, <1>4 DEF Known
<1>5. ASSUME NEW t, NEW q, \A i \in 1..Len(s) : Closed(s[i], Len(s) - i + Len(v), t, q),
             Ended(v, t, q)
      PROVE  Ended(r, t, q)
  <2> SUFFICES ASSUME NEW i \in 1..Len(r) PROVE Closed(r[i], Len(r) - i, t, q)
    BY DEF Ended
  <2>1. CASE i \in 1..Len(s)
    <3>1. Len(s) - i + Len(v) = Len(r) - i
      BY <1>1
    <3> QED BY <1>1, <1>5, <2>1, <3>1
  <2>2. CASE i \notin 1..Len(s)
    <3>1. i - Len(s) \in 1..Len(v) /\ r[i] = v[i - Len(s)]
      BY <1>2, <2>2
    <3>2. Len(v) - (i - Len(s)) = Len(r) - i
      BY <1>1
    <3>3. Closed(v[i - Len(s)], Len(v) - (i - Len(s)), t, q)
      BY <1>5, <3>1 DEF Ended
    <3> QED BY <3>1, <3>2, <3>3
  <2> QED BY <2>1, <2>2
<1> QED
  BY <1>1, <1>3, <1>4, <1>5 DEF r

-----------------------------------------------------------------------------
(* What a step does to the stream.                                           *)

LEMMA StreamTyped ==
  ASSUME TypeOK
  PROVE  /\ Reading \in Seq(Units) /\ rx \in Seq(Units) /\ rest \in Seq(Units)
         /\ Stream \in Seq(Units) /\ Len(Stream) = Len(Reading) + Len(rx) + Len(rest)
         /\ {Len(Reading), Len(rx), Len(rest)} \subseteq Nat
         /\ \A i \in 1..Len(Reading) : Stream[i] = Reading[i]
         /\ \A i \in 1..Len(rx) : Stream[Len(Reading) + i] = rx[i]
         /\ \A i \in 1..Len(rest) : Stream[Len(Reading) + Len(rx) + i] = rest[i]
<1>1. Reading \in Seq(Units) /\ rx \in Seq(Units) /\ rest \in Seq(Units)
  <2>1. <<>> \in Seq(Units)
    OBVIOUS
  <2> QED BY <2>1 DEF TypeOK, Reading
<1> QED
  BY <1>1, CatParts DEF Stream

\* Bytes that arrive or are read, and what moves none, leave it as it is.
LEMMA StreamStays ==
  ASSUME TypeOK, ControlInv,
         LoopData \/ NoData \/ FrameBegins \/ ReadSome \/ Arrives
         \/ UNCHANGED <<pc, frame, rx, rest>>
  PROVE  Stream' = Stream
<1>0. Reading \in Seq(Units) /\ rx \in Seq(Units) /\ rest \in Seq(Units)
  BY StreamTyped
<1>1. CASE LoopData \/ NoData \/ FrameBegins \/ UNCHANGED <<pc, frame, rx, rest>>
  BY <1>1 DEF LoopData, NoData, FrameBegins, Stream, Reading, serverVars, ControlInv
<1>2. CASE ReadSome
  <2> DEFINE n == IF Missing < Len(rx) THEN Missing ELSE Len(rx)
  <2>1. /\ Reading = frame /\ Reading' = frame \o SubSeq(rx, 1, n)
        /\ rx' = SubSeq(rx, n + 1, Len(rx)) /\ rest' = rest
    BY <1>2 DEF ReadSome, Reading, serverVars
  <2>2. n \in 0..Len(rx)
    <3>1. Missing \in Int
      <4>1. frame \in Seq(Units) /\ Len(frame) \in Nat /\ (frame # <<>> => frame[1] \in Units)
        BY DEF TypeOK
      <4>2. frame # <<>> => frame[1].of \in Nat
        BY <4>1, UnitTypes
      <4> QED BY <4>1, <4>2 DEF Missing
    <3> QED BY <1>0, <1>2, <3>1 DEF ReadSome
  <2> HIDE DEF n
  <2>a. \A m \in 0..Len(rx) :
          ((Reading \o SubSeq(rx, 1, m)) \o SubSeq(rx, m + 1, Len(rx))) \o rest
            = (Reading \o rx) \o rest
    BY <1>0, CatRead
  <2>3. ((Reading \o SubSeq(rx, 1, n)) \o SubSeq(rx, n + 1, Len(rx))) \o rest = (Reading \o rx) \o rest
    BY <2>2, <2>a
  <2> QED BY <2>1, <2>3 DEF Stream
<1>3. CASE Arrives
  <2>1. /\ rest # <<>> /\ rx' = Append(rx, Head(rest)) /\ rest' = Tail(rest)
        /\ Reading' = Reading
    BY <1>3 DEF Arrives, ServerUnchanged, Reading
  <2>2. (Reading \o Append(rx, Head(rest))) \o Tail(rest) = (Reading \o rx) \o rest
    BY <1>0, <2>1, CatArrive
  <2> QED BY <2>1, <2>2 DEF Stream
<1> QED BY <1>1, <1>2, <1>3

\* So does the first unit of a frame, where there is one.
LEMMA StreamFirst ==
  ASSUME TypeOK, ControlInv, FramesInv, ReadFirst, ~early
  PROVE  Stream' = Stream
<1>1. pc = "frame" /\ frame = <<>> /\ rx # <<>> /\ rx' = Tail(rx) /\ UNCHANGED <<pc, rest>>
  BY DEF ReadFirst, serverVars
<1>2. Reading = <<>> /\ Reading' = frame'
  BY <1>1 DEF Reading
<1>3. rx \in Seq(Units) /\ rest \in Seq(Units) /\ <<>> \in Seq(Units)
  BY StreamTyped
<1>4. Head(rx) = Stream[1] /\ Stream # <<>>
  <2>1. Len(rx) \in Nat \ {0} /\ Head(rx) = rx[1]
    BY <1>1, <1>3
  <2>2. Len(Reading) = 0 /\ Stream[Len(Reading) + 1] = rx[1] /\ Len(Stream) > 0
    <3>1. Len(Reading) = 0 /\ 1 \in 1..Len(rx) /\ Len(rest) \in Nat
      BY <1>2, <1>3, <2>1
    <3>2. Stream[Len(Reading) + 1] = rx[1] /\ Len(Stream) = Len(Reading) + Len(rx) + Len(rest)
      BY <3>1, StreamTyped
    <3> QED BY <2>1, <3>1, <3>2
  <2>3. Stream = <<>> => Len(Stream) = 0
    OBVIOUS
  <2> QED BY <2>1, <2>2, <2>3
<1>5. Head(rx).l \in Kinds /\ Head(rx).n = 1
  BY <1>1, <1>4 DEF ControlInv, FramesInv
<1>6. frame' = <<Head(rx)>>
  BY <1>5 DEF ReadFirst, AsFirst
<1>7. <<Head(rx)>> \o Tail(rx) = rx /\ <<>> \o rx = rx
  BY <1>1, <1>3, HeadAndTail
<1> QED
  BY <1>1, <1>2, <1>6, <1>7 DEF Stream

\* The units of a header line are taken from its front.
LEMMA StreamTail ==
  ASSUME TypeOK, pc = "data", NEW n \in 1..Len(rx), rx' = SubSeq(rx, n + 1, Len(rx)),
         pc' = "idle", UNCHANGED rest
  PROVE  /\ n \in 1..Len(Stream) /\ Head(rx) = rx[1]
         /\ \A i \in 1..n : Stream[i] = rx[i]
         /\ Stream' = SubSeq(Stream, n + 1, Len(Stream))
<1>1. Reading = <<>> /\ Reading' = <<>>
  BY DEF Reading
<1>2. rx \in Seq(Units) /\ rest \in Seq(Units) /\ <<>> \in Seq(Units)
      /\ Len(rx) \in Nat /\ Len(rest) \in Nat
  BY StreamTyped
<1> DEFINE a == SubSeq(rx, 1, n)
           b == SubSeq(rx, n + 1, Len(rx))
<1>3. a \in Seq(Units) /\ b \in Seq(Units) /\ Len(a) = n
  BY <1>2
<1>4. a \o b = rx
  <2>1. 1 \in 1..(Len(rx) + 1) /\ n \in (1 - 1)..Len(rx) /\ Len(rx) \in n..Len(rx)
    BY <1>2
  <2>2. a \o b = SubSeq(rx, 1, Len(rx))
    BY <1>2, <2>1, ConcatAdjacentSubSeq
  <2> QED BY <1>2, <2>2, SubSeqFull
<1> HIDE DEF a, b
<1>5. <<>> \o rx = rx
  BY <1>2
<1>6. Stream = (a \o b) \o rest /\ Stream' = (<<>> \o b) \o rest
  BY <1>1, <1>4, <1>5 DEF Stream, b
<1>7. Stream' = SubSeq(Stream, Len(a) + 1, Len(Stream))
  BY <1>2, <1>3, <1>6, CatDrop
<1>8. Len(Stream) = Len(rx) + Len(rest) /\ \A i \in 1..Len(rx) : Stream[i] = rx[i]
  <2>1. Len(Reading) = 0
    BY <1>1
  <2>2. /\ Len(Stream) = Len(Reading) + Len(rx) + Len(rest)
        /\ \A i \in 1..Len(rx) : Stream[Len(Reading) + i] = rx[i]
    BY StreamTyped
  <2> QED BY <1>2, <2>1, <2>2
<1>9. n \in 1..Len(Stream) /\ \A i \in 1..n : i \in 1..Len(rx)
  BY <1>2, <1>8
<1>10. Head(rx) = rx[1]
  BY <1>2
<1> QED
  BY <1>3, <1>7, <1>8, <1>9, <1>10

\* A frame that is read is taken from it.
LEMMA StreamDrop ==
  ASSUME TypeOK, pc = "frame", pc' = "idle", UNCHANGED <<rx, rest>>
  PROVE  /\ Len(frame) \in 0..Len(Stream) /\ \A i \in 1..Len(frame) : Stream[i] = frame[i]
         /\ Stream' = SubSeq(Stream, Len(frame) + 1, Len(Stream))
<1>1. Reading = frame /\ Reading' = <<>>
  BY DEF Reading
<1>2. Reading \in Seq(Units) /\ rx \in Seq(Units) /\ rest \in Seq(Units)
  BY StreamTyped
<1>3. Stream' = (<<>> \o rx) \o rest
  BY <1>1 DEF Stream
<1>4. Stream' = SubSeq(Stream, Len(Reading) + 1, Len(Stream))
  BY <1>2, <1>3, CatDrop DEF Stream
<1> QED
  BY <1>1, <1>2, <1>4, StreamTyped

\* A line comes to its end, or a frame.
LEMMA StreamFrame ==
  ASSUME TypeOK, rest = <<>>, UNCHANGED <<pc, frame, rx>>
  PROVE  Stream' = Stream \o rest'
<1>1. Reading \o rx \in Seq(Units) /\ Reading' = Reading
  BY StreamTyped DEF Reading
<1>2. (Reading \o rx) \o <<>> = Reading \o rx
  BY <1>1
<1> QED
  BY <1>1, <1>2 DEF Stream

-----------------------------------------------------------------------------
(* Types and control.                                                        *)

FlagTypes ==
  /\ tcp \in BOOLEAN /\ cIsUpgrade \in BOOLEAN /\ cIsWebsocket \in BOOLEAN
  /\ cut \in BOOLEAN /\ early \in BOOLEAN

ValueTypes ==
  /\ status \in {"none", "header", "connected"} /\ (status # "none" => tcp)
  /\ cCode \in {0, 10, 101, 200} /\ cAccept \in -1..MaxConnections
  /\ pc \in {"idle", "data", "frame", "crashed"} /\ conn \in {"none", "open", "lost"}
  /\ conns \in 0..MaxConnections

QueueTypes ==
  /\ frame \in Seq(Units) /\ rx \in Seq(Units) /\ rest \in Seq(Units) /\ received \in Seq(Units)
  /\ Len(rx) <= MaxRx /\ told \subseteq Lines /\ sent \in Seq(Kinds)

LEMMA TypeParts == TypeOK <=> FlagTypes /\ ValueTypes /\ QueueTypes
BY DEF TypeOK, FlagTypes, ValueTypes, QueueTypes

LEMMA Bounds ==
  /\ MaxUnits \in Nat /\ MaxUnits > 0 /\ MaxFrames \in Nat /\ MaxFrames > 0
  /\ MaxConnections \in Nat /\ MaxConnections > 0 /\ MaxRx \in Nat /\ MaxRx > 0
BY WebSocketAssumption

\* Every step is one of these.
Actions ==
  \/ LoopData \/ LoopConnect \/ NoData \/ HeaderLine \/ HeaderDone \/ HeaderRefused
  \/ FrameBegins \/ ReadFirst \/ ReadSome \/ ReadFails \/ Message \/ PingFrame \/ OtherFrame
  \/ Send \/ Disconnect \/ SendsLine \/ SendsFrame \/ Arrives \/ Lost \/ UNCHANGED vars

LEMMA StepIsAction == [Next]_vars <=> Actions
BY DEF Next, Loop, Server, Actions

\* Every step keeps the types of the flags.
LEMMA FlagTypesStep == TypeOK /\ Actions => FlagTypes'
<1> SUFFICES ASSUME TypeOK, Actions PROVE FlagTypes'
  OBVIOUS
<1> USE DEF clientVars, serverVars, cutVars
<1>0. FlagTypes
  BY TypeParts
<1>a. cut' \in BOOLEAN /\ early' \in BOOLEAN
  <2>1. CASE UNCHANGED <<cut, early>>
    BY <1>0, <2>1 DEF FlagTypes
  <2>2. CASE HeaderLine
    <3>1. PICK n \in 1..Len(rx) : ReadLine(n)
      BY <2>2 DEF HeaderLine
    <3>2. cut' \in BOOLEAN
      BY Zenon, <3>1 DEF ReadLine
    <3> QED BY <1>0, <2>2, <3>2 DEF HeaderLine, FlagTypes
  <2>3. CASE HeaderDone /\ ~UNCHANGED <<cut, early>>
    <3>1. PICK n \in 1..Len(rx) : ReadLine(n) /\ early' = (n = 1)
      BY <2>3 DEF HeaderDone
    <3>2. cut' \in BOOLEAN
      BY Zenon, <3>1 DEF ReadLine
    <3>3. early' \in BOOLEAN
      BY Zenon, <3>1
    <3> QED BY <3>2, <3>3
  <2>4. CASE LoopConnect
    BY <2>1, <2>4 DEF LoopConnect
  <2>5. UNCHANGED <<cut, early>> \/ HeaderLine \/ HeaderDone \/ LoopConnect
    BY DEF Actions, LoopData, NoData, HeaderRefused, FrameBegins, ReadFirst, ReadSome, ReadFails,
      Message, PingFrame, OtherFrame, Complete, Send, Disconnect, SendsLine, SendsFrame, Arrives,
      Lost, vars, ServerUnchanged
  <2> QED BY <2>1, <2>2, <2>3, <2>4, <2>5
<1>b. tcp' \in BOOLEAN /\ cIsUpgrade' \in BOOLEAN /\ cIsWebsocket' \in BOOLEAN
  <2> USE DEF FlagTypes
  <2>1. CASE UNCHANGED <<tcp, cIsUpgrade, cIsWebsocket>>
    BY <1>0, <2>1
  <2>2. CASE ClientDisconnect
    BY Zenon, <2>2 DEF ClientDisconnect, Reset
  <2>3. CASE LoopConnect
    BY Zenon, <1>0, <2>3 DEF LoopConnect
  <2>4. CASE HeaderLine
    <3>1. PICK l : /\ cIsUpgrade' = (cIsUpgrade \/ l = "connection")
                   /\ cIsWebsocket' = (cIsWebsocket \/ l = "upgrade")
      BY <2>4 DEF HeaderLine
    <3>2. cIsUpgrade' \in BOOLEAN /\ cIsWebsocket' \in BOOLEAN
      BY Zenon, <1>0, <3>1
    <3> QED BY <1>0, <2>4, <3>2 DEF HeaderLine
  <2>5. \/ UNCHANGED <<tcp, cIsUpgrade, cIsWebsocket>> \/ ClientDisconnect
        \/ LoopConnect \/ HeaderLine
    BY DEF Actions, LoopData, NoData, HeaderDone, HeaderRefused, FrameBegins, ReadFirst, ReadSome,
      ReadFails, Message, PingFrame, OtherFrame, Send, Disconnect, SendsLine, SendsFrame, Arrives,
      Lost, vars, Callback, Cleanup, Keep, ServerUnchanged
  <2> QED BY <2>1, <2>2, <2>3, <2>4, <2>5
<1> QED BY <1>a, <1>b DEF FlagTypes

\* Every step keeps the values in their ranges.
LEMMA ValueTypesStep == TypeOK /\ Actions => ValueTypes'
<1> SUFFICES ASSUME TypeOK, Actions PROVE ValueTypes'
  OBVIOUS
<1> USE Bounds DEF ValueTypes, clientVars, serverVars
<1>0. ValueTypes /\ QueueTypes
  BY TypeParts
<1>a. pc' \in {"idle", "data", "frame", "crashed"} /\ conns' \in 0..MaxConnections
  <2>1. CASE LoopConnect
    BY <1>0, <2>1 DEF LoopConnect
  <2>2. CASE ~LoopConnect
    <3>1. conns' = conns
      BY <2>2 DEF Actions, LoopData, NoData, HeaderLine, HeaderDone, HeaderRefused,
        FrameBegins, ReadFirst, ReadSome, ReadFails, Message, PingFrame, OtherFrame, Complete, Send,
        Disconnect, SendsLine, SendsFrame, Arrives, Lost, ServerUnchanged, vars
    <3>2. pc' \in {pc, "idle", "data", "frame", "crashed"}
      BY <2>2 DEF Actions, LoopData, NoData, HeaderLine, HeaderDone, HeaderRefused,
        FrameBegins, ReadFirst, ReadSome, ReadFails, Message, PingFrame, OtherFrame, Complete, Send,
        Disconnect, SendsLine, SendsFrame, Arrives, Lost, ServerUnchanged, vars
    <3> QED BY <1>0, <3>1, <3>2
  <2> QED BY <2>1, <2>2
<1>b. conn' \in {"none", "open", "lost"}
  BY <1>0 DEF Actions, LoopData, LoopConnect, NoData, HeaderLine, HeaderDone, HeaderRefused,
    FrameBegins, ReadFirst, ReadSome, ReadFails, Message, PingFrame, OtherFrame, Complete, Send, Disconnect,
    SendsLine, SendsFrame, Arrives, Lost, ServerUnchanged, vars, Callback, Cleanup, Keep,
    ClientDisconnect
<1>1. CASE UNCHANGED clientVars
  BY <1>0, <1>1, <1>a, <1>b
<1>2. CASE ClientDisconnect
  <2>1. status' = "none" /\ cCode' = 0 /\ cAccept' = 0
    BY <1>2 DEF ClientDisconnect, Reset
  <2> QED BY <1>0, <1>a, <1>b, <2>1
<1>3. CASE LoopConnect
  BY <1>0, <1>a, <1>b, <1>3 DEF LoopConnect
<1>4. CASE HeaderLine
  <2>1. Head(rx).x \in 1..MaxConnections
    <3>1. rx \in Seq(Units) /\ rx # <<>>
      BY <1>0, <1>4 DEF HeaderLine, QueueTypes
    <3>2. Head(rx) \in Units
      BY <3>1
    <3> QED BY <3>2 DEF Units
  <2>a. PICK l : /\ cCode' = CASE l = "101" -> 101 [] l = "200" -> 200 [] l = "code" -> 10
                               [] OTHER -> cCode
                 /\ cAccept' = CASE l = "accept" -> Head(rx).x [] l = "wrong" -> -1
                                 [] OTHER -> cAccept
    BY <1>4 DEF HeaderLine
  <2>2. cAccept' \in -1..MaxConnections
    <3>1. cAccept' \in {Head(rx).x, -1, cAccept}
      BY <2>a
    <3>2. -1 \in -1..MaxConnections /\ Head(rx).x \in -1..MaxConnections
      BY <2>1
    <3> QED BY <1>0, <3>1, <3>2
  <2>3. cCode' \in {0, 10, 101, 200}
    BY <1>0, <2>a
  <2>4. tcp' = tcp /\ status' = status
    BY <1>4 DEF HeaderLine
  <2> QED BY <1>0, <1>a, <1>b, <2>2, <2>3, <2>4
<1>5. CASE HeaderDone
  <2>1. CASE ClientDisconnect
    BY <1>2, <2>1
  <2>2. CASE status' = "connected" /\ UNCHANGED <<tcp, cCode, cAccept>>
    BY <1>0, <1>a, <1>b, <1>5, <2>2 DEF HeaderDone, HeaderEnd
  <2> QED BY <1>5, <2>1, <2>2 DEF HeaderDone
<1>6. \/ UNCHANGED clientVars \/ ClientDisconnect \/ LoopConnect \/ HeaderLine \/ HeaderDone
  BY DEF Actions, LoopData, NoData, HeaderRefused, FrameBegins, ReadFirst, ReadSome, ReadFails,
    Message, PingFrame, OtherFrame, Send, Disconnect, SendsLine, SendsFrame, Arrives, Lost, vars,
    Callback, Cleanup, Keep, ServerUnchanged
<1> QED BY <1>1, <1>2, <1>3, <1>4, <1>5, <1>6

\* The units of a line and of a frame
LEMMA UnitsTyped ==
  ASSUME TypeOK, conns > 0, NEW k \in Lines \union Kinds, NEW f \in 0..MaxFrames,
         NEW of \in Nat \ {0}
  PROVE  /\ UnitsOf(k, f, of) \in Seq(Units) /\ Len(UnitsOf(k, f, of)) = of /\ of \in Nat
         /\ \A i \in 1..of : LET u == UnitsOf(k, f, of)[i] IN
              u.l = k /\ u.f = f /\ u.n = i /\ u.of = of /\ u.x = conns
<1>1. conns \in 1..MaxConnections
  BY WebSocketAssumption DEF TypeOK
<1>2. \A i \in 1..of : [l |-> k, f |-> f, n |-> i, of |-> of, x |-> conns] \in Units
  BY <1>1 DEF Units
<1> QED
  BY <1>1, <1>2 DEF UnitsOf

\* What is read at the place of a frame's first unit is a unit of some frame.
LEMMA FirstTyped ==
  ASSUME NEW u \in Units PROVE AsFirst(u) \subseteq Units
<1>1. 1..MaxUnits \subseteq Nat \ {0} /\ 0 \in 0..MaxFrames /\ 1 \in Nat \ {0}
  BY WebSocketAssumption
<1>2. \A k \in Kinds, of \in 1..MaxUnits : Misread(u, k, of) \in Units
  BY <1>1 DEF Units, Misread
<1> QED BY <1>2 DEF AsFirst

\* Every step keeps the types of what is read, received and sent.
LEMMA QueueTypesStep == TypeOK /\ ControlInv /\ Actions => QueueTypes'
<1> SUFFICES ASSUME TypeOK, ControlInv, Actions PROVE QueueTypes'
  OBVIOUS
<1> USE Bounds DEF clientVars, serverVars
<1>0. QueueTypes /\ ValueTypes
  BY TypeParts
<1>a. <<>> \in Seq(Units) /\ <<>> \in Seq(Kinds) /\ 0 <= MaxRx
  OBVIOUS
<1>b. conn = "open" => conns > 0
  BY DEF ControlInv
<1>1. CASE rx' \in {rx, <<>>} /\ rest' \in {rest, <<>>} /\ frame' \in {frame, <<>>}
           /\ received' \in {received, <<>>} /\ told' \in {told, {}} /\ sent' \in {sent, <<>>}
  <2>1. Len(<<>>) = 0
    OBVIOUS
  <2> QED BY <1>0, <1>1, <1>a, <2>1 DEF QueueTypes
<1>2. CASE HeaderLine \/ HeaderDone
  <2>1. CASE rx' = <<>>
    BY <1>0, <1>1, <1>2, <2>1 DEF HeaderLine, HeaderDone
  <2>2. ASSUME NEW n \in 1..Len(rx), rx' = SubSeq(rx, n + 1, Len(rx)) PROVE QueueTypes'
    <3>1. rx' \in Seq(Units) /\ Len(rx') <= Len(rx) /\ Len(rx) \in Nat
      BY <1>0, <2>2 DEF QueueTypes
    <3>2. UNCHANGED <<frame, rest, received, told, sent>>
      BY <1>2 DEF HeaderLine, HeaderDone
    <3>3. Len(rx') <= MaxRx
      BY <1>0, <3>1, Bounds DEF QueueTypes
    <3> QED BY <1>0, <3>1, <3>2, <3>3 DEF QueueTypes
  <2>3. rx' = <<>> \/ \E n \in 1..Len(rx) : rx' = SubSeq(rx, n + 1, Len(rx))
    BY <1>2 DEF HeaderLine, HeaderDone, ReadLine, ClientDisconnect
  <2> QED BY <2>1, <2>2, <2>3
<1>9. CASE ReadFirst
  <2>1. PICK u \in AsFirst(Head(rx)) : frame' = <<u>>
    BY <1>9 DEF ReadFirst
  <2>2. rx # <<>> /\ rx' = Tail(rx) /\ UNCHANGED <<rest, received, told, sent>>
    BY <1>9 DEF ReadFirst
  <2>3. Head(rx) \in Units /\ rx' \in Seq(Units) /\ Len(rx') = Len(rx) - 1 /\ Len(rx) \in Nat
    BY <1>0, <2>2 DEF QueueTypes
  <2>4. frame' \in Seq(Units)
    BY <2>1, <2>3, FirstTyped
  <2>5. Len(rx') <= MaxRx
    BY <1>0, <2>3 DEF QueueTypes
  <2> QED BY <1>0, <2>2, <2>3, <2>4, <2>5 DEF QueueTypes
<1>3. CASE ReadSome
  <2> DEFINE n == IF Missing < Len(rx) THEN Missing ELSE Len(rx)
  <2>1. frame' = frame \o SubSeq(rx, 1, n) /\ rx' = SubSeq(rx, n + 1, Len(rx))
    BY <1>3 DEF ReadSome
  <2>2. n \in 0..Len(rx)
    <3>1. Missing \in Int
      <4>1. frame \in Seq(Units) /\ Len(frame) \in Nat /\ (frame # <<>> => frame[1] \in Units)
        BY <1>0 DEF QueueTypes
      <4>2. frame # <<>> => frame[1].of \in Nat
        BY <4>1, UnitTypes
      <4> QED BY <4>1, <4>2 DEF Missing
    <3> QED BY <1>0, <1>3, <3>1 DEF ReadSome, QueueTypes
  <2> HIDE DEF n
  <2>3. SubSeq(rx, 1, n) \in Seq(Units) /\ rx' \in Seq(Units) /\ Len(rx') <= Len(rx) /\ Len(rx) \in Nat
    BY <1>0, <2>1, <2>2 DEF QueueTypes
  <2>4. frame' \in Seq(Units)
    BY <1>0, <2>1, <2>3 DEF QueueTypes
  <2>5. Len(rx') <= MaxRx
    BY <1>0, <2>3 DEF QueueTypes
  <2> QED BY <1>0, <1>3, <2>3, <2>4, <2>5 DEF QueueTypes, ReadSome
<1>4. CASE Message
  <2>1. received' \in Seq(Units)
    BY <1>0, <1>4 DEF Message, QueueTypes
  <2>2. rx' \in {rx, <<>>} /\ frame' = <<>> /\ UNCHANGED <<rest, told, sent>>
    BY <1>4 DEF Message, Complete, Callback, Cleanup, Keep, ClientDisconnect
  <2> QED BY <1>0, <1>a, <2>1, <2>2 DEF QueueTypes
<1>5. CASE SendsLine
  <2>1. PICK l \in Lines, of \in 2..3 : told' = told \union {l} /\ rest' = UnitsOf(l, 0, of)
    BY <1>5 DEF SendsLine, NextLines, Lines, Texts
  <2>2. rest' \in Seq(Units)
    <3>a. conn = "open"
      BY <1>5 DEF SendsLine
    <3>1. of \in Nat \ {0} /\ 0 \in 0..MaxFrames /\ conns > 0
      BY <1>b, <3>a
    <3> QED BY <2>1, <3>1, UnitsTyped
  <2>4. UNCHANGED <<frame, rx, received, sent>>
    BY <1>5 DEF SendsLine, ServerUnchanged
  <2> QED BY <1>0, <2>1, <2>2, <2>4 DEF QueueTypes
<1>6. CASE SendsFrame
  <2>1. PICK k \in Kinds, of \in 1..MaxUnits :
          sent' = Append(sent, k) /\ rest' = UnitsOf(k, Len(sent) + 1, of)
    BY <1>6 DEF SendsFrame
  <2>2. Len(sent) + 1 \in 0..MaxFrames
    <3>1. Len(sent) < MaxFrames
      BY <1>6 DEF SendsFrame
    <3>2. sent \in Seq(Kinds)
      BY <1>0 DEF QueueTypes
    <3>3. Len(sent) \in Nat
      BY <3>2
    <3> QED BY <3>1, <3>3
  <2>3. rest' \in Seq(Units) /\ sent' \in Seq(Kinds)
    <3>a. conn = "open"
      BY <1>6 DEF SendsFrame
    <3>1. of \in Nat \ {0} /\ conns > 0
      BY <1>b, <3>a
    <3>2. UnitsOf(k, Len(sent) + 1, of) \in Seq(Units)
      BY <2>2, <3>1, UnitsTyped
    <3> QED BY <1>0, <2>1, <3>2 DEF QueueTypes
  <2>4. UNCHANGED <<frame, rx, received, told>>
    BY <1>6 DEF SendsFrame, ServerUnchanged
  <2> QED BY <1>0, <2>3, <2>4 DEF QueueTypes
<1>7. CASE Arrives
  <2>1. rx' = Append(rx, Head(rest)) /\ rest' = Tail(rest) /\ rest # <<>> /\ Len(rx) < MaxRx
    BY <1>7 DEF Arrives
  <2>2. rx' \in Seq(Units) /\ rest' \in Seq(Units) /\ Len(rx') <= MaxRx
    BY <1>0, <2>1 DEF QueueTypes
  <2>3. UNCHANGED <<frame, sent, received, told>>
    BY <1>7 DEF Arrives, ServerUnchanged
  <2> QED BY <1>0, <2>2, <2>3 DEF QueueTypes
<1>8. \/ rx' \in {rx, <<>>} /\ rest' \in {rest, <<>>} /\ frame' \in {frame, <<>>}
         /\ received' \in {received, <<>>} /\ told' \in {told, {}} /\ sent' \in {sent, <<>>}
      \/ HeaderLine \/ HeaderDone \/ ReadFirst \/ ReadSome \/ Message
      \/ SendsLine \/ SendsFrame \/ Arrives
  <2>1. CASE LoopConnect
    BY <2>1 DEF LoopConnect
  <2>2. CASE HeaderRefused \/ ReadFails \/ Send \/ Disconnect
    BY <2>2 DEF HeaderRefused, ReadFails, Send, Disconnect, Cleanup, Keep, ClientDisconnect
  <2>3. CASE PingFrame \/ OtherFrame
    BY <2>3 DEF PingFrame, OtherFrame, Complete, Keep, ClientDisconnect
  <2>4. CASE LoopData \/ NoData \/ FrameBegins \/ Lost \/ UNCHANGED vars
    BY <2>4 DEF LoopData, NoData, FrameBegins, Lost, vars
  <2> QED BY <2>1, <2>2, <2>3, <2>4 DEF Actions
<1> QED BY <1>1, <1>2, <1>3, <1>4, <1>5, <1>6, <1>7, <1>8, <1>9

\* Every step keeps the types.
LEMMA TypeStep == TypeOK /\ ControlInv /\ Actions => TypeOK'
<1> SUFFICES ASSUME TypeOK, ControlInv, Actions PROVE TypeOK'
  OBVIOUS
<1>1. FlagTypes' /\ ValueTypes' /\ QueueTypes'
  BY FlagTypesStep, ValueTypesStep, QueueTypesStep
<1> QED BY <1>1, TypeParts, PTL

\* Every step keeps the client's view of the connection in accord with it.
LEMMA ControlStep == TypeOK /\ ControlInv /\ Actions => ControlInv'
<1> SUFFICES ASSUME TypeOK, ControlInv, Actions PROVE ControlInv'
  OBVIOUS
<1> USE DEF clientVars, serverVars, cutVars
<1>0. ValueTypes
  BY TypeParts
<1>1. CASE LoopData \/ NoData \/ FrameBegins \/ ReadFirst \/ ReadSome
  BY <1>0, <1>1 DEF LoopData, NoData, FrameBegins, ReadFirst, ReadSome, IsConnected, ControlInv
<1>a. CASE HeaderLine
  <2>1. pc = "data" /\ status = "header" /\ pc' = "idle"
        /\ UNCHANGED <<status, conn, conns, frame, early>>
    BY <1>a DEF HeaderLine, ReadLine
  <2> QED BY <2>1 DEF ControlInv
<1>2. CASE /\ ClientDisconnect /\ pc' \in {"idle", "crashed"} /\ frame' = <<>>
           /\ UNCHANGED serverVars
  BY <1>2 DEF ClientDisconnect, Reset, ControlInv
<1>3. CASE Keep /\ pc' = "idle" /\ frame' = <<>> /\ UNCHANGED <<serverVars, cutVars, conns>>
  BY <1>3 DEF Keep, ControlInv
<1>4. CASE LoopConnect
  <2>a. frame' = <<>> /\ pc' = "idle" /\ rx' = <<>>
    BY <1>4 DEF LoopConnect, ControlInv
  <2>1. CASE conn' = "open" /\ status' = "header" /\ conns' = conns + 1 /\ early' = FALSE
    BY <1>0, <2>a, <2>1, Bounds DEF ValueTypes, ControlInv
  <2>2. CASE conn' = "none" /\ status' = "none"
    <3>2. CASE tcp
      BY <1>4, <2>a, <2>2, <3>2 DEF LoopConnect, ControlInv
    <3>3. CASE ~tcp
      <4>1. status = "none"
        BY <1>0, <3>3 DEF ValueTypes
      <4> QED BY <1>4, <2>a, <2>2, <3>3, <4>1 DEF LoopConnect, ControlInv
    <3> QED BY <3>2, <3>3
  <2> QED BY <1>4, <2>1, <2>2 DEF LoopConnect
<1>5. CASE HeaderDone /\ ~ClientDisconnect
  <2>1. /\ pc = "data" /\ status = "header" /\ pc' = "idle" /\ status' = "connected"
        /\ UNCHANGED <<conn, conns, frame>>
    BY <1>5 DEF HeaderDone, HeaderEnd
  <2> QED BY <2>1 DEF ControlInv
<1>6. CASE SendsLine \/ SendsFrame \/ Arrives
  <2>1. conn = "open" /\ ServerUnchanged
    BY <1>6 DEF SendsLine, SendsFrame, Arrives
  <2> QED BY <2>1 DEF ServerUnchanged, ControlInv
<1>9. CASE Lost \/ UNCHANGED vars
  BY <1>9 DEF Lost, vars, ControlInv
<1>b. pc # "frame" => frame = <<>>
  BY DEF ControlInv
<1>7. CASE HeaderDone \/ HeaderRefused \/ ReadFails \/ OtherFrame \/ Disconnect
  BY <1>2, <1>5, <1>7, <1>b
    DEF HeaderDone, HeaderEnd, HeaderRefused, ReadFails, OtherFrame, Complete, Disconnect
<1>8. CASE Message \/ PingFrame \/ Send
  BY <1>2, <1>3, <1>8, <1>b DEF Message, PingFrame, Complete, Send, Callback, Cleanup
<1> QED
  BY <1>1, <1>a, <1>4, <1>6, <1>7, <1>8, <1>9 DEF Actions

\* Every step keeps the server's order of things.
LEMMA ServerStep == TypeOK /\ ControlInv /\ ServerInv /\ Actions => ServerInv'
<1> SUFFICES ASSUME TypeOK, ControlInv, ServerInv, Actions PROVE ServerInv'
  OBVIOUS
<1> USE DEF clientVars, serverVars, ServerInv
<1>1. CASE UNCHANGED <<told, sent>>
  BY <1>1
<1>2. CASE SendsLine
  BY <1>2 DEF SendsLine
<1>3. CASE SendsFrame
  BY <1>3 DEF SendsFrame
<1>6. CASE LoopConnect
  BY <1>6 DEF LoopConnect
<1>7. UNCHANGED <<told, sent>> \/ SendsLine \/ SendsFrame \/ LoopConnect
  BY DEF Actions, LoopData, NoData, HeaderLine, HeaderDone, HeaderRefused, FrameBegins, ReadFirst,
    ReadSome, ReadFails, Message, PingFrame, OtherFrame, Complete, Send, Disconnect, Arrives, Lost,
    vars
<1> QED BY <1>1, <1>2, <1>3, <1>6, <1>7

-----------------------------------------------------------------------------
(* The stream.                                                               *)

\* The kinds of step, by what they do to the stream: the connection ends, a new one
\* begins, or only the place of the units changes; the others are actions.
Ends == status' = "none" /\ UNCHANGED serverVars

Opens ==
  /\ status' = "header" /\ conn' = "open" /\ Stream' = <<>>
  /\ told' = {} /\ sent' = <<>> /\ received' = <<>> /\ conns' = conns + 1
  /\ cCode' = 0 /\ cAccept' = 0 /\ ~cIsUpgrade' /\ ~cut' /\ ~early'

Stays ==
  /\ ~early => Stream' = Stream
  /\ UNCHANGED <<clientVars, told, sent, received, conns, cut, early>>

TakesFrame == (Message \/ PingFrame) /\ Keep

HeaderAccepted == HeaderDone /\ status' = "connected"

LEMMA Classes ==
  ASSUME TypeOK, ControlInv, FramesInv, Actions
  PROVE  \/ Ends \/ Opens \/ Stays \/ HeaderLine \/ HeaderAccepted \/ TakesFrame
         \/ SendsLine \/ SendsFrame
<1> USE DEF clientVars, serverVars, cutVars
<1>a. CASE ReadFirst
  <2>1. UNCHANGED <<clientVars, told, sent, received, conns, cut, early>>
    BY <1>a DEF ReadFirst
  <2> QED BY <1>a, <2>1, StreamFirst DEF Stays
<1>b. CASE Lost
  BY <1>b, StreamStays DEF Lost, Stays
<1>1. CASE LoopData \/ NoData \/ FrameBegins \/ ReadSome \/ Arrives
  <2>1. UNCHANGED <<clientVars, told, sent, received, conns, cut, early>>
    BY <1>1 DEF LoopData, NoData, FrameBegins, ReadSome, Arrives, ServerUnchanged
  <2> QED BY <1>1, <2>1, StreamStays DEF Stays
<1>2. CASE UNCHANGED vars
  BY <1>2, StreamStays DEF vars, Stays
<1>3. CASE Send /\ Keep
  BY <1>3, StreamStays DEF Send, Keep, Stays
<1>4. CASE ClientDisconnect /\ UNCHANGED serverVars
  BY <1>4 DEF ClientDisconnect, Reset, Ends
<1>5. CASE LoopConnect
  <2>1. CASE /\ conns' = conns + 1 /\ conn' = "open" /\ status' = "header"
             /\ told' = {} /\ sent' = <<>> /\ rest' = <<>> /\ received' = <<>>
             /\ cut' = FALSE /\ early' = FALSE
    <3>1. Reading' = <<>> /\ rx' = <<>>
      BY <1>5 DEF LoopConnect, Reading
    <3>2. (<<>> \o <<>>) \o <<>> = <<>>
      <4>1. <<>> \in Seq(Units) /\ <<>> \o <<>> = <<>>
        OBVIOUS
      <4> QED BY <4>1
    <3>3. Stream' = <<>>
      BY <2>1, <3>1, <3>2 DEF Stream
    <3>4. cCode' = 0 /\ cAccept' = 0 /\ ~cIsUpgrade'
      <4>1. CASE tcp
        BY <1>5, <4>1 DEF LoopConnect
      <4>2. CASE ~tcp
        BY <1>5, <4>2 DEF LoopConnect, ControlInv, TypeOK
      <4> QED BY <4>1, <4>2
    <3> QED BY <2>1, <3>3, <3>4 DEF Opens
  <2>2. CASE status' = "none" /\ UNCHANGED serverVars
    BY <2>2 DEF Ends
  <2> QED BY <1>5, <2>1, <2>2 DEF LoopConnect
<1>6. CASE HeaderDone
  BY <1>4, <1>6 DEF HeaderDone, HeaderAccepted
<1>7. CASE HeaderRefused \/ ReadFails \/ OtherFrame \/ Disconnect
  BY <1>4, <1>7 DEF HeaderRefused, ReadFails, OtherFrame, Complete, Disconnect
<1>8. CASE Message \/ PingFrame
  BY <1>4, <1>8 DEF Message, PingFrame, Complete, Callback, Cleanup, TakesFrame
<1>9. CASE Send
  BY <1>3, <1>4, <1>9 DEF Send, Cleanup
<1> QED
  BY <1>a, <1>b, <1>1, <1>2, <1>5, <1>6, <1>7, <1>8, <1>9 DEF Actions

\* What a line that is read takes from the front of the stream: units of one line of the
\* server, up to its end or to where it was cut.
LEMMA TakesLine ==
  ASSUME TypeOK, ControlInv, StreamInv, HeaderInv,
         NEW n \in 1..Len(rx), ReadLine(n), pc' = "idle", UNCHANGED rest
  PROVE  LET u == Stream[1]
             d == u.of - u.n
         IN
         /\ Stream \in Seq(Units) /\ n \in 1..Len(Stream) /\ status = "header" /\ ~early
         /\ u = Head(rx) /\ u \in Units /\ u.l \in Lines /\ Comes(u, told, sent, conns)
         /\ d \in Nat /\ n <= d + 1 /\ (EndsLine(rx[n]) <=> n = d + 1)
         /\ \A i \in 1..n : Stream[i].l = u.l
         /\ Stream' = SubSeq(Stream, n + 1, Len(Stream))
         /\ Stream' \in Seq(Units) /\ Len(Stream') = Len(Stream) - n
         /\ \A i \in 1..Len(Stream') : Stream'[i] = Stream[i + n]
         /\ Stream' # <<>> => Stream'[1] \in Units /\ Before(u, Stream'[1], n)
         /\ Stream' = <<>> => Closed(u, n - 1, told, sent)
         /\ Ordered(Stream) /\ Known(Stream, told, sent, conns) /\ Ended(Stream, told, sent)
<1> DEFINE u == Stream[1]
           d == u.of - u.n
<1>1. /\ pc = "data" /\ rx' = SubSeq(rx, n + 1, Len(rx)) /\ status = "header"
      /\ \A i \in 1..(n - 1) : ~EndsLine(rx[i])
      /\ n = Len(rx) \/ EndsLine(rx[n])
  BY DEF ReadLine
<1>2. Stream \in Seq(Units) /\ Len(Stream) \in Nat
  <2>1. Stream \in Seq(Units)
    BY StreamTyped
  <2> QED BY <2>1
<1>3. /\ n \in 1..Len(Stream) /\ Head(rx) = rx[1] /\ \A i \in 1..n : Stream[i] = rx[i]
      /\ Stream' = SubSeq(Stream, n + 1, Len(Stream))
  BY <1>1, StreamTail
<1>4. ~early /\ Ordered(Stream) /\ Known(Stream, told, sent, conns) /\ Ended(Stream, told, sent)
  BY <1>1 DEF ControlInv, StreamInv
<1>5. 1 \in 1..n /\ n \in Nat \ {0} /\ 1 \in 1..Len(Stream) /\ Stream # <<>>
  BY <1>2, <1>3
<1>6. u = Head(rx) /\ u \in Units /\ u.l \in Lines /\ Comes(u, told, sent, conns)
  <2>1. u = Head(rx)
    BY <1>3, <1>5
  <2>2. u \in Units
    BY <1>2, <1>5
  <2>3. u.l \in Lines
    BY <1>1, <1>5 DEF HeaderInv
  <2>4. Comes(u, told, sent, conns)
    BY <1>4, <1>5 DEF Known
  <2> QED BY <2>1, <2>2, <2>3, <2>4
<1>7. d \in Nat /\ u.n \in Nat /\ u.of \in Nat
  <2>1. u.n \in 1..u.of /\ u.of \in Nat /\ u.n \in Nat
    BY <1>6, UnitTypes DEF Comes
  <2> QED BY <2>1
<1> HIDE DEF u, d
<1>8. ASSUME NEW i \in 2..Len(Stream), i <= d + 1
      PROVE  Stream[i].l = u.l /\ Stream[i].of = u.of /\ Stream[i].n = u.n + (i - 1)
  <2>1. Before(u, Stream[i], i - 1)
    BY <1>2, <1>4, <1>5 DEF Ordered, u
  <2>2. i - 1 <= u.of - u.n
    BY <1>2, <1>7, <1>8 DEF d
  <2> QED BY <2>1, <2>2 DEF Before
<1>9. \A i \in 1..Len(Stream) : i <= d + 1 => (EndsLine(Stream[i]) <=> i = d + 1)
  <2> SUFFICES ASSUME NEW i \in 1..Len(Stream), i <= d + 1 PROVE EndsLine(Stream[i]) <=> i = d + 1
    OBVIOUS
  <2>1. CASE i = 1
    BY <1>7, <2>1 DEF EndsLine, u, d
  <2>2. CASE i # 1
    <3>1. i \in 2..Len(Stream)
      BY <1>2, <2>2
    <3>2. Stream[i].of = u.of /\ Stream[i].n = u.n + (i - 1)
      BY <1>8, <3>1
    <3>3. EndsLine(Stream[i]) <=> u.n + (i - 1) = u.of
      BY <3>2 DEF EndsLine
    <3>4. u.n + (i - 1) = u.of <=> i = (u.of - u.n) + 1
      BY <1>7, <3>1
    <3> QED BY <3>3, <3>4 DEF d
  <2> QED BY <2>1, <2>2
<1>10. n <= d + 1
  <2> SUFFICES ASSUME d + 1 < n PROVE FALSE
    BY <1>5, <1>7
  <2>1. d + 1 \in 1..(n - 1) /\ d + 1 \in 1..Len(Stream) /\ d + 1 \in 1..n
    BY <1>2, <1>3, <1>5, <1>7
  <2>2. EndsLine(Stream[d + 1])
    BY <1>9, <2>1, <1>7
  <2> QED BY <1>1, <1>3, <2>1, <2>2
<1>11. EndsLine(rx[n]) <=> n = d + 1
  BY <1>3, <1>5, <1>9, <1>10
<1>12. ASSUME NEW i \in 1..n PROVE Stream[i].l = u.l
  <2>1. CASE i = 1
    BY <2>1 DEF u
  <2>2. CASE i # 1
    <3>1. i \in 2..Len(Stream) /\ i <= d + 1
      BY <1>2, <1>3, <1>5, <1>7, <1>10, <2>2
    <3> QED BY <1>8, <3>1
  <2> QED BY <2>1, <2>2
<1>13. /\ Stream' \in Seq(Units) /\ Len(Stream') = Len(Stream) - n
       /\ \A i \in 1..Len(Stream') : Stream'[i] = Stream[i + n]
  <2>1. n \in 0..Len(Stream)
    BY <1>3
  <2> QED BY <1>2, <1>3, <2>1, Suffix
<1>14. ASSUME Stream' # <<>> PROVE Stream'[1] \in Units /\ Before(u, Stream'[1], n)
  <2>1. 1 \in 1..Len(Stream') /\ 1 + n \in 1..Len(Stream) /\ Stream'[1] = Stream[1 + n] /\ 1 < 1 + n
    BY <1>2, <1>3, <1>5, <1>13, <1>14
  <2>2. Before(Stream[1], Stream[1 + n], (1 + n) - 1)
    BY <1>4, <1>5, <2>1 DEF Ordered
  <2>3. (1 + n) - 1 = n
    BY <1>5
  <2> QED BY <1>13, <2>1, <2>2, <2>3 DEF u
<1>15. ASSUME Stream' = <<>> PROVE Closed(u, n - 1, told, sent)
  <2>1. Len(Stream) = n
    BY <1>2, <1>5, <1>13, <1>15
  <2> QED BY <1>4, <1>5, <2>1 DEF Ended, u
<1> QED
  BY <1>1, <1>2, <1>3, <1>4, <1>6, <1>7, <1>10, <1>11, <1>12, <1>13, <1>14, <1>15 DEF u, d

\* The frame that has been read is taken from the front of it.
LEMMA TakesUnits ==
  ASSUME TypeOK, TakesFrame
  PROVE  /\ Stream \in Seq(Units) /\ Len(frame) \in 0..Len(Stream) /\ frame \in Seq(Units)
         /\ \A i \in 1..Len(frame) : Stream[i] = frame[i]
         /\ Stream' = SubSeq(Stream, Len(frame) + 1, Len(Stream))
         /\ pc = "frame" /\ Missing = 0
         /\ UNCHANGED <<status, told, sent, conns, early>>
<1>1. /\ pc = "frame" /\ Missing = 0 /\ pc' = "idle"
      /\ UNCHANGED <<rx, rest, status, told, sent, conns, early>>
  BY DEF TakesFrame, Message, PingFrame, Complete, Keep, clientVars, serverVars, cutVars
<1>2. Stream \in Seq(Units) /\ frame \in Seq(Units)
  BY StreamTyped DEF TypeOK
<1> QED BY <1>1, <1>2, StreamDrop

\* A line comes to the end of the stream.
LEMMA LineComes ==
  ASSUME TypeOK, ControlInv, ServerInv, SendsLine, StreamInv, ~early
  PROVE  \E l \in Lines :
           /\ told' = told \union {l} /\ Stream \in Seq(Units) /\ Stream' \in Seq(Units)
           /\ Len(Stream') > Len(Stream)
           /\ Stream'[Len(Stream) + 1].l = l /\ Stream'[Len(Stream) + 1].n = 1
           /\ \A i \in 1..Len(Stream) : Stream'[i] = Stream[i]
           /\ UNCHANGED <<clientVars, conn, sent, received, conns, cut, early>>
           /\ Ordered(Stream') /\ Known(Stream', told', sent, conns) /\ Ended(Stream', told', sent)
<1>1. PICK l \in Lines, of \in 2..3 :
        told' = told \union {l} /\ rest' = UnitsOf(l, 0, of) /\ (l = "" => of = 2)
  BY DEF SendsLine, NextLines, Lines, Texts
<1>2. /\ conn = "open" /\ "" \notin told /\ rest = <<>>
      /\ UNCHANGED <<clientVars, frame, pc, conn, received, conns, sent, rx, cut, early>>
  BY DEF SendsLine, ServerUnchanged, cutVars
<1>3. sent = <<>> /\ conns > 0 /\ status # "none"
  BY <1>2 DEF ServerInv, ControlInv
<1> DEFINE v == UnitsOf(l, 0, of)
           s == Stream
           t == told
           t1 == told \union {l}
<1>4. /\ v \in Seq(Units) /\ Len(v) = of /\ of \in Nat /\ of > 1
      /\ \A i \in 1..of : v[i].l = l /\ v[i].f = 0 /\ v[i].n = i /\ v[i].of = of /\ v[i].x = conns
  <2>1. of \in Nat \ {0} /\ of > 1 /\ 0 \in 0..MaxFrames
    BY Bounds
  <2> QED BY <1>3, <2>1, UnitsTyped
<1>5. s' = s \o v
  BY <1>1, <1>2, StreamFrame
<1>6. s \in Seq(Units) /\ Ordered(s) /\ Known(s, t, <<>>, conns) /\ Ended(s, t, <<>>)
  BY <1>3, StreamTyped DEF StreamInv
<1> HIDE DEF v, s
<1>8. l \notin Kinds
  BY UnitTypes
<1>9. \A i \in 1..Len(s) : /\ s[i].l \in Texts /\ s[i].of - s[i].n \in Int
                           /\ s[i].of - s[i].n <= Len(s) - i
  <2> SUFFICES ASSUME NEW i \in 1..Len(s)
               PROVE  /\ s[i].l \in Texts /\ s[i].of - s[i].n \in Int
                      /\ s[i].of - s[i].n <= Len(s) - i
    OBVIOUS
  <2>1. s[i] \in Units
    BY <1>6
  <2>2. Comes(s[i], t, <<>>, conns) /\ Closed(s[i], Len(s) - i, t, <<>>)
    BY <1>6 DEF Known, Ended
  <2>3. s[i].l \in Lines /\ s[i].l # ""
    BY <1>2, <2>1, <2>2, UnitTypes DEF Comes
  <2>4. s[i].of \in Nat /\ s[i].n \in Nat
    BY <2>1, UnitTypes
  <2>5. s[i].of - s[i].n \in Int
    BY <2>4
  <2>7. s[i].l \in Texts
    BY <2>3, UnitTypes
  <2>6. s[i].of - s[i].n <= Len(s) - i
    BY <2>2 DEF Closed
  <2> QED BY <2>5, <2>6, <2>7
<1>10. Ordered(v)
  <2> SUFFICES ASSUME NEW i \in 1..Len(v), NEW j \in 1..Len(v), i < j PROVE Before(v[i], v[j], j - i)
    BY DEF Ordered
  <2>1. v[i].of - v[i].n = of - i /\ v[j].n = v[i].n + (j - i) /\ j - i <= of - i
    BY <1>4
  <2>2. ~(j - i = of - i + 1)
    BY <1>4
  <2> QED BY <1>4, <1>8, <2>1, <2>2 DEF Before
<1>11. \A i \in 1..Len(s), j \in 1..Len(v) : Before(s[i], v[j], Len(s) - i + j)
  <2> SUFFICES ASSUME NEW i \in 1..Len(s), NEW j \in 1..Len(v)
               PROVE  Before(s[i], v[j], Len(s) - i + j)
    OBVIOUS
  <2> DEFINE d == s[i].of - s[i].n
             m == Len(s) - i + j
  <2>a. Len(s) \in Nat
    BY <1>6
  <2>1. d \in Int /\ d <= Len(s) - i /\ s[i].l \in Texts
    BY <1>9
  <2>2. v[j].l = l /\ v[j].n = j /\ j \in Nat \ {0}
    BY <1>4
  <2> HIDE DEF d
  <2>3. ~(m <= d) /\ (m = d + 1 => j = 1)
    BY <2>1, <2>2, <2>a
  <2>4. s[i].l \in Lines /\ s[i].l # ""
    BY <2>1, UnitTypes
  <2> HIDE DEF m
  <2>7. Before(s[i], v[j], m)
    BY <1>8, <2>2, <2>3, <2>4 DEF Before, d
  <2> QED BY <2>7 DEF m
<1>12. Known(s, t1, <<>>, conns) /\ Known(v, t1, <<>>, conns)
  <2>1. Known(s, t1, <<>>, conns)
    BY <1>6 DEF Known, Comes
  <2>2. Known(v, t1, <<>>, conns)
    BY <1>1, <1>4, <1>8 DEF Known, Comes
  <2> QED BY <2>1, <2>2
<1>13. \A i \in 1..Len(s) : Closed(s[i], Len(s) - i + Len(v), t1, <<>>)
  <2> SUFFICES ASSUME NEW i \in 1..Len(s) PROVE Closed(s[i], Len(s) - i + Len(v), t1, <<>>)
    OBVIOUS
  <2>1. s[i].of - s[i].n \in Int /\ s[i].of - s[i].n <= Len(s) - i
    BY <1>9
  <2>2. Len(s) \in Nat /\ Len(v) \in Nat \ {0}
    BY <1>4, <1>6
  <2> DEFINE d == s[i].of - s[i].n
             m == Len(s) - i + Len(v)
  <2> HIDE DEF d
  <2>3. d <= m /\ ~(d = m)
    BY <2>1, <2>2 DEF d
  <2> HIDE DEF m
  <2> QED BY <2>3 DEF Closed, d, m
<1>14. Ended(v, t1, <<>>)
  <2> SUFFICES ASSUME NEW i \in 1..Len(v) PROVE Closed(v[i], Len(v) - i, t1, <<>>)
    BY DEF Ended
  <2>1. v[i].l = l /\ v[i].f = 0 /\ v[i].of - v[i].n = Len(v) - i /\ Len(v) - i \in Int
    BY <1>4
  <2> DEFINE d == Len(v) - i
  <2> HIDE DEF d
  <2>2. v[i].of - v[i].n = d /\ d <= d
    BY <2>1 DEF d
  <2>3. l \in Texts => "" \notin t1
    BY <1>2, UnitTypes
  <2>4. Len(<<>>) = 0
    OBVIOUS
  <2>5. Closed(v[i], d, t1, <<>>)
    BY <2>1, <2>2, <2>3, <2>4 DEF Closed
  <2> QED BY <2>5 DEF d
<1>15. LET r == s \o v IN
       /\ r \in Seq(Units) /\ Len(r) = Len(s) + Len(v)
       /\ \A i \in 1..Len(s) : r[i] = s[i]
       /\ \A i \in 1..Len(v) : r[Len(s) + i] = v[i]
       /\ Ordered(r) /\ Known(r, t1, <<>>, conns) /\ Ended(r, t1, <<>>)
  BY <1>4, <1>6, <1>10, <1>11, <1>12, <1>13, <1>14, Joined
<1>16. Len(s \o v) > Len(s) /\ (s \o v)[Len(s) + 1] = v[1] /\ 1 \in 1..of
  BY <1>4, <1>6, <1>15
<1>17. s' \in Seq(Units) /\ Len(s') > Len(s) /\ s'[Len(s) + 1] = v[1]
       /\ \A i \in 1..Len(s) : s'[i] = s[i]
  BY <1>5, <1>15, <1>16
<1>18. Ordered(s') /\ Known(s', told', sent, conns) /\ Ended(s', told', sent)
  BY <1>1, <1>3, <1>5, <1>15
<1>19. v[1].l = l /\ v[1].n = 1
  BY <1>4, <1>16
<1> QED
  BY <1>1, <1>2, <1>6, <1>17, <1>18, <1>19 DEF s

\* A frame comes to the end of it.
LEMMA FrameComes ==
  ASSUME TypeOK, ControlInv, SendsFrame, StreamInv, ~early
  PROVE  \E k \in Kinds :
           /\ sent' = Append(sent, k) /\ Stream \in Seq(Units) /\ Stream' \in Seq(Units)
           /\ Len(Stream') > Len(Stream)
           /\ LET u == Stream'[Len(Stream) + 1] IN u.l \in Kinds /\ u.n = 1 /\ u.f = Len(sent) + 1
           /\ \A i \in 1..Len(Stream) : Stream'[i] = Stream[i]
           /\ UNCHANGED <<clientVars, conn, told, received, conns, cut, early>>
           /\ Ordered(Stream') /\ Known(Stream', told, sent', conns) /\ Ended(Stream', told, sent')
<1>1. PICK k \in Kinds, of \in 1..MaxUnits :
        sent' = Append(sent, k) /\ rest' = UnitsOf(k, Len(sent) + 1, of)
  BY DEF SendsFrame
<1>2. /\ conn = "open" /\ "" \in told /\ rest = <<>> /\ Len(sent) < MaxFrames
      /\ UNCHANGED <<clientVars, frame, pc, conn, received, conns, rx, told, cut, early>>
  BY DEF SendsFrame, ServerUnchanged, cutVars
<1>3. conns > 0 /\ status # "none" /\ sent \in Seq(Kinds)
  BY <1>2 DEF ControlInv, TypeOK
<1>a. Len(sent) \in Nat /\ Len(sent) + 1 \in 1..MaxFrames
  <2>1. Len(sent) \in Nat
    BY <1>3
  <2>2. Len(sent) < MaxFrames
    BY <1>2
  <2> QED BY <2>1, <2>2, Bounds
<1> DEFINE f == Len(sent) + 1
           v == UnitsOf(k, f, of)
           s == Stream
           t == told
           q == Append(sent, k)
<1>4. /\ v \in Seq(Units) /\ Len(v) = of /\ of \in Nat
      /\ \A i \in 1..of : v[i].l = k /\ v[i].f = f /\ v[i].n = i /\ v[i].of = of /\ v[i].x = conns
  <2>1. f \in 0..MaxFrames /\ of \in Nat \ {0}
    BY <1>a, Bounds
  <2> QED BY <1>3, <2>1, UnitsTyped
<1>5. s' = s \o v
  BY <1>1, <1>2, StreamFrame
<1>6. s \in Seq(Units) /\ Ordered(s) /\ Known(s, t, sent, conns) /\ Ended(s, t, sent)
  BY <1>2, <1>3, StreamTyped DEF StreamInv
<1>7. /\ Len(q) = f /\ q[f] = k /\ f \in Nat
      /\ \A g \in 1..Len(sent) : q[g] = sent[g] /\ g \in 1..f
  BY <1>3, <1>a
<1> HIDE DEF v, s, q, f
<1>8. k \notin Lines
  BY UnitTypes
<1>9. \A i \in 1..Len(s) : /\ s[i].of - s[i].n \in Int /\ s[i].f < f
                           /\ s[i].of - s[i].n <= Len(s) - i
                           /\ s[i].of - s[i].n = Len(s) - i => s[i].f + 1 = f /\ s[i].l \notin Texts
  <2> SUFFICES ASSUME NEW i \in 1..Len(s)
               PROVE  /\ s[i].of - s[i].n \in Int /\ s[i].f < f
                      /\ s[i].of - s[i].n <= Len(s) - i
                      /\ s[i].of - s[i].n = Len(s) - i => s[i].f + 1 = f /\ s[i].l \notin Texts
    OBVIOUS
  <2>1. s[i] \in Units /\ Len(s) \in Nat
    BY <1>6
  <2>2. Comes(s[i], t, sent, conns) /\ Closed(s[i], Len(s) - i, t, sent)
    BY <1>6 DEF Known, Ended
  <2>3. s[i].of \in Nat /\ s[i].n \in Nat /\ s[i].f \in Nat /\ s[i].l \in Lines \union Kinds
    BY <2>1, UnitTypes
  <2>4. s[i].of - s[i].n \in Int /\ s[i].f < f
    <3>1. s[i].f \in 0..Len(sent)
      <4>1. s[i].f \in 1..Len(sent) \/ s[i].f = 0
        BY <2>2, <2>3 DEF Comes
      <4> QED BY <1>a, <4>1
    <3> QED BY <1>a, <2>3, <3>1 DEF f
  <2>5. /\ s[i].of - s[i].n <= Len(s) - i
        /\ s[i].of - s[i].n = Len(s) - i => s[i].f = Len(sent) /\ s[i].l \notin Texts
    BY <1>2, <2>2 DEF Closed
  <2>6. s[i].f = Len(sent) => s[i].f + 1 = f
    BY <1>a DEF f
  <2> QED BY <2>4, <2>5, <2>6
<1>10. Ordered(v)
  <2> SUFFICES ASSUME NEW i \in 1..Len(v), NEW j \in 1..Len(v), i < j PROVE Before(v[i], v[j], j - i)
    BY DEF Ordered
  <2>1. v[i].of - v[i].n = of - i /\ v[j].n = v[i].n + (j - i) /\ j - i <= of - i
    BY <1>4
  <2>2. ~(j - i = of - i + 1) /\ ~(j - i > of - i + 1)
    BY <1>4
  <2> QED BY <1>4, <1>8, <2>1, <2>2 DEF Before
<1>11. \A i \in 1..Len(s), j \in 1..Len(v) : Before(s[i], v[j], Len(s) - i + j)
  <2> SUFFICES ASSUME NEW i \in 1..Len(s), NEW j \in 1..Len(v)
               PROVE  Before(s[i], v[j], Len(s) - i + j)
    OBVIOUS
  <2> DEFINE d == s[i].of - s[i].n
             m == Len(s) - i + j
  <2>a. Len(s) \in Nat
    BY <1>6
  <2>1. /\ d \in Int /\ d <= Len(s) - i /\ s[i].f < f
        /\ d = Len(s) - i => s[i].f + 1 = f /\ s[i].l \notin Texts
    BY <1>9
  <2>2. v[j].l = k /\ v[j].f = f /\ v[j].n = j /\ j \in Nat \ {0}
    BY <1>4
  <2> HIDE DEF d
  <2>3. ~(m <= d) /\ (m = d + 1 => j = 1 /\ d = Len(s) - i)
    <3>1. d \in Int /\ d <= Len(s) - i
      BY <2>1
    <3> QED BY <3>1, <2>2, <2>a
  <2>4. m = d + 1 => v[j].n = 1 /\ v[j].f = s[i].f + 1 /\ s[i].l \notin Texts
    BY <2>1, <2>2, <2>3
  <2>5. v[j].f > s[i].f
    BY <2>1, <2>2, <1>7, <1>6, UnitTypes
  <2> HIDE DEF m
  <2>7. Before(s[i], v[j], m)
    BY <1>8, <2>2, <2>3, <2>4, <2>5 DEF Before, d
  <2> QED BY <2>7 DEF m
<1>12. Known(s, t, q, conns) /\ Known(v, t, q, conns)
  <2>1. Known(s, t, q, conns)
    BY <1>6, <1>7 DEF Known, Comes
  <2>2. Known(v, t, q, conns)
    <3> SUFFICES ASSUME NEW i \in 1..Len(v) PROVE Comes(v[i], t, q, conns)
      BY DEF Known
    <3>1. v[i].l = k /\ v[i].f = f /\ v[i].n = i /\ v[i].of = of /\ v[i].x = conns /\ i \in 1..of
      BY <1>4
    <3>2. f \in 1..Len(q)
      BY <1>7, <1>a DEF f
    <3> QED BY <1>2, <1>7, <1>8, <3>1, <3>2 DEF Comes
  <2> QED BY <2>1, <2>2
<1>13. \A i \in 1..Len(s) : Closed(s[i], Len(s) - i + Len(v), t, q)
  <2> SUFFICES ASSUME NEW i \in 1..Len(s) PROVE Closed(s[i], Len(s) - i + Len(v), t, q)
    OBVIOUS
  <2>1. s[i].of - s[i].n \in Int /\ s[i].of - s[i].n <= Len(s) - i
    BY <1>9
  <2>2. Len(s) \in Nat /\ Len(v) \in Nat \ {0}
    BY <1>4, <1>6
  <2> DEFINE d == s[i].of - s[i].n
             m == Len(s) - i + Len(v)
  <2> HIDE DEF d
  <2>3. d <= m /\ ~(d = m)
    BY <2>1, <2>2 DEF d
  <2> HIDE DEF m
  <2> QED BY <2>3 DEF Closed, d, m
<1>14. Ended(v, t, q)
  <2> SUFFICES ASSUME NEW i \in 1..Len(v) PROVE Closed(v[i], Len(v) - i, t, q)
    BY DEF Ended
  <2>1. v[i].l = k /\ v[i].f = f /\ v[i].of - v[i].n = Len(v) - i /\ Len(v) - i \in Int
    BY <1>4
  <2> DEFINE d == Len(v) - i
  <2> HIDE DEF d
  <2>2. v[i].of - v[i].n = d /\ d <= d
    BY <2>1 DEF d
  <2>3. Closed(v[i], d, t, q)
    BY <1>7, <1>8, <2>1, <2>2, UnitTypes DEF Closed
  <2> QED BY <2>3 DEF d
<1>15. LET r == s \o v IN
       /\ r \in Seq(Units) /\ Len(r) = Len(s) + Len(v)
       /\ \A i \in 1..Len(s) : r[i] = s[i]
       /\ \A i \in 1..Len(v) : r[Len(s) + i] = v[i]
       /\ Ordered(r) /\ Known(r, t, q, conns) /\ Ended(r, t, q)
  BY <1>4, <1>6, <1>10, <1>11, <1>12, <1>13, <1>14, Joined
<1>16. Len(s \o v) > Len(s) /\ (s \o v)[Len(s) + 1] = v[1] /\ 1 \in 1..of
  BY <1>4, <1>6, <1>15
<1>17. s' \in Seq(Units) /\ Len(s') > Len(s) /\ Ordered(s') /\ Known(s', t, q, conns) /\ Ended(s', t, q)
       /\ (\A i \in 1..Len(s) : s'[i] = s[i]) /\ s'[Len(s) + 1] = v[1]
  BY <1>5, <1>15, <1>16
<1>18. v[1].l \in Kinds /\ v[1].n = 1 /\ v[1].f = Len(sent) + 1
  BY <1>4, <1>16 DEF f
<1> QED
  BY <1>1, <1>2, <1>3, <1>6, <1>17, <1>18 DEF s, q

\* The frame that has been read is whole, and the next after those handled.
LEMMA FrameShape ==
  ASSUME TypeOK, ControlInv, StreamInv, FramesInv, FrameInv, ~early, Message \/ PingFrame
  PROVE  \E d \in 0..Len(sent) :
           /\ d + 1 \in 1..Len(sent) /\ sent[d + 1] = frame[1].l
           /\ LastFrame <= d /\ \A f \in (LastFrame + 1)..d : sent[f] # "text"
           /\ Len(frame) \in 1..Len(Stream) /\ Stream[1] \in Units
           /\ Stream[1].l \in Kinds /\ Stream[1].f = d + 1 /\ Stream[1].n = 1
           /\ Stream[1].of = Len(frame)
           /\ \A i \in 1..Len(frame) : /\ frame[i].x = conns /\ frame[i].f = d + 1
                                       /\ frame[i].n = i /\ frame[i].of = Len(frame)
<1>1. /\ Stream \in Seq(Units) /\ Len(frame) \in 0..Len(Stream) /\ frame \in Seq(Units)
      /\ \A i \in 1..Len(frame) : Stream[i] = frame[i]
      /\ pc = "frame" /\ Missing = 0
  <2>1. pc = "frame" /\ Missing = 0
    BY DEF Message, PingFrame, Complete
  <2>2. Reading = frame
    BY <2>1 DEF Reading
  <2> QED BY <2>1, <2>2, StreamTyped
<1>2. frame # <<>> /\ frame[1].of - Len(frame) = 0 /\ frame[1].l # "big"
  <2>1. frame[1].l \in {"text", "ping"}
    BY DEF Message, PingFrame, Complete
  <2>2. frame # <<>>
    BY <1>1 DEF Missing
  <2> QED BY <1>1, <2>1, <2>2 DEF Missing
<1>3. Len(frame) \in 1..Len(Stream) /\ frame[1] = Stream[1] /\ Stream[1] \in Units /\ Len(Stream) \in Nat
      /\ Stream # <<>>
  <2>1. Len(frame) \in Nat \ {0}
    BY <1>1, <1>2
  <2> QED BY <1>1, <2>1
<1>4. status = "connected"
  BY <1>1 DEF ControlInv
<1>5. PICK d \in 0..Len(sent) :
        /\ LastFrame <= d /\ \A f \in (LastFrame + 1)..d : sent[f] # "text"
        /\ Stream[1].l \in Kinds /\ Stream[1].n = 1 /\ Stream[1].f = d + 1
  BY <1>3, <1>4 DEF FramesInv
<1>6. Ordered(Stream) /\ Known(Stream, told, sent, conns)
  BY <1>4 DEF StreamInv
<1>7. Stream[1].of \in Nat /\ Stream[1].of = Len(frame)
  <2>1. Stream[1].of \in Nat
    BY <1>3, UnitTypes
  <2>2. Stream[1].of - Len(frame) = 0 /\ Len(frame) \in Nat
    BY <1>2, <1>3
  <2> QED BY <2>1, <2>2
<1>8. d + 1 \in 1..Len(sent) /\ sent[d + 1] = frame[1].l
  <2>1. Comes(Stream[1], told, sent, conns)
    BY <1>3, <1>6 DEF Known
  <2> QED BY <1>3, <1>5, <2>1 DEF Comes
<1>9. ASSUME NEW i \in 1..Len(frame)
      PROVE  frame[i].x = conns /\ frame[i].f = d + 1 /\ frame[i].n = i /\ frame[i].of = Len(frame)
  <2>1. frame[i] = Stream[i] /\ i \in 1..Len(Stream)
    BY <1>1, <1>3
  <2>2. frame[i].x = conns
    BY <1>6, <2>1 DEF Known, Comes
  <2>3. CASE i = 1
    BY <1>3, <1>5, <1>7, <2>1, <2>2, <2>3
  <2>4. CASE i # 1
    <3>1. Before(Stream[1], Stream[i], i - 1)
      BY <1>3, <1>6, <2>1, <2>4 DEF Ordered
    <3>3. i - 1 <= Stream[1].of - Stream[1].n /\ Stream[1].n + (i - 1) = i
      BY <1>3, <1>5, <1>7
    <3> QED BY <1>5, <1>7, <2>1, <2>2, <3>1, <3>3 DEF Before
  <2> QED BY <2>3, <2>4
<1> QED
  BY <1>3, <1>5, <1>7, <1>8, <1>9

\* Every step keeps the stream in order.
LEMMA StreamStep ==
  ASSUME TypeOK, ControlInv, ServerInv, StreamInv, HeaderInv, FramesInv, Actions PROVE StreamInv'
<1>1. CASE Ends
  BY <1>1 DEF Ends, StreamInv
<1>2. CASE Opens
  <2>1. \A i \in 1..Len(<<>>) : FALSE
    OBVIOUS
  <2>2. \A t, q, c : Ordered(<<>>) /\ Known(<<>>, t, q, c) /\ Ended(<<>>, t, q)
    BY <2>1 DEF Ordered, Known, Ended
  <2>3. Stream' = <<>>
    BY <1>2 DEF Opens
  <2> QED BY <2>2, <2>3 DEF StreamInv
<1>3. CASE Stays
  BY <1>3 DEF Stays, StreamInv, clientVars
<1>4. CASE HeaderLine \/ HeaderAccepted
  <2>1. PICK n \in 1..Len(rx) : ReadLine(n)
    BY <1>4 DEF HeaderLine, HeaderAccepted, HeaderDone, ClientDisconnect, Reset
  <2>2. pc' = "idle" /\ UNCHANGED <<rest, told, sent, conns>>
    BY <1>4 DEF HeaderLine, HeaderAccepted, HeaderDone, serverVars
  <2>3. /\ Stream \in Seq(Units) /\ n \in 1..Len(Stream)
        /\ Stream' = SubSeq(Stream, n + 1, Len(Stream))
        /\ Ordered(Stream) /\ Known(Stream, told, sent, conns) /\ Ended(Stream, told, sent)
    BY <2>1, <2>2, TakesLine
  <2>4. /\ Ordered(Stream) => Ordered(Stream')
        /\ \A t, q, c : Known(Stream, t, q, c) => Known(Stream', t, q, c)
        /\ \A t, q : Ended(Stream, t, q) => Ended(Stream', t, q)
    <3>1. n \in 0..Len(Stream)
      BY <2>3
    <3> QED BY <2>3, <3>1, Suffix
  <2> QED BY <2>2, <2>3, <2>4 DEF StreamInv
<1>5. CASE TakesFrame
  <2>1. /\ Stream \in Seq(Units) /\ Len(frame) \in 0..Len(Stream)
        /\ Stream' = SubSeq(Stream, Len(frame) + 1, Len(Stream))
        /\ UNCHANGED <<status, told, sent, conns, early>>
    BY <1>5, TakesUnits
  <2> DEFINE k == Len(frame)
  <2> HIDE DEF k
  <2>2. k \in 0..Len(Stream) /\ Stream' = SubSeq(Stream, k + 1, Len(Stream))
    BY <2>1 DEF k
  <2>3. /\ Ordered(Stream) => Ordered(Stream')
        /\ \A t, q, c : Known(Stream, t, q, c) => Known(Stream', t, q, c)
        /\ \A t, q : Ended(Stream, t, q) => Ended(Stream', t, q)
    BY <2>1, <2>2, Suffix
  <2> QED BY <2>1, <2>3 DEF StreamInv
<1>6. CASE SendsLine
  <2>1. CASE early
    BY <1>6, <2>1 DEF SendsLine, ServerUnchanged, cutVars, StreamInv
  <2>2. CASE ~early
    BY <1>6, <2>2, LineComes DEF StreamInv
  <2> QED BY <2>1, <2>2
<1>7. CASE SendsFrame
  <2>1. CASE early
    BY <1>7, <2>1 DEF SendsFrame, ServerUnchanged, cutVars, StreamInv
  <2>2. CASE ~early
    BY <1>7, <2>2, FrameComes DEF StreamInv
  <2> QED BY <2>1, <2>2
<1> QED
  BY <1>1, <1>2, <1>3, <1>4, <1>5, <1>6, <1>7, Classes

\* Every step keeps what has been read of a frame no longer than the frame.
LEMMA FrameStep ==
  ASSUME TypeOK, FrameInv, Actions PROVE FrameInv'
<1>1. CASE frame' = frame \/ frame' = <<>>
  BY <1>1 DEF FrameInv
<1>2. CASE ReadFirst
  <2>1. PICK u \in AsFirst(Head(rx)) : frame' = <<u>>
    BY <1>2 DEF ReadFirst
  <2>2. Head(rx) \in Units
    <3>1. rx # <<>> /\ rx \in Seq(Units)
      BY <1>2 DEF ReadFirst, TypeOK
    <3> QED BY <3>1
  <2>3. u \in Units
    BY <2>2, FirstTyped
  <2>4. Len(frame') = 1 /\ frame'[1] = u
    BY <2>1
  <2>5. u.of \in Nat \ {0}
    BY <2>3, UnitTypes
  <2> QED BY <2>4, <2>5 DEF FrameInv
<1>3. CASE ReadSome
  <2> DEFINE n == IF Missing < Len(rx) THEN Missing ELSE Len(rx)
  <2>1. /\ frame # <<>> /\ Missing > 0 /\ rx # <<>> /\ frame' = frame \o SubSeq(rx, 1, n)
    BY <1>3 DEF ReadSome
  <2>2. frame \in Seq(Units) /\ rx \in Seq(Units) /\ Len(frame) \in Nat \ {0} /\ Len(rx) \in Nat \ {0}
    <3>1. frame \in Seq(Units) /\ rx \in Seq(Units)
      BY DEF TypeOK
    <3> QED BY <2>1, <3>1
  <2>3. frame[1] \in Units
    BY <2>2
  <2>4. frame[1].of \in Nat
    BY <2>3, UnitTypes
  <2>5. Missing = frame[1].of - Len(frame)
    BY <2>1 DEF Missing
  <2>6. n \in 1..Len(rx) /\ n <= Missing /\ Missing \in Int
    BY <2>1, <2>2, <2>4, <2>5
  <2> HIDE DEF n
  <2>7. SubSeq(rx, 1, n) \in Seq(Units) /\ Len(SubSeq(rx, 1, n)) = n
    BY <2>2, <2>6
  <2>8. Len(frame') = Len(frame) + n /\ frame'[1] = frame[1]
    BY <2>1, <2>2, <2>7
  <2>9. Len(frame) + n <= frame[1].of
    BY <2>2, <2>4, <2>5, <2>6
  <2> QED BY <2>8, <2>9 DEF FrameInv
<1>4. frame' = frame \/ frame' = <<>> \/ ReadFirst \/ ReadSome
  BY DEF Actions, LoopData, LoopConnect, NoData, HeaderLine, HeaderDone, HeaderRefused, FrameBegins,
    ReadFails, Message, PingFrame, OtherFrame, Complete, Send, Disconnect, SendsLine, SendsFrame,
    Arrives, Lost, ServerUnchanged, vars
<1> QED BY <1>1, <1>2, <1>3, <1>4

-----------------------------------------------------------------------------
(* The header and the frames.                                                *)

\* Every step keeps the account of the header that has been read.
LEMMA HeaderStep ==
  ASSUME TypeOK, ControlInv, ServerInv, StreamInv, HeaderInv, FramesInv, Actions PROVE HeaderInv'
<1>a. Stream \in Seq(Units)
  BY StreamTyped
<1>1. CASE Ends
  BY <1>1 DEF Ends, HeaderInv
<1>2. CASE Opens
  <2>1. conns + 1 # 0
    BY DEF TypeOK
  <2>2. Stream' = <<>> /\ told' = {} /\ cCode' # 101 /\ ~cIsUpgrade' /\ cAccept' # conns'
    BY <1>2, <2>1 DEF Opens
  <2> QED BY <2>2 DEF HeaderInv
<1>3. CASE Stays
  BY <1>3 DEF Stays, HeaderInv, Recorded, ControlInv, clientVars
<1>4. CASE HeaderLine
  <2>1. PICK n \in 1..Len(rx) :
          /\ ReadLine(n)
          /\ \E l \in Said(Head(rx), n) :
               /\ cCode' = CASE l = "101" -> 101 [] l = "200" -> 200 [] l = "code" -> 10
                             [] OTHER -> cCode
               /\ cIsUpgrade' = (cIsUpgrade \/ l = "connection")
               /\ cIsWebsocket' = (cIsWebsocket \/ l = "upgrade")
               /\ cAccept' = CASE l = "accept" -> Head(rx).x [] l = "wrong" -> -1
                               [] OTHER -> cAccept
    BY <1>4 DEF HeaderLine
  <2>2. pc' = "idle" /\ UNCHANGED <<rest, status, told, conns>> /\ Head(rx).l # ""
    BY <1>4 DEF HeaderLine, serverVars
  <2> DEFINE u == Stream[1]
             d == u.of - u.n
  <2>3. /\ n \in 1..Len(Stream) /\ status = "header"
        /\ u = Head(rx) /\ u \in Units /\ u.l \in Lines /\ Comes(u, told, sent, conns)
        /\ d \in Nat /\ n <= d + 1 /\ (EndsLine(rx[n]) <=> n = d + 1)
        /\ \A i \in 1..n : Stream[i].l = u.l
        /\ Len(Stream') = Len(Stream) - n
        /\ \A i \in 1..Len(Stream') : Stream'[i] = Stream[i + n]
        /\ Stream' # <<>> => Stream'[1] \in Units /\ Before(u, Stream'[1], n)
        /\ Stream' = <<>> => Closed(u, n - 1, told, sent)
    BY <2>1, <2>2, TakesLine
  <2>4. u.l \in Texts /\ u.l \in told /\ u.x = conns /\ u.of \in 2..3
    BY <2>2, <2>3, UnitTypes DEF Comes
  <2> HIDE DEF u, d
  <2>5. Stream' # <<>> => Stream'[1].l \in Lines
    <3> SUFFICES ASSUME Stream' # <<>> PROVE Stream'[1].l \in Lines
      OBVIOUS
    <3>1. Stream'[1] \in Units /\ Before(u, Stream'[1], n)
      BY <2>3
    <3>2. n <= u.of - u.n \/ n = (u.of - u.n) + 1
      BY <2>3 DEF d
    <3> QED BY <2>3, <2>4, <3>1, <3>2, UnitTypes DEF Before
  <2>6. Stream' = <<>> => "" \notin told
    <3> SUFFICES ASSUME Stream' = <<>> PROVE "" \notin told
      OBVIOUS
    <3>1. Closed(u, n - 1, told, sent)
      BY <2>3
    <3>2. d <= n - 1 /\ (d = n - 1 => "" \notin told)
      BY <2>4, <3>1 DEF Closed, d
    <3>3. d = n - 1
      <4>1. d \in Nat /\ n \in Nat /\ n <= d + 1
        BY <2>3
      <4>2. d <= n - 1
        BY <3>2
      <4> QED BY <4>1, <4>2
    <3> QED BY <3>2, <3>3
  <2>7. PICK l \in Said(u, n) :
          /\ cCode' = CASE l = "101" -> 101 [] l = "200" -> 200 [] l = "code" -> 10 [] OTHER -> cCode
          /\ cIsUpgrade' = (cIsUpgrade \/ l = "connection")
          /\ cIsWebsocket' = (cIsWebsocket \/ l = "upgrade")
          /\ cAccept' = CASE l = "accept" -> conns [] l = "wrong" -> -1 [] OTHER -> cAccept
    BY <2>1, <2>3, <2>4
  <2>8. l \in {"101", "connection", "accept"} => l = u.l
    BY <2>7 DEF Said
  <2>9. /\ cCode' = 101 => cCode = 101 \/ l = "101"
        /\ cCode = 101 => cCode' = 101 \/ l \in {"200", "code"}
        /\ l = "101" => cCode' = 101
        /\ cAccept' = conns => cAccept = conns \/ l = "accept"
        /\ cAccept = conns => cAccept' = conns \/ l = "wrong"
        /\ l = "accept" => cAccept' = conns
    <3>1. conns # -1
      BY DEF TypeOK
    <3>2. CASE l = "101"
      BY <2>7, <3>2
    <3>3. CASE l = "200"
      BY <2>7, <3>3
    <3>7. CASE l = "code"
      BY <2>7, <3>7
    <3>4. CASE l = "accept"
      BY <2>7, <3>4
    <3>5. CASE l = "wrong"
      BY <2>7, <3>1, <3>5
    <3>6. CASE l \notin {"101", "200", "code", "accept", "wrong"}
      <4>1. cCode' = cCode /\ cAccept' = cAccept
        BY <2>7, <3>6
      <4> QED BY <3>6, <4>1
    <3> QED BY <3>2, <3>3, <3>4, <3>5, <3>6, <3>7
  <2>10. /\ cCode' = 101 => "101" \in told
         /\ cIsUpgrade' => "connection" \in told
         /\ cAccept' = conns => "accept" \in told
    <3>1. /\ cCode = 101 => "101" \in told
          /\ cIsUpgrade => "connection" \in told
          /\ cAccept = conns => "accept" \in told
      BY <2>3 DEF HeaderInv
    <3> QED BY <2>4, <2>7, <2>8, <2>9, <3>1
  <2>11. ASSUME ~cut'
         PROVE  /\ Stream' # <<>> => Stream'[1].n = 1
                /\ \A m \in told : (\E i \in 1..Len(Stream') : Stream'[i].l = m) \/ Recorded(m)'
    <3>1. ~cut /\ EndsLine(rx[n])
      BY <2>1, <2>11 DEF ReadLine
    <3>2. n = d + 1
      BY <2>3, <3>1
    <3>3. Stream' # <<>> => Stream'[1].n = 1
      BY <2>3, <3>2 DEF Before, d
    <3>4. Stream # <<>> /\ u.n = 1
      <4>1. Stream # <<>>
        BY <1>a, <2>3
      <4> QED BY <2>3, <3>1, <4>1 DEF HeaderInv, u
    <3>5. l = u.l
      <4>1. n >= u.of - 1
        BY <2>4, <3>2, <3>4 DEF d
      <4> QED BY <2>7, <3>4, <4>1 DEF Said
    <3>6. ASSUME NEW m \in told
          PROVE  (\E i \in 1..Len(Stream') : Stream'[i].l = m) \/ Recorded(m)'
      <4>1. CASE \E i \in 1..Len(Stream) : Stream[i].l = m
        <5>1. PICK i \in 1..Len(Stream) : Stream[i].l = m
          BY <4>1
        <5>2. CASE i \in 1..n
          <6>1. m = l
            BY <2>3, <3>5, <5>1, <5>2
          <6>2. /\ m = "101" => cCode' = 101
                /\ m = "accept" => cAccept' = conns
            BY <2>9, <6>1
          <6>3. /\ m = "connection" => cIsUpgrade'
                /\ m = "upgrade" => cIsWebsocket'
            BY Zenon, <2>7, <6>1
          <6> QED BY Zenon, <2>2, <6>2, <6>3 DEF Recorded
        <5>3. CASE i \notin 1..n
          <6>1. Len(Stream) \in Nat
            BY <1>a
          <6>2. i - n \in 1..Len(Stream') /\ (i - n) + n = i
            BY <2>3, <5>3, <6>1
          <6>3. Stream'[i - n] = Stream[i]
            BY <2>3, <6>2
          <6> QED BY <5>1, <6>2, <6>3
        <5> QED BY <5>2, <5>3
      <4>2. CASE Recorded(m)
        <5>1. l \in {"200", "wrong"} => l \in told
          BY <2>4, <3>5
        <5>2. l # "code"
          BY <2>4, <3>5 DEF Texts
        <5> QED BY ZenonT(30), <2>2, <2>7, <2>9, <4>2, <5>1, <5>2 DEF Recorded
      <4> QED BY <2>3, <3>1, <4>1, <4>2 DEF HeaderInv
    <3> QED BY <3>3, <3>6
  <2> QED BY <2>2, <2>5, <2>6, <2>10, <2>11 DEF HeaderInv
<1>5. CASE HeaderAccepted
  BY <1>5 DEF HeaderAccepted, HeaderInv
<1>6. CASE TakesFrame
  BY <1>6, TakesUnits DEF ControlInv, HeaderInv
<1>7. CASE SendsLine
  <2> SUFFICES ASSUME status' = "header" PROVE HeaderInv'
    BY DEF HeaderInv
  <2>a. status = "header" /\ ~early
    BY <1>7 DEF SendsLine, ServerUnchanged, clientVars, ControlInv
  <2>1. PICK l \in Lines :
          /\ told' = told \union {l} /\ Stream' \in Seq(Units)
          /\ Len(Stream') > Len(Stream)
          /\ Stream'[Len(Stream) + 1].l = l /\ Stream'[Len(Stream) + 1].n = 1
          /\ \A i \in 1..Len(Stream) : Stream'[i] = Stream[i]
          /\ UNCHANGED <<clientVars, conn, sent, received, conns, cut, early>>
    BY <1>7, <2>a, LineComes
  <2>b. Len(Stream) \in Nat /\ Len(Stream') \in Nat /\ (Stream' = <<>> => Len(Stream') = 0)
        /\ (Stream # <<>> => Len(Stream) > 0) /\ (Stream = <<>> => Len(Stream) = 0)
    BY <1>a, <2>1
  <2>c. Len(Stream') > Len(Stream)
    BY <2>1
  <2>2. /\ Len(Stream) + 1 \in 1..Len(Stream') /\ \A i \in 1..Len(Stream) : i \in 1..Len(Stream')
        /\ Stream' # <<>> /\ (Stream # <<>> => 1 \in 1..Len(Stream))
        /\ (Stream = <<>> => Len(Stream) + 1 = 1)
    BY <2>b, <2>c
  <2>3. UNCHANGED <<cCode, cIsUpgrade, cIsWebsocket, cAccept, conns, cut>>
    BY <2>1 DEF clientVars
  <2>4. Stream'[1].l \in Lines /\ (~cut => Stream'[1].n = 1)
    <3>1. CASE Stream = <<>>
      BY <2>1, <2>2, <3>1
    <3>2. CASE Stream # <<>>
      BY <2>1, <2>2, <2>a, <3>2 DEF HeaderInv
    <3> QED BY <3>1, <3>2
  <2>5. ASSUME ~cut, NEW m \in told'
        PROVE  (\E i \in 1..Len(Stream') : Stream'[i].l = m) \/ Recorded(m)'
    <3>1. CASE m = l
      BY <2>1, <2>2, <3>1
    <3>2. CASE m \in told
      <4>1. CASE \E i \in 1..Len(Stream) : Stream[i].l = m
        BY <2>1, <2>2, <4>1
      <4>2. CASE Recorded(m)
        BY <2>1, <2>3, <4>2 DEF Recorded
      <4> QED BY <2>5, <2>a, <3>2, <4>1, <4>2 DEF HeaderInv
    <3> QED BY <2>1, <3>1, <3>2
  <2>6. /\ cCode' = 101 => "101" \in told'
        /\ cIsUpgrade' => "connection" \in told'
        /\ cAccept' = conns' => "accept" \in told'
    BY <2>1, <2>3, <2>a DEF HeaderInv
  <2> QED BY <2>2, <2>3, <2>4, <2>5, <2>6 DEF HeaderInv
<1>8. CASE SendsFrame
  <2> SUFFICES ASSUME status' = "header" PROVE HeaderInv'
    BY DEF HeaderInv
  <2>e. status = "header" /\ ~early
    BY <1>8 DEF SendsFrame, ServerUnchanged, clientVars, ControlInv
  <2>1. /\ Stream' \in Seq(Units) /\ Len(Stream') > Len(Stream)
        /\ \A i \in 1..Len(Stream) : Stream'[i] = Stream[i]
        /\ UNCHANGED <<clientVars, told, conns, cut>>
    BY <1>8, <2>e, FrameComes
  <2>f. "" \in told
    BY <1>8 DEF SendsFrame
  <2>2. UNCHANGED <<cCode, cIsUpgrade, cIsWebsocket, cAccept, conns, told, cut>>
    BY <2>1 DEF clientVars
  <2>a. Stream' \in Seq(Units)
    BY <2>1
  <2>b. Len(Stream') \in Nat /\ (Stream' = <<>> => Len(Stream') = 0)
    BY <2>a
  <2>c. Len(Stream) \in Nat /\ (Stream # <<>> => Len(Stream) > 0)
    BY <1>a
  <2>d. Len(Stream') > Len(Stream)
    BY <2>1
  <2>3. Stream # <<>> /\ 1 \in 1..Len(Stream) /\ Stream' # <<>>
    <3>1. Stream # <<>>
      BY <2>e, <2>f DEF HeaderInv
    <3> QED BY <2>b, <2>c, <2>d, <3>1
  <2>4. Stream'[1] = Stream[1]
    BY <2>1, <2>3
  <2>5. \A m : (\E i \in 1..Len(Stream) : Stream[i].l = m) => \E i \in 1..Len(Stream') : Stream'[i].l = m
    <3>1. \A i \in 1..Len(Stream) : i \in 1..Len(Stream')
      BY <2>b, <2>c, <2>d
    <3> QED BY <2>1, <3>1
  <2> QED BY <2>2, <2>3, <2>4, <2>5, <2>e DEF HeaderInv, Recorded
<1> QED
  BY <1>1, <1>2, <1>3, <1>4, <1>5, <1>6, <1>7, <1>8, Classes

\* Every step keeps it that the server of an upgraded connection has agreed.
LEMMA AgreedStep ==
  ASSUME TypeOK, ControlInv, HeaderInv, AgreedInv, FramesInv, Actions PROVE AgreedInv'
<1>1. CASE HeaderAccepted
  <2>1. /\ status = "header" /\ cCode = 101 /\ cIsUpgrade /\ cAccept = conns /\ told' = told
    BY <1>1 DEF HeaderAccepted, HeaderDone, HeaderEnd, Upgraded, serverVars
  <2> QED BY <2>1 DEF HeaderInv, AgreedInv, Agreed
<1>2. CASE told \subseteq told' /\ status' = status
  BY <1>2 DEF AgreedInv, Agreed
<1>3. CASE status' # "connected"
  BY <1>3 DEF AgreedInv
<1>4. HeaderAccepted \/ (told \subseteq told' /\ status' = status) \/ status' # "connected"
  BY Classes DEF Ends, Opens, Stays, HeaderLine, TakesFrame, Keep, Message, PingFrame, Complete,
    SendsLine, SendsFrame, ServerUnchanged, clientVars, serverVars
<1> QED BY <1>1, <1>2, <1>3, <1>4

\* Every step keeps the account of the frames that have been handled.
LEMMA FramesStep ==
  ASSUME TypeOK, ControlInv, ServerInv, StreamInv, HeaderInv, FramesInv, FrameInv, ReceivedInv,
         Actions
  PROVE  FramesInv'
<1>a. Stream \in Seq(Units) /\ sent \in Seq(Kinds) /\ received \in Seq(Units)
  BY StreamTyped DEF TypeOK
<1>1. CASE Ends \/ Opens \/ HeaderLine
  <2>1. CASE HeaderLine
    BY <2>1 DEF HeaderLine, ReadLine, FramesInv
  <2> QED BY <1>1, <2>1 DEF Ends, Opens, FramesInv
<1>2. CASE Stays
  BY <1>2 DEF Stays, FramesInv, LastFrame, clientVars
<1>3. CASE HeaderAccepted
  <2> SUFFICES ASSUME ~early' PROVE FramesInv'
    BY DEF FramesInv
  <2> DEFINE u == Stream[1]
             g == u.of - u.n
  <2>1. PICK n \in 1..Len(rx) : ReadLine(n) /\ n # 1
    BY <1>3 DEF HeaderAccepted, HeaderDone, ClientDisconnect, Reset
  <2>2. /\ pc' = "idle" /\ UNCHANGED <<rest, told, sent, conns, received>>
        /\ Head(rx).l = "" \/ EndsLine(Head(rx))
    BY <1>3 DEF HeaderAccepted, HeaderDone, HeaderEnd, serverVars
  <2>3. /\ n \in 1..Len(Stream) /\ status = "header"
        /\ u = Head(rx) /\ u \in Units /\ u.l \in Lines /\ Comes(u, told, sent, conns)
        /\ g \in Nat /\ n <= g + 1
        /\ Stream' # <<>> => Stream'[1] \in Units /\ Before(u, Stream'[1], n)
        /\ Stream' = <<>> => Closed(u, n - 1, told, sent)
    BY <2>1, <2>2, TakesLine
  <2>4. u.of \in Nat /\ u.n \in 1..u.of /\ u.of \in 2..3 /\ u.f = 0 /\ u.l \in told
        /\ (u.l = "" => u.of = 2)
    BY <2>3, UnitTypes DEF Comes
  <2>5. u.l = ""
    <3> SUFFICES ASSUME EndsLine(u) PROVE FALSE
      BY <2>2, <2>3
    <3>1. g = 0
      <4>1. u.n = u.of
        BY DEF EndsLine
      <4>2. u.of \in Nat
        BY <2>4
      <4> QED BY <4>1, <4>2
    <3>2. n \in Nat \ {0} /\ n <= 1
      BY <2>3, <3>1
    <3> QED BY <2>1, <3>2
  <2>6. g = 1 /\ n = 2
    <3>1. n \in Nat \ {0} /\ n <= g + 1 /\ n # 1
      BY <2>1, <2>3
    <3>2. g \in {0, 1}
      <4>1. u.of = 2
        BY <2>4, <2>5
      <4>2. u.n \in 1..2
        BY <2>4, <4>1
      <4> QED BY <4>1, <4>2
    <3> HIDE DEF g
    <3> QED BY <3>1, <3>2
  <2> HIDE DEF u, g
  <2>7. "" \in told'
    BY <2>2, <2>4, <2>5
  <2>9. LastFrame' = 0
    <3>1. received' = <<>>
      BY <2>2, <2>3 DEF ReceivedInv
    <3> QED BY <3>1 DEF LastFrame
  <2>10. Stream' # <<>> => Stream'[1].l \in Kinds /\ Stream'[1].n = 1 /\ Stream'[1].f = 0 + 1
    <3> SUFFICES ASSUME Stream' # <<>>
                 PROVE  Stream'[1].l \in Kinds /\ Stream'[1].n = 1 /\ Stream'[1].f = 0 + 1
      OBVIOUS
    <3> DEFINE v == Stream'[1]
    <3>1. v \in Units /\ Before(u, v, 2)
      BY <2>3, <2>6
    <3> HIDE DEF v
    <3>2. 2 = (u.of - u.n) + 1
      BY <2>6 DEF g
    <3>3. v.l \in Kinds
      <4>1. v.l \in Lines => (u.l = "" => 2 <= u.of - u.n)
        BY <3>1 DEF Before
      <4>2. ~(2 <= u.of - u.n)
        BY <2>6 DEF g
      <4> QED BY <2>5, <3>1, <4>1, <4>2, UnitTypes
    <3>4. v.n = 1 /\ v.f = u.f + 1
      BY <3>1, <3>2, <3>3 DEF Before
    <3> QED BY <2>4, <3>3, <3>4 DEF v
  <2>11. Stream' = <<>> => 0 = Len(sent)
    <3> SUFFICES ASSUME Stream' = <<>> PROVE 0 = Len(sent)
      OBVIOUS
    <3>1. Closed(u, 1, told, sent)
      BY <2>3, <2>6
    <3> QED BY <2>4, <2>6, <3>1 DEF Closed, g
  <2>12. 0 \in 0..Len(sent) /\ 0 <= 0 /\ \A f \in (0 + 1)..0 : sent[f] # "text"
    BY <1>a
  <2> DEFINE d == 0
  <2>13. d \in 0..Len(sent') /\ LastFrame' <= d /\ \A f \in (LastFrame' + 1)..d : sent'[f] # "text"
    BY <2>2, <2>9, <2>12
  <2>14. Stream' # <<>> => Stream'[1].l \in Kinds /\ Stream'[1].n = 1 /\ Stream'[1].f = d + 1
    BY <2>10
  <2>15. Stream' = <<>> => d = Len(sent')
    BY <2>2, <2>11
  <2> HIDE DEF d
  <2> QED BY <2>7, <2>13, <2>14, <2>15 DEF FramesInv
<1>4. CASE TakesFrame
  <2> SUFFICES ASSUME ~early' PROVE FramesInv'
    BY DEF FramesInv
  <2>1. /\ Len(frame) \in 0..Len(Stream) /\ frame \in Seq(Units)
        /\ Stream' = SubSeq(Stream, Len(frame) + 1, Len(Stream))
        /\ pc = "frame" /\ UNCHANGED <<status, told, sent, conns>> /\ ~early
    BY <1>4, TakesUnits
  <2>2. PICK d \in 0..Len(sent) :
          /\ d + 1 \in 1..Len(sent) /\ sent[d + 1] = frame[1].l
          /\ LastFrame <= d /\ \A f \in (LastFrame + 1)..d : sent[f] # "text"
          /\ Len(frame) \in 1..Len(Stream) /\ Stream[1] \in Units
          /\ Stream[1].l \in Kinds /\ Stream[1].f = d + 1 /\ Stream[1].n = 1
          /\ Stream[1].of = Len(frame)
          /\ \A i \in 1..Len(frame) : /\ frame[i].x = conns /\ frame[i].f = d + 1
                                      /\ frame[i].n = i /\ frame[i].of = Len(frame)
    BY <1>4, <2>1, FrameShape DEF TakesFrame
  <2>3. status = "connected" /\ "" \in told
    BY <2>1 DEF ControlInv, FramesInv
  <2> DEFINE k == Len(frame)
  <2> HIDE DEF k
  <2>4. k \in 1..Len(Stream) /\ k \in 0..Len(Stream) /\ Stream' = SubSeq(Stream, k + 1, Len(Stream))
    BY <2>1, <2>2 DEF k
  <2>5. /\ Stream' \in Seq(Units) /\ Len(Stream') = Len(Stream) - k
        /\ \A i \in 1..Len(Stream') : Stream'[i] = Stream[i + k]
    BY <1>a, <2>4, Suffix
  <2>6. Len(Stream) \in Nat
    BY <1>a
  <2>7. Stream' # <<>> => Stream'[1].l \in Kinds /\ Stream'[1].n = 1 /\ Stream'[1].f = (d + 1) + 1
    <3> SUFFICES ASSUME Stream' # <<>>
                 PROVE  Stream'[1].l \in Kinds /\ Stream'[1].n = 1 /\ Stream'[1].f = (d + 1) + 1
      OBVIOUS
    <3>1. 1 \in 1..Len(Stream') /\ 1 + k \in 1..Len(Stream) /\ Stream'[1] = Stream[1 + k]
      BY <2>4, <2>5, <2>6
    <3>2. Before(Stream[1], Stream[1 + k], (1 + k) - 1) /\ Stream[1 + k] \in Units
      <4>1. 1 \in 1..Len(Stream) /\ 1 < 1 + k
        BY <2>4
      <4>2. Ordered(Stream)
        BY <2>1, <2>3 DEF StreamInv
      <4>3. Stream[1 + k] \in Units
        BY <1>a, <3>1
      <4> QED BY <3>1, <4>1, <4>2, <4>3 DEF Ordered
    <3>3. Before(Stream[1], Stream[1 + k], k)
      <4>1. (1 + k) - 1 = k
        BY <2>4
      <4> QED BY <3>2, <4>1
    <3>4. Stream[1 + k].l \in Kinds
      BY <2>2, <3>2, <3>3, UnitTypes DEF Before
    <3>5. k = (Stream[1].of - Stream[1].n) + 1
      BY <2>2, <2>4 DEF k
    <3> QED BY <2>2, <3>1, <3>3, <3>4, <3>5 DEF Before
  <2>8. Stream' = <<>> => d + 1 = Len(sent)
    <3> SUFFICES ASSUME Stream' = <<>> PROVE d + 1 = Len(sent)
      OBVIOUS
    <3>1. Len(Stream) = k
      BY <2>4, <2>5, <2>6
    <3>2. Closed(Stream[1], Len(Stream) - 1, told, sent)
      <4>1. 1 \in 1..Len(Stream)
        BY <2>4
      <4> QED BY <2>1, <2>3, <4>1 DEF StreamInv, Ended
    <3>3. Stream[1].of - Stream[1].n = Len(Stream) - 1
      BY <2>2, <2>4, <3>1 DEF k
    <3> QED BY <2>2, <3>2, <3>3 DEF Closed
  <2>9. LastFrame' \in {LastFrame, d + 1} /\ (frame[1].l = "text" => LastFrame' = d + 1)
    <3>1. CASE Message
      <4>1. received' = received \o frame
        BY <2>1, <3>1 DEF Message
      <4>2. Len(frame) \in 1..Len(frame) /\ Len(received) \in Nat
        BY <1>a, <2>1, <2>2
      <4>3. received' # <<>> /\ received'[Len(received')] = frame[Len(frame)]
        BY <1>a, <2>1, <4>1, <4>2
      <4>4. frame[Len(frame)].f = d + 1
        BY <2>2, <4>2
      <4>5. LastFrame' = received'[Len(received')].f
        BY <4>3 DEF LastFrame
      <4> QED BY <4>3, <4>4, <4>5
    <3>2. CASE PingFrame
      BY <3>2 DEF PingFrame, Complete, LastFrame
    <3> QED BY <1>4, <3>1, <3>2 DEF TakesFrame
  <2>10. /\ LastFrame' <= d + 1 /\ \A f \in (LastFrame' + 1)..(d + 1) : sent[f] # "text"
    <3>1. LastFrame \in Int
      <4>1. received # <<>> => received[Len(received)] \in Units
        BY <1>a
      <4>2. received # <<>> => received[Len(received)].f \in Nat
        BY <4>1, UnitTypes
      <4> QED BY <4>2 DEF LastFrame
    <3>2. CASE LastFrame' = d + 1
      <4>1. d \in Nat
        BY <1>a
      <4> QED BY <3>2, <4>1
    <3>3. CASE LastFrame' = LastFrame /\ sent[d + 1] # "text"
      <4>1. \A f \in (LastFrame + 1)..(d + 1) : f \in (LastFrame + 1)..d \/ f = d + 1
        BY <1>a, <3>1
      <4>2. LastFrame <= d + 1
        BY <1>a, <2>2, <3>1
      <4> QED BY <2>2, <3>3, <4>1, <4>2
    <3> QED BY <2>2, <2>9, <3>2, <3>3
  <2> DEFINE e == d + 1
  <2>11. e \in 0..Len(sent') /\ LastFrame' <= e /\ \A f \in (LastFrame' + 1)..e : sent'[f] # "text"
    BY <2>1, <2>2, <2>10
  <2>12. Stream' # <<>> => Stream'[1].l \in Kinds /\ Stream'[1].n = 1 /\ Stream'[1].f = e + 1
    BY <2>7
  <2>13. Stream' = <<>> => e = Len(sent')
    BY <2>1, <2>8
  <2>14. "" \in told'
    BY <2>1, <2>3
  <2> HIDE DEF e
  <2> QED BY <2>11, <2>12, <2>13, <2>14 DEF FramesInv
<1>5. CASE SendsLine
  <2>1. UNCHANGED <<status, early>> /\ "" \notin told
    BY <1>5 DEF SendsLine, ServerUnchanged, clientVars, cutVars
  <2> QED BY <2>1 DEF FramesInv
<1>6. CASE SendsFrame
  <2> SUFFICES ASSUME status = "connected", ~early PROVE FramesInv'
    BY <1>6 DEF SendsFrame, ServerUnchanged, clientVars, cutVars, FramesInv
  <2>1. PICK k \in Kinds :
          /\ sent' = Append(sent, k) /\ Stream' \in Seq(Units) /\ Len(Stream') > Len(Stream)
          /\ LET u == Stream'[Len(Stream) + 1] IN u.l \in Kinds /\ u.n = 1 /\ u.f = Len(sent) + 1
          /\ \A i \in 1..Len(Stream) : Stream'[i] = Stream[i]
          /\ UNCHANGED <<clientVars, told, received>>
    BY <1>6, FrameComes
  <2>2. PICK d \in 0..Len(sent) :
          /\ LastFrame <= d /\ \A f \in (LastFrame + 1)..d : sent[f] # "text"
          /\ Stream # <<>> => Stream[1].l \in Kinds /\ Stream[1].n = 1 /\ Stream[1].f = d + 1
          /\ Stream = <<>> => d = Len(sent)
    BY DEF FramesInv
  <2>3. Len(sent) \in Nat /\ Len(sent') = Len(sent) + 1 /\ \A f \in 1..Len(sent) : sent'[f] = sent[f]
    BY <1>a, <2>1
  <2>4. LastFrame' = LastFrame /\ LastFrame \in Nat
    <3>1. received # <<>> => received[Len(received)] \in Units
      BY <1>a
    <3> QED BY <2>1, <3>1, UnitTypes DEF LastFrame
  <2>5. d \in 0..Len(sent') /\ \A f \in (LastFrame' + 1)..d : sent'[f] # "text"
    <3>1. \A f \in (LastFrame + 1)..d : f \in 1..Len(sent)
      BY <2>3, <2>4
    <3> QED BY <2>2, <2>3, <2>4, <3>1
  <2>6. Stream'[1].l \in Kinds /\ Stream'[1].n = 1 /\ Stream'[1].f = d + 1
    <3>1. CASE Stream = <<>>
      <4>1. Len(Stream) + 1 = 1 /\ d = Len(sent)
        BY <2>1, <2>2, <3>1
      <4> QED BY <2>1, <4>1
    <3>2. CASE Stream # <<>>
      <4>1. 1 \in 1..Len(Stream)
        BY <1>a, <3>2
      <4> QED BY <2>1, <2>2, <3>2, <4>1
    <3> QED BY <3>1, <3>2
  <2>7. Stream' # <<>>
    <3>1. Len(Stream) \in Nat
      BY <1>a
    <3>2. Len(Stream') > Len(Stream)
      BY <2>1
    <3>3. Stream' = <<>> => Len(Stream') = 0
      OBVIOUS
    <3> QED BY <3>1, <3>2, <3>3
  <2>8. "" \in told'
    BY <2>1 DEF FramesInv
  <2> QED BY <2>2, <2>4, <2>5, <2>6, <2>7, <2>8 DEF FramesInv
<1> QED
  BY <1>1, <1>2, <1>3, <1>4, <1>5, <1>6, Classes

-----------------------------------------------------------------------------
(* What has been received.                                                   *)

\* A step empties the history, for a new connection, or leaves it, or adds a message.
Kept ==
  /\ UNCHANGED <<received, conns>> /\ told \subseteq told' /\ (status' = "header" => status = "header")
  /\ sent' = sent \/ \E k \in Kinds : sent' = Append(sent, k)

LEMMA History ==
  ASSUME TypeOK, Actions PROVE received' = <<>> \/ Kept \/ (Message /\ ~early)
<1> USE DEF clientVars, serverVars
<1>1. CASE LoopConnect
  BY <1>1 DEF LoopConnect, Kept
<1>2. CASE HeaderDone \/ HeaderRefused \/ ReadFails \/ PingFrame \/ OtherFrame \/ Send \/ Disconnect
  BY <1>2 DEF HeaderDone, HeaderRefused, ReadFails, PingFrame, OtherFrame, Complete, Send, Disconnect,
    Cleanup, Keep, ClientDisconnect, Reset, Kept
<1>3. CASE LoopData \/ NoData \/ HeaderLine \/ FrameBegins \/ ReadFirst \/ ReadSome \/ UNCHANGED vars
  BY <1>3 DEF LoopData, NoData, HeaderLine, FrameBegins, ReadFirst, ReadSome, vars, Kept
<1>4. CASE SendsLine \/ SendsFrame \/ Arrives \/ Lost
  BY <1>4 DEF SendsLine, SendsFrame, Arrives, Lost, ServerUnchanged, Kept
<1>5. CASE Message /\ early
  BY <1>5 DEF Message, Complete, Callback, Cleanup, Keep, ClientDisconnect, Reset, Kept
<1> QED BY <1>1, <1>2, <1>3, <1>4, <1>5 DEF Actions

\* What a message adds to it
LEMMA MessageAdds ==
  ASSUME TypeOK, ControlInv, Message, ~early
  PROVE  /\ received' = received \o frame /\ UNCHANGED <<told, sent, conns>>
         /\ status' # "header" /\ status = "connected"
         /\ received \in Seq(Units) /\ frame \in Seq(Units)
         /\ Len(received') = Len(received) + Len(frame)
         /\ Len(received) \in Nat /\ Len(frame) \in Nat
         /\ \A i \in 1..Len(received) : received'[i] = received[i]
         /\ \A i \in 1..Len(frame) : received'[Len(received) + i] = frame[i]
<1>1. received' = received \o frame /\ UNCHANGED <<told, sent, conns>> /\ status = "connected"
  BY DEF Message, Complete, serverVars, ControlInv
<1>2. status' # "header"
  BY <1>1 DEF Message, Callback, Cleanup, Keep, ClientDisconnect, Reset, clientVars
<1>3. received \in Seq(Units) /\ frame \in Seq(Units)
  BY DEF TypeOK
<1> QED BY <1>1, <1>2, <1>3

\* Every step keeps what has been received among the frames sent.
LEMMA ReceivedStep ==
  ASSUME TypeOK, ControlInv, StreamInv, FramesInv, FrameInv, ReceivedInv, Actions
  PROVE  ReceivedInv'
<1>0. sent \in Seq(Kinds)
  BY DEF TypeOK
<1>1. CASE received' = <<>>
  <2>1. \A i \in 1..Len(<<>>) : FALSE
    OBVIOUS
  <2> QED BY <1>1, <2>1 DEF ReceivedInv
<1>2. CASE Kept
  <2>1. \A f \in 1..Len(sent) : f \in 1..Len(sent')
    BY <1>0, <1>2 DEF Kept
  <2> QED BY <1>2, <2>1 DEF Kept, ReceivedInv
<1>3. CASE Message /\ ~early
  <2>1. PICK d \in 0..Len(sent) : d + 1 \in 1..Len(sent) /\ \A i \in 1..Len(frame) : frame[i].f = d + 1
    BY <1>3, FrameShape
  <2>2. \A i \in 1..Len(received') :
          i \in 1..Len(received) \/ (i - Len(received) \in 1..Len(frame)
                                     /\ Len(received) + (i - Len(received)) = i)
    BY <1>3, MessageAdds
  <2>3. \A i \in 1..Len(received') : received'[i].f \in 1..Len(sent)
    <3> SUFFICES ASSUME NEW i \in 1..Len(received') PROVE received'[i].f \in 1..Len(sent)
      OBVIOUS
    <3>1. CASE i \in 1..Len(received)
      <4>1. received'[i] = received[i]
        BY <1>3, <3>1, MessageAdds
      <4> QED BY <3>1, <4>1 DEF ReceivedInv
    <3>2. CASE i \notin 1..Len(received)
      <4>1. i - Len(received) \in 1..Len(frame) /\ Len(received) + (i - Len(received)) = i
        BY <2>2, <3>2
      <4>2. received'[Len(received) + (i - Len(received))] = frame[i - Len(received)]
        BY <1>3, <4>1, MessageAdds
      <4> QED BY <2>1, <4>1, <4>2
    <3> QED BY <3>1, <3>2
  <2> QED BY <1>3, <2>3, MessageAdds DEF ReceivedInv
<1> QED BY <1>1, <1>2, <1>3, History

\* The unit u may be received after b, when the frames sent are q.
Follows(u, b, q) ==
  IF u.n > 1 THEN u.f = b.f /\ u.n = b.n + 1
  ELSE b.n = b.of /\ b.f < u.f /\ \A f \in (b.f + 1)..(u.f - 1) : q[f] # "text"

Start == [f |-> 0, n |-> 1, of |-> 1]
Preceding(s, i) == IF i = 1 THEN Start ELSE s[i - 1]

Chained(s, c, q) == \A i \in 1..Len(s) : s[i].x = c /\ Follows(s[i], Preceding(s, i), q)

\* The property, unit by unit
UnitsWhole ==
  /\ Chained(received, conns, sent)
  /\ received # <<>> => received[Len(received)].n = received[Len(received)].of /\ "" \in told
  /\ AgreedInv

LEMMA WholeParts == TypeOK => (MessagesWhole <=> UnitsWhole)
<1> SUFFICES ASSUME TypeOK PROVE MessagesWhole <=> UnitsWhole
  OBVIOUS
<1>1. received \in Seq(Units)
  BY DEF TypeOK
<1>2. DOMAIN received = 1..Len(received)
  BY <1>1
<1> QED
  BY Zenon, <1>2 DEF UnitsWhole, MessagesWhole, Chained, Follows, Preceding, Start, Last, Agreed,
    AgreedInv

\* Every step keeps the messages whole.
LEMMA WholeStep ==
  ASSUME TypeOK, ControlInv, StreamInv, FramesInv, FrameInv, ReceivedInv, MessagesWhole, Actions,
         TypeOK', AgreedInv'
  PROVE  MessagesWhole'
<1>0. sent \in Seq(Kinds) /\ received \in Seq(Units) /\ received' \in Seq(Units)
  BY DEF TypeOK
<1>a. /\ Chained(received, conns, sent)
      /\ received # <<>> => received[Len(received)].n = received[Len(received)].of /\ "" \in told
  BY WholeParts DEF UnitsWhole
<1> SUFFICES UnitsWhole'
  BY WholeParts, PTL
<1> SUFFICES /\ Chained(received', conns', sent')
             /\ received' # <<>> => /\ received'[Len(received')].n = received'[Len(received')].of
                                    /\ "" \in told'
  BY DEF UnitsWhole
<1>1. CASE received' = <<>>
  <2>1. \A i \in 1..Len(<<>>) : FALSE
    OBVIOUS
  <2> QED BY <1>1, <2>1 DEF Chained
<1>2. CASE Kept
  <2>1. \A f \in 1..Len(sent) : sent'[f] = sent[f]
    BY <1>0, <1>2 DEF Kept
  <2>2. ASSUME NEW i \in 1..Len(received)
        PROVE  Follows(received[i], Preceding(received, i), sent')
    <3> DEFINE u == received[i]
               b == Preceding(received, i)
    <3>1. u.f \in 1..Len(sent) /\ Follows(u, b, sent)
      BY <1>a DEF Chained, ReceivedInv
    <3>2. b.f \in Nat
      <4>1. CASE i = 1
        BY <4>1 DEF Preceding, Start
      <4>2. CASE i # 1
        <5>1. i - 1 \in 1..Len(received)
          BY <1>0, <4>2
        <5>2. received[i - 1] \in Units
          BY <1>0, <5>1
        <5>3. received[i - 1].f \in Nat
          BY <5>2, UnitTypes
        <5> QED BY <4>2, <5>3 DEF Preceding
      <4> QED BY <4>1, <4>2
    <3> HIDE DEF u, b
    <3>3. \A f \in (b.f + 1)..(u.f - 1) : f \in 1..Len(sent)
      BY <1>0, <3>1, <3>2
    <3>4. Follows(u, b, sent')
      BY <2>1, <3>1, <3>3 DEF Follows
    <3> QED BY <3>4 DEF u, b
  <2>3. UNCHANGED <<received, conns>> /\ told \subseteq told'
    BY <1>2 DEF Kept
  <2> QED BY <1>a, <2>2, <2>3 DEF Chained
<1>3. CASE Message /\ ~early
  <2> DEFINE m == Len(received)
             n == Len(frame)
  <2>1. PICK d \in 0..Len(sent) :
          /\ LastFrame <= d /\ \A f \in (LastFrame + 1)..d : sent[f] # "text"
          /\ n \in 1..Len(Stream)
          /\ \A i \in 1..n : frame[i].x = conns /\ frame[i].f = d + 1 /\ frame[i].n = i /\ frame[i].of = n
    BY <1>3, FrameShape
  <2>2. /\ UNCHANGED <<told, sent, conns>> /\ status = "connected"
        /\ Len(received') = m + n /\ m \in Nat /\ n \in Nat
        /\ \A i \in 1..m : received'[i] = received[i]
        /\ \A i \in 1..n : received'[m + i] = frame[i]
    BY <1>3, MessageAdds
  <2>3. n >= 1 /\ n \in 1..n /\ 1 \in 1..n /\ d \in Nat
    BY <1>0, <2>1, <2>2
  <2>4. received # <<>> <=> m # 0
    BY <1>0
  <2> HIDE DEF m, n
  <2>5. ASSUME NEW i \in 1..m
        PROVE  received'[i].x = conns /\ Follows(received'[i], Preceding(received', i), sent)
    <3>1. Preceding(received', i) = Preceding(received, i)
      <4>1. CASE i = 1
        BY <4>1 DEF Preceding
      <4>2. CASE i # 1
        <5>1. i - 1 \in 1..m
          BY <2>2, <4>2
        <5> QED BY <2>2, <4>2, <5>1 DEF Preceding
      <4> QED BY <4>1, <4>2
    <3> QED BY <1>a, <2>2, <3>1 DEF Chained, m
  <2>6. ASSUME NEW j \in 1..n
        PROVE  /\ received'[m + j].x = conns
               /\ Follows(received'[m + j], Preceding(received', m + j), sent)
    <3> DEFINE u == received'[m + j]
               b == Preceding(received', m + j)
    <3>a. u = frame[j]
      BY <2>2
    <3>1. u.x = conns /\ u.f = d + 1 /\ u.n = j
      BY <2>1, <3>a
    <3>2. CASE j = 1
      <4>1. b.n = b.of /\ b.f = LastFrame
        <5>1. CASE m = 0
          <6>1. m + j = 1 /\ received = <<>>
            BY <2>4, <3>2, <5>1
          <6> QED BY <6>1 DEF Preceding, Start, LastFrame
        <5>2. CASE m # 0
          <6>1. m + j # 1 /\ (m + j) - 1 = m /\ m \in 1..m
            BY <2>2, <3>2, <5>2
          <6>2. b = received[m]
            BY <2>2, <6>1 DEF Preceding
          <6> QED BY <1>a, <2>4, <5>2, <6>2 DEF LastFrame, m
        <5> QED BY <5>1, <5>2
      <4>2. LastFrame \in Nat
        <5>1. received # <<>> => received[Len(received)] \in Units
          BY <1>0
        <5> QED BY <5>1, UnitTypes DEF LastFrame
      <4> HIDE DEF u, b
      <4>3. b.f < u.f /\ u.f - 1 = d /\ ~(u.n > 1)
        BY <2>1, <2>3, <3>1, <3>2, <4>1, <4>2
      <4>4. \A f \in (b.f + 1)..(u.f - 1) : sent[f] # "text"
        BY <2>1, <4>1, <4>3
      <4>5. Follows(u, b, sent)
        BY <4>1, <4>3, <4>4 DEF Follows
      <4> QED BY <3>1, <4>5 DEF u, b
    <3>3. CASE j # 1
      <4>1. m + j # 1 /\ (m + j) - 1 = m + (j - 1) /\ j - 1 \in 1..n
        BY <2>2, <3>3
      <4>2. b = frame[j - 1]
        BY <2>2, <4>1 DEF Preceding
      <4>3. b.f = d + 1 /\ b.n = j - 1
        BY <2>1, <4>1, <4>2
      <4> HIDE DEF u, b
      <4>4. u.n > 1 /\ u.n = b.n + 1 /\ u.f = b.f
        BY <2>2, <3>1, <3>3, <4>3
      <4>5. Follows(u, b, sent)
        BY <4>4 DEF Follows
      <4> QED BY <3>1, <4>5 DEF u, b
    <3> QED BY <3>2, <3>3
  <2>7. Chained(received', conns, sent)
    <3>1. \A i \in 1..Len(received') : i \in 1..m \/ (i - m \in 1..n /\ m + (i - m) = i)
      BY <2>2
    <3>2. ASSUME NEW i \in 1..Len(received')
          PROVE  received'[i].x = conns /\ Follows(received'[i], Preceding(received', i), sent)
      <4>1. CASE i \in 1..m
        BY <2>5, <4>1
      <4>2. CASE i \notin 1..m
        <5>1. i - m \in 1..n /\ m + (i - m) = i
          BY <3>1, <4>2
        <5>2. /\ received'[m + (i - m)].x = conns
              /\ Follows(received'[m + (i - m)], Preceding(received', m + (i - m)), sent)
          BY <2>6, <5>1
        <5> QED BY <5>1, <5>2
      <4> QED BY <4>1, <4>2
    <3> QED BY <3>2 DEF Chained
  <2>8. received'[Len(received')].n = received'[Len(received')].of
    BY <2>1, <2>2, <2>3
  <2>9. "" \in told'
    BY <1>3, <2>2 DEF FramesInv
  <2> QED BY <2>2, <2>7, <2>8, <2>9
<1> QED BY <1>1, <1>2, <1>3, History

-----------------------------------------------------------------------------
(* The call through NULL.                                                    *)

\* Every step keeps it to servers that have not agreed.
LEMMA CrashStep ==
  ASSUME TypeOK, ControlInv, StreamInv, HeaderInv, CrashesOnlyRefused, Actions
  PROVE  CrashesOnlyRefused'
<1> SUFFICES ASSUME pc' = "crashed" PROVE CrashesOnlyRefused'
  BY DEF CrashesOnlyRefused
<1> USE DEF clientVars, serverVars, cutVars
<1>1. CASE pc = "crashed"
  <2>1. conn # "open"
    BY <1>1 DEF ControlInv
  <2>2. told' = told /\ cut' = cut
    BY <1>1, <2>1 DEF Actions, LoopData, LoopConnect, NoData, HeaderLine, HeaderDone, HeaderRefused,
      HeaderEnd, FrameBegins, ReadFirst, ReadSome, ReadFails, Message, PingFrame, OtherFrame, Complete, Send,
      Disconnect, SendsLine, SendsFrame, Arrives, Lost, vars
  <2> QED BY <1>1, <2>2 DEF CrashesOnlyRefused
<1>2. CASE HeaderRefused
  <2>1. /\ pc = "data" /\ status = "header" /\ rx # <<>> /\ told' = told /\ cut' = cut
        /\ Head(rx).l = "" \/ EndsLine(Head(rx))
        /\ ~(Upgraded /\ cCode = 101 /\ cAccept = conns)
    BY <1>2 DEF HeaderRefused, HeaderEnd
  <2> SUFFICES ASSUME ~cut,
                      {"200", "wrong"} \cap told = {},
                      {"101", "connection", "upgrade", "accept"} \subseteq told
               PROVE  FALSE
    BY <2>1 DEF CrashesOnlyRefused
  <2>a. Ordered(Stream) /\ Known(Stream, told, sent, conns)
    BY <2>1 DEF StreamInv, ControlInv
  <2>2. Stream \in Seq(Units) /\ Stream[1].l = "" /\ 1 \in 1..Len(Stream)
    <3>1. Reading = <<>> /\ Len(<<>>) = 0
      BY <2>1 DEF Reading
    <3>2. rx \in Seq(Units) /\ rest \in Seq(Units) /\ Len(rest) \in Nat
      <4>1. rx \in Seq(Units) /\ rest \in Seq(Units)
        BY StreamTyped
      <4> QED BY <4>1
    <3>3. Len(rx) \in Nat \ {0} /\ 1 \in 1..Len(rx)
      <4>1. rx \in Seq(Units) /\ rx # <<>>
        BY <2>1, <3>2
      <4> QED BY <4>1
    <3>a. rx[1] = Head(rx)
      BY <3>2
    <3>4. Stream[Len(Reading) + 1] = rx[1] /\ Stream \in Seq(Units)
          /\ Len(Stream) = Len(Reading) + Len(rx) + Len(rest)
      BY <3>3, StreamTyped
    <3>5. Stream[1] = rx[1]
      BY <3>1, <3>4
    <3>6. 1 \in 1..Len(Stream)
      BY <3>1, <3>2, <3>3, <3>4
    <3>7. Stream[1].n = 1 /\ Stream[1].l \in Lines
      <4>1. Stream # <<>>
        BY <3>4, <3>6
      <4> QED BY <2>1, <4>1 DEF HeaderInv
    <3>8. ~EndsLine(Stream[1])
      <4>1. Stream[1].of \in 2..3
        BY <2>a, <3>6, <3>7 DEF Known, Comes
      <4> QED BY <3>7, <4>1 DEF EndsLine
    <3> QED BY <2>1, <3>4, <3>5, <3>6, <3>8, <3>a
  <2>3. ASSUME NEW i \in 1..Len(Stream) PROVE Stream[i].l \notin {"101", "connection", "upgrade", "accept"}
    <3>1. CASE i = 1
      BY <2>2, <3>1
    <3>2. CASE i # 1
      <4>1. Before(Stream[1], Stream[i], i - 1)
        <5>1. 1 < i
          BY <3>2
        <5> QED BY <2>2, <2>a, <5>1 DEF Ordered
      <4>2. Stream[i].l \in Lines => Stream[i].l = ""
        BY <2>2, <4>1 DEF Before
      <4> QED BY <4>2 DEF Lines, Texts
    <3> QED BY <3>1, <3>2
  <2>4. \A l \in {"101", "connection", "upgrade", "accept"} :
          /\ l = "101" => cCode = 101 \/ "200" \in told
          /\ l = "connection" => cIsUpgrade
          /\ l = "upgrade" => cIsWebsocket
          /\ l = "accept" => cAccept = conns \/ "wrong" \in told
    <3>1. ASSUME NEW l \in {"101", "connection", "upgrade", "accept"}
          PROVE  l \in told /\ ~\E i \in 1..Len(Stream) : Stream[i].l = l
      BY <2>3
    <3> QED BY <2>1, <3>1 DEF HeaderInv, Recorded
  <2>5. cCode = 101 /\ cIsUpgrade /\ cIsWebsocket /\ cAccept = conns
    BY <2>4
  <2> QED BY <2>1, <2>5 DEF Upgraded
<1>3. pc = "crashed" \/ HeaderRefused
  BY DEF Actions, LoopData, LoopConnect, NoData, HeaderLine, HeaderDone, FrameBegins, ReadFirst,
    ReadSome, ReadFails, Message, PingFrame, OtherFrame, Complete, Send, Disconnect, SendsLine,
    SendsFrame, Arrives, Lost, ServerUnchanged, vars
<1> QED BY <1>1, <1>2, <1>3

-----------------------------------------------------------------------------
(* The theorems.                                                             *)

LEMMA InitIInv == Init => IInv
<1> SUFFICES ASSUME Init PROVE IInv
  OBVIOUS
<1> USE Bounds DEF Init
<1>1. TypeOK
  <2>1. FlagTypes
    BY Zenon DEF FlagTypes
  <2>2. ValueTypes
    BY DEF ValueTypes
  <2>3. QueueTypes
    BY DEF QueueTypes
  <2> QED BY <2>1, <2>2, <2>3, TypeParts
<1>2. \A i \in 1..Len(<<>>) : FALSE
  OBVIOUS
<1>3. MessagesWhole
  <2>1. UnitsWhole
    BY <1>2 DEF UnitsWhole, Chained, AgreedInv
  <2> QED BY <1>1, <2>1, WholeParts
<1> QED
  BY <1>1, <1>2, <1>3 DEF IInv, CrashesOnlyRefused, ControlInv, ServerInv, StreamInv, HeaderInv,
    AgreedInv, FramesInv, FrameInv, ReceivedInv

LEMMA StepIInv == IInv /\ [Next]_vars => IInv'
<1> SUFFICES ASSUME IInv, [Next]_vars PROVE IInv'
  OBVIOUS
<1>1. Actions
  BY StepIsAction
<1>a. /\ TypeOK /\ MessagesWhole /\ CrashesOnlyRefused
      /\ ControlInv /\ ServerInv /\ StreamInv /\ HeaderInv /\ AgreedInv /\ FramesInv
      /\ FrameInv /\ ReceivedInv
  BY DEF IInv
<1>2. TypeOK' /\ ControlInv'
  BY <1>1, <1>a, TypeStep, ControlStep
<1>3. ServerInv' /\ StreamInv'
  BY <1>1, <1>a, ServerStep, StreamStep
<1>4. HeaderInv' /\ AgreedInv' /\ FramesInv' /\ FrameInv'
  BY <1>1, <1>a, HeaderStep, AgreedStep, FramesStep, FrameStep
<1>5. ReceivedInv' /\ MessagesWhole' /\ CrashesOnlyRefused'
  BY <1>1, <1>2, <1>4, <1>a, ReceivedStep, WholeStep, CrashStep
<1> QED BY <1>2, <1>3, <1>4, <1>5 DEF IInv

\* The inductive invariant holds in every state of WebSocketsClient's loop().
THEOREM Invariance == Spec => []IInv
BY InitIInv, StepIInv, PTL DEF Spec

\* The variables of the client and of the connection keep their types.
THEOREM TypeCorrect == Spec => []TypeOK
<1>1. IInv => TypeOK
  BY DEF IInv
<1> QED BY <1>1, Invariance, PTL

\* handleWebsocket hands the application the data messages of the connection whole, in
\* order and without leaving one out, with frames of any length, any number of them and
\* a buffer of any size, and takes the connection for upgraded only after the server
\* has agreed; but for a header that a time-out in its CR and LF has ended early.
THEOREM MessagesAreWhole == Spec => []MessagesWhole
<1>1. IInv => MessagesWhole
  BY DEF IInv
<1> QED BY <1>1, Invariance, PTL

\* The call through NULL in handleHeader needs a server that has not agreed to the
\* upgrade, or a line of its answer that a time-out has cut, whatever the order of
\* the lines and wherever the connection is lost.
THEOREM OnlyRefusedCrash == Spec => []CrashesOnlyRefused
<1>1. IInv => CrashesOnlyRefused
  BY DEF IInv
<1> QED BY <1>1, Invariance, PTL
=============================================================================
